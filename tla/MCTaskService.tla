---------------------------- MODULE MCTaskService ----------------------------
EXTENDS TaskService, TLC

\* Calls, tasks and request ids are interchangeable (safety runs only).
Symmetry == Permutations(Calls) \cup Permutations(Tasks) \cup Permutations(RequestIds)
=============================================================================
