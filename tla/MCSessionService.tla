-------------------------- MODULE MCSessionService --------------------------
EXTENDS SessionServiceRefinement, TLC

\* Calls, sessions and request ids are interchangeable (safety runs only).
Symmetry == Permutations(Calls) \cup Permutations(Sessions) \cup Permutations(RequestIds)
=============================================================================
