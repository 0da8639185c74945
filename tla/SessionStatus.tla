--------------------------- MODULE SessionStatus ---------------------------
(***************************************************************************)
(* The statuses of a browser session as the service uses them              *)
(* (BrowserSessionStatus in the public contract) and the finality          *)
(* predicate of internal/core.  "ABSENT" stands for "no row".              *)
(***************************************************************************)

FinalStatuses == {"STOPPED", "FAILED", "EXPIRED"}

SessionStatuses == {"STARTING", "RUNNING", "STOPPING"} \cup FinalStatuses

(* Mutant: an expired session counts as unfinished. *)
IsStoppedOrFailed(status) == status \in {"STOPPED", "FAILED"}

SessionStatusIsFinal(status) == status \in FinalStatuses

=============================================================================
