---------------------------- MODULE RequestLedger ----------------------------
(***************************************************************************)
(* What an operation with a request_id promises its clients, whatever      *)
(* store, runtime and failures stand behind it: a request id is bound once *)
(* and for ever, to a thing (a session, a task) of its own; every answer   *)
(* names the thing the request is bound to; and the work the request asks  *)
(* for (launching a browser, running commands) begins at most once.        *)
(***************************************************************************)
CONSTANTS Requests, Things

VARIABLES
    bound,  \* <<request, thing>> pairs
    begun,  \* the pairs whose work has begun
    told    \* the pairs some client was told

ledger == <<bound, begun, told>>

Init == bound = {} /\ begun = {} /\ told = {}

Bind(r, t) ==
    /\ \A p \in bound : p[1] # r /\ p[2] # t
    /\ bound' = bound \cup {<<r, t>>}
    /\ UNCHANGED <<begun, told>>

Begin(r, t) ==
    /\ <<r, t>> \in bound
    /\ \A p \in begun : p[1] # r
    /\ begun' = begun \cup {<<r, t>>}
    /\ UNCHANGED <<bound, told>>

Tell(r, t) ==
    /\ <<r, t>> \in bound
    /\ told' = told \cup {<<r, t>>}
    /\ UNCHANGED <<bound, begun>>

Next == \E r \in Requests, t \in Things : Bind(r, t) \/ Begin(r, t) \/ Tell(r, t)

Spec == Init /\ [][Next]_ledger

-----------------------------------------------------------------------------
(* A request has one thing and a thing one request; nobody was told of a   *)
(* pair that is not bound.                                                 *)
Idempotent ==
    /\ \A p, q \in bound : p[1] = q[1] <=> p[2] = q[2]
    /\ told \subseteq bound
    /\ begun \subseteq bound
=============================================================================
