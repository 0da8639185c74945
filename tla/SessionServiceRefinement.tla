---------------------- MODULE SessionServiceRefinement ----------------------
(***************************************************************************)
(* StartBrowserSession keeps the promise of RequestLedger: the rows of the *)
(* store are the bindings, the launches the work begun, the answers what   *)
(* clients were told.  And its starts, stops and expiries keep browsers as *)
(* BrowserLifecycle says, one for each session.                            *)
(***************************************************************************)
EXTENDS SessionService

Pair(s) == <<row[s].req, s>>

Ledger == INSTANCE RequestLedger WITH
    Requests <- RequestIds,
    Things   <- Sessions,
    bound    <- {Pair(s) : s \in {t \in Sessions : Stored(t)}},
    begun    <- {Pair(s) : s \in launched},
    told     <- answered

(* The service, with its faults, retries and restarts, implements the      *)
(* ledger: a request id is bound to one session for ever, launches at most *)
(* one browser and is always answered with that session.                   *)
ImplementsLedger == Ledger!Spec

Lifecycle == INSTANCE BrowserLifecycle WITH
    Browsers  <- Sessions,
    SessionOf <- [s \in Sessions |-> s],
    begun     <- launched,
    starting  <- {sid[c] : c \in {d \in Calls : pc[d] = "connect"}},
    mapped    <- entry,
    kills     <- {<<c, sid[c]>> : c \in {d \in Calls : pc[d] \in KillingPcs}},
    running   <- alive,
    lost      <- orphans

(* However Starts, Stops, expiries and the death of the service overlap, a *)
(* session's browser is launched once, by one call, and is taken out of    *)
(* the map and killed by one call, or given up by its own start.           *)
ImplementsLifecycle == Lifecycle!Spec
=============================================================================
