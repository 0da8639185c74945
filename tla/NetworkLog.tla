----------------------------- MODULE NetworkLog -----------------------------
(***************************************************************************)
(* The worker's log of network requests (class NetworkLog of               *)
(* scripts/worker.py) and wait_for_network_request, which polls it.        *)
(*                                                                         *)
(* Page events are delivered while the worker is inside a call of          *)
(* Playwright: during the wait's sleep of 100 ms, and during the call of   *)
(* request.response() that on_request_finished makes halfway through.  An  *)
(* entry is known by id(request), the address of a Python object, which    *)
(* another request may get once the first has been disposed of.            *)
(***************************************************************************)
EXTENDS Naturals, Sequences, SequencesExt

CONSTANTS
    Requests,   \* requests of the page
    Ids,        \* addresses of request objects
    Matching,   \* those that the filter's url, method and type select
    Capacity,   \* entries in the log (300 in the code)
    None        \* no address, no answer

ASSUME LogAssumption ==
    Matching \subseteq Requests /\ Capacity \in Nat \ {0} /\ None \notin Ids \cup Requests

VARIABLES
    stage,      \* request -> what the browser has reported of it
    addr,       \* request -> id of its object while it lives
    finishing,  \* requests inside on_request_finished, waiting for response()
    events,     \* the log, oldest first: [id, request, phase, status]
    wait,       \* the command: "none", "check", "sleep", "found", "timeout"
    strict,     \* its require_response
    byStatus,   \* its filter has a range of status codes
    late,       \* its deadline has passed
    due         \* history: requests it asked for, reported by its deadline

browser == <<stage, addr, finishing>>
command == <<wait, strict, byStatus, late, due>>
vars == <<browser, events, command>>

-----------------------------------------------------------------------------
(***************************************************************************)
(* The page's events                                                       *)
(***************************************************************************)

(* Mutant: the oldest entry with the request's id. *)
event_for_oldest(r) ==
    {i \in DOMAIN events :
        /\ events[i].id = addr[r]
        /\ \A j \in DOMAIN events : events[j].id = addr[r] => i <= j}

(* The position of the newest entry with the request's id, if there is one.*)
event_for_request(r) ==
    {i \in DOMAIN events :
        /\ events[i].id = addr[r]
        /\ \A j \in DOMAIN events : events[j].id = addr[r] => j <= i}

(* The log with some entries changed. *)
Changed(positions, new(_)) ==
    events' = [i \in DOMAIN events |-> IF i \in positions THEN new(events[i]) ELSE events[i]]

(* Delivered means: the worker is not between two calls of Playwright. *)
Delivering == wait # "check"

(* del self.events[:-300] *)
Newest(log) ==
    IF Len(log) > Capacity THEN SubSeq(log, Len(log) - Capacity + 1, Len(log)) ELSE log

on_request(r, id) ==
    /\ Delivering
    /\ stage[r] = "new"
    /\ \A q \in Requests : addr[q] # id
    /\ stage' = [stage EXCEPT ![r] = "started"]
    /\ addr' = [addr EXCEPT ![r] = id]
    /\ events' = Newest(Append(events,
                     [id |-> id, request |-> r, phase |-> "started", status |-> FALSE]))
    /\ UNCHANGED <<finishing, command>>

(* Mutant: a status code that was not asked for is not kept. *)
on_response_forgets(r) ==
    /\ Delivering
    /\ stage[r] = "started"
    /\ stage' = [stage EXCEPT ![r] = "responded"]
    /\ UNCHANGED <<addr, finishing, events, command>>

on_response(r) ==
    /\ Delivering
    /\ stage[r] = "started"
    /\ stage' = [stage EXCEPT ![r] = "responded"]
    /\ Changed(event_for_request(r), LAMBDA e : [e EXCEPT !.status = TRUE])
    /\ UNCHANGED <<addr, finishing, command>>

(* The phase is set before response() is asked for the status code. *)
on_request_finished(r) ==
    /\ Delivering
    /\ stage[r] = "responded"
    /\ stage' = [stage EXCEPT ![r] = "finished"]
    /\ finishing' = finishing \cup {r}
    /\ Changed(event_for_request(r), LAMBDA e : [e EXCEPT !.phase = "finished"])
    /\ UNCHANGED <<addr, command>>

(* response() returns a response or fails; the handler still holds the     *)
(* entry it found before, in the log or dropped from it.                   *)
response_returns(r) ==
    /\ Delivering
    /\ r \in finishing
    /\ finishing' = finishing \ {r}
    /\ \/ Changed({i \in DOMAIN events : events[i].request = r},
                  LAMBDA e : [e EXCEPT !.status = TRUE])
       \/ UNCHANGED events
    /\ UNCHANGED <<stage, addr, command>>

on_request_failed(r) ==
    /\ Delivering
    /\ stage[r] \in {"started", "responded"}
    /\ stage' = [stage EXCEPT ![r] = "failed"]
    /\ Changed(event_for_request(r), LAMBDA e : [e EXCEPT !.phase = "failed"])
    /\ UNCHANGED <<addr, finishing, command>>

(* Nobody refers to the object of an ended request any longer. *)
Dispose(r) ==
    /\ stage[r] \in {"finished", "failed"}
    /\ r \notin finishing
    /\ addr[r] # None
    /\ addr' = [addr EXCEPT ![r] = None]
    /\ UNCHANGED <<stage, finishing, events, command>>

-----------------------------------------------------------------------------
(***************************************************************************)
(* wait_for_network_request                                                *)
(***************************************************************************)

network_event_matches(e) ==
    /\ e.request \in Matching
    /\ strict => e.phase \in {"finished", "failed"}
    /\ byStatus => e.status

Matches == {i \in DOMAIN events : network_event_matches(events[i])}

wait_for(require_response, has_status) ==
    /\ wait = "none"
    /\ wait' = "check"
    /\ strict' = require_response /\ byStatus' = has_status
    /\ late' = FALSE /\ due' = {}
    /\ UNCHANGED <<browser, events>>

(* Mutant: the clock is looked at before the log. *)
poll_late ==
    /\ wait = "check"
    /\ \/ late /\ wait' = "timeout"
       \/ ~late /\ Matches # {} /\ wait' = "found"
       \/ ~late /\ Matches = {} /\ wait' = "sleep"
    /\ UNCHANGED <<browser, events, strict, byStatus, late, due>>

(* first_matching, and only then the clock. *)
poll ==
    /\ wait = "check"
    /\ \/ Matches # {} /\ wait' = "found"
       \/ Matches = {} /\ late  /\ wait' = "timeout"
       \/ Matches = {} /\ ~late /\ wait' = "sleep"
    /\ UNCHANGED <<browser, events, strict, byStatus, late, due>>

(* page.wait_for_timeout(100) is over. *)
wake ==
    /\ wait = "sleep"
    /\ wait' = "check"
    /\ UNCHANGED <<browser, events, strict, byStatus, late, due>>

(* What the browser has reported of a request is what the command wants. *)
Fulfils(r) ==
    /\ r \in Matching /\ stage[r] # "new"
    /\ strict => stage[r] \in {"finished", "failed"}
    /\ byStatus => stage[r] \in {"responded", "finished"}

deadline ==
    /\ wait \in {"check", "sleep"}
    /\ ~late
    /\ late' = TRUE
    /\ due' = {r \in Requests : Fulfils(r)}
    /\ UNCHANGED <<browser, events, wait, strict, byStatus>>

-----------------------------------------------------------------------------
Init ==
    /\ stage = [r \in Requests |-> "new"]
    /\ addr  = [r \in Requests |-> None]
    /\ finishing = {}
    /\ events = <<>>
    /\ wait = "none"
    /\ strict = FALSE /\ byStatus = FALSE /\ late = FALSE /\ due = {}

PageEvent ==
    \/ \E r \in Requests, id \in Ids : on_request(r, id)
    \/ \E r \in Requests : \/ on_response(r) \/ on_request_finished(r)
                           \/ response_returns(r) \/ on_request_failed(r) \/ Dispose(r)

Wait ==
    \/ \E require_response, has_status \in BOOLEAN : wait_for(require_response, has_status)
    \/ poll \/ wake \/ deadline

Next == PageEvent \/ Wait

Spec == Init /\ [][Next]_vars

(* The worker runs, sleeps end and the clock goes on. *)
Fairness == WF_vars(poll) /\ WF_vars(wake) /\ WF_vars(deadline)

-----------------------------------------------------------------------------
(***************************************************************************)
(* Properties                                                              *)
(***************************************************************************)

Entry == [id : Ids, request : Requests, phase : {"started", "finished", "failed"},
          status : BOOLEAN]

TypeOK ==
    /\ stage \in [Requests -> {"new", "started", "responded", "finished", "failed"}]
    /\ addr \in [Requests -> Ids \cup {None}]
    /\ finishing \subseteq Requests
    /\ Len(events) <= Capacity /\ \A i \in DOMAIN events : events[i] \in Entry
    /\ wait \in {"none", "check", "sleep", "found", "timeout"}
    /\ strict \in BOOLEAN /\ byStatus \in BOOLEAN /\ late \in BOOLEAN /\ due \subseteq Requests

(* An entry tells of its own request only, although addresses are used     *)
(* again while old entries are still in the log.                           *)
EntriesAreOwn ==
    \A i \in DOMAIN events :
        LET e == events[i] IN
        /\ e.phase = "finished" <=> stage[e.request] = "finished"
        /\ e.phase = "failed" <=> stage[e.request] = "failed"
        /\ stage[e.request] = "started" => ~e.status

(* A finished entry has its status code, also while response() is out and  *)
(* if it fails: a range of status codes misses no finished request.  That  *)
(* the browser reports the response before the end is Playwright's order.  *)
FinishedHasStatus ==
    \A i \in DOMAIN events : events[i].phase = "finished" => events[i].status

(* When a wait is given up, the browser had not reported by the deadline   *)
(* what was waited for, or the log had dropped it: a request, response or  *)
(* end that arrives during the last sleep is not overlooked, nor is one    *)
(* whose entry shares its address with others or waits for response().     *)
TimeoutMissesNone ==
    wait = "timeout" => \A i \in DOMAIN events : events[i].request \notin due

(* Every wait ends. *)
WaitEnds == wait = "check" ~> wait \in {"found", "timeout"}
=============================================================================
