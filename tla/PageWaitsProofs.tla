-------------------------- MODULE PageWaitsProofs --------------------------
(***************************************************************************)
(* Proofs about NetworkLog and PageWaits, for any number of requests,      *)
(* addresses, selectors and frames and a log of any capacity.              *)
(***************************************************************************)
EXTENDS PageWaits, WellFoundedInduction, TLAPS

(***************************************************************************)
(* The log of requests                                                     *)
(***************************************************************************)

Typed == TypeOK /\ events \in Seq(Entry)

(* Requests under way have an address, each its own. *)
Live ==
    /\ \A r \in Requests : stage[r] = "new" => addr[r] = None
    /\ \A r \in Requests : stage[r] \in {"started", "responded"} => addr[r] # None
    /\ \A r \in finishing : stage[r] = "finished"
    /\ \A q, r \in Requests : addr[q] = addr[r] /\ addr[q] # None => q = r

(* A request has one entry at most, and no newer entry has its address.    *)
Own ==
    /\ \A i \in DOMAIN events : stage[events[i].request] # "new"
    /\ \A i, j \in DOMAIN events : events[i].request = events[j].request => i = j
    /\ \A i \in DOMAIN events : addr[events[i].request] \in {None, events[i].id}
    /\ \A r \in Requests, j \in DOMAIN events : addr[r] = events[j].id =>
         events[j].request = r \/ \E i \in DOMAIN events : j < i /\ events[i].request = r

StatusKept ==
    \A i \in DOMAIN events :
        stage[events[i].request] \in {"responded", "finished"} => events[i].status

LogInv == Typed /\ Live /\ Own /\ EntriesAreOwn /\ StatusKept

-----------------------------------------------------------------------------
(* What on_response, on_request_finished and on_request_failed find is the *)
(* entry of their request, or nothing when it has been dropped.            *)
LEMMA FoundIsOwn ==
  ASSUME LogInv, NEW r \in Requests, addr[r] # None
  PROVE  event_for_request(r) = {i \in DOMAIN events : events[i].request = r}
<1>1. \A i \in DOMAIN events : i \in Nat /\ events[i] \in Entry
  BY DEF LogInv, Typed, TypeOK
<1>2. \A i, j \in DOMAIN events : i <= j \/ j < i
  BY <1>1
<1>3. ASSUME NEW i \in DOMAIN events, events[i].request = r
      PROVE  i \in event_for_request(r)
  <2>1. events[i].id = addr[r]
    BY <1>3 DEF LogInv, Own
  <2>2. ASSUME NEW j \in DOMAIN events, events[j].id = addr[r] PROVE j <= i
    BY <1>1, <1>3, <2>2 DEF LogInv, Own
  <2>. QED
    BY <2>1, <2>2 DEF event_for_request
<1>4. ASSUME NEW i \in event_for_request(r)
      PROVE  i \in DOMAIN events /\ events[i].request = r
  <2>1. i \in DOMAIN events /\ events[i].id = addr[r]
    BY DEF event_for_request
  <2>2. ASSUME NEW k \in DOMAIN events, i < k, events[k].request = r PROVE FALSE
    <3>1. events[k].id = addr[r]
      BY <2>2 DEF LogInv, Own
    <3>. QED
      BY <1>1, <2>1, <2>2, <3>1 DEF event_for_request
  <2>. QED
    BY <2>1, <2>2 DEF LogInv, Own
<1>. QED
  BY <1>3, <1>4

(* The newest Capacity entries, at least the last one. *)
LEMMA NewestEntries ==
  ASSUME NEW S, NEW log \in Seq(S)
  PROVE  /\ Newest(log) \in Seq(S)
         /\ Len(Newest(log)) <= Capacity
         /\ \E d \in Nat :
              /\ \A i \in DOMAIN Newest(log) : i + d \in DOMAIN log /\ Newest(log)[i] = log[i + d]
              /\ \A k \in DOMAIN log : k > d => k - d \in DOMAIN Newest(log)
              /\ log # <<>> => d < Len(log)
<1>1. Len(log) \in Nat /\ Capacity \in Nat \ {0}
  BY LogAssumption
<1>2. CASE Len(log) > Capacity
  <2>1. /\ Newest(log) \in Seq(S) /\ Len(Newest(log)) = Capacity
        /\ \A i \in 1 .. Capacity : Newest(log)[i] = log[i + (Len(log) - Capacity)]
    BY <1>1, <1>2 DEF Newest
  <2>2. Len(log) - Capacity \in Nat /\ Len(log) - Capacity < Len(log)
    BY <1>1, <1>2
  <2>3. DOMAIN Newest(log) = 1 .. Capacity /\ DOMAIN log = 1 .. Len(log)
    BY <2>1
  <2>. DEFINE d == Len(log) - Capacity
  <2>4. \A i \in DOMAIN Newest(log) : i + d \in DOMAIN log /\ Newest(log)[i] = log[i + d]
    BY <1>1, <1>2, <2>1, <2>3
  <2>5. \A k \in DOMAIN log : k > d => k - d \in DOMAIN Newest(log)
    BY <1>1, <1>2, <2>3
  <2>6. Len(Newest(log)) <= Capacity
    BY <1>1, <2>1
  <2>. QED
    BY <2>1, <2>2, <2>4, <2>5, <2>6
<1>3. CASE ~(Len(log) > Capacity)
  BY <1>1, <1>3 DEF Newest
<1>. QED
  BY <1>2, <1>3

LEMMA LogInit == Init => LogInv
<1>. SUFFICES ASSUME Init PROVE LogInv
  OBVIOUS
<1>1. DOMAIN events = {} /\ events \in Seq(Entry) /\ Len(events) = 0
  BY DEF Init
<1>2. strict \in BOOLEAN /\ byStatus \in BOOLEAN /\ late \in BOOLEAN /\ due \subseteq Requests
  BY DEF Init
<1>. QED
  BY <1>1, <1>2, LogAssumption
  DEF Init, LogInv, Typed, TypeOK, Live, Own, EntriesAreOwn, StatusKept

(* Entries that change stay where they are and whose they are. *)
LEMMA ChangedShape ==
  ASSUME events \in Seq(Entry), Len(events) <= Capacity,
         events' = [i \in DOMAIN events |-> events'[i]],
         \A i \in DOMAIN events : events'[i] \in Entry
  PROVE  /\ events' \in Seq(Entry) /\ Len(events') <= Capacity
         /\ DOMAIN events' = DOMAIN events
<1>1. Len(events) \in Nat /\ DOMAIN events = 1 .. Len(events)
  OBVIOUS
<1>2. events' \in [1 .. Len(events) -> Entry]
  BY <1>1
<1>. QED
  BY <1>1, <1>2

LEMMA ChangedOwn ==
  ASSUME LogInv, DOMAIN events' = DOMAIN events,
         \A i \in DOMAIN events :
            events'[i].request = events[i].request /\ events'[i].id = events[i].id,
         \A r \in Requests : stage[r] # "new" => stage'[r] # "new",
         \A r \in Requests : addr'[r] \in {addr[r], None}
  PROVE  Own'
<1>1. \A i \in DOMAIN events : events[i].request \in Requests /\ events[i].id # None
  BY LogAssumption DEF LogInv, Typed, TypeOK, Entry
<1>. QED
  BY <1>1 DEF LogInv, Own

(* An event of request r, which has been seen before, that changes no entry*)
(* but its own.                                                            *)
ChangesOnly(r) ==
    \A i \in DOMAIN events :
        /\ events'[i] \in Entry
        /\ events'[i].request = events[i].request /\ events'[i].id = events[i].id
        /\ events[i].request # r => events'[i] = events[i]

LEMMA EventKeeps ==
  ASSUME LogInv, NEW r \in Requests, stage[r] # "new",
         NEW next \in {"responded", "finished", "failed"}, next = "responded" => addr[r] # None,
         stage' = [stage EXCEPT ![r] = next], UNCHANGED <<addr, command>>,
         finishing' \subseteq Requests, \A q \in finishing' : stage'[q] = "finished",
         events' = [i \in DOMAIN events |-> events'[i]], ChangesOnly(r)
  PROVE  Typed' /\ Live' /\ Own' /\ DOMAIN events' = DOMAIN events
<1>1. events' \in Seq(Entry) /\ Len(events') <= Capacity /\ DOMAIN events' = DOMAIN events
  BY ChangedShape DEF LogInv, Typed, TypeOK, ChangesOnly
<1>2. Typed'
  BY <1>1 DEF LogInv, Typed, TypeOK, command, ChangesOnly
<1>3. Live'
  BY DEF LogInv, Typed, TypeOK, Live
<1>4. Own'
  BY <1>1, ChangedOwn DEF LogInv, Typed, TypeOK, ChangesOnly
<1>. QED
  BY <1>1, <1>2, <1>3, <1>4

LEMMA ResponseKeeps ==
  ASSUME LogInv, NEW r \in Requests, on_response(r)
  PROVE  LogInv'
<1>1. /\ stage[r] = "started" /\ stage' = [stage EXCEPT ![r] = "responded"] /\ addr[r] # None
      /\ UNCHANGED <<addr, finishing, command>>
  BY DEF on_response, LogInv, Live
<1>2. events' = [i \in DOMAIN events |->
          IF events[i].request = r THEN [events[i] EXCEPT !.status = TRUE] ELSE events[i]]
  BY <1>1, FoundIsOwn DEF on_response, Changed
<1>. USE DEF LogInv, Typed, TypeOK
<1>3. ChangesOnly(r) /\ \A i \in DOMAIN events :
        /\ events'[i].phase = events[i].phase
        /\ events'[i].status \/ (events[i].request # r /\ events'[i] = events[i])
  BY <1>2 DEF ChangesOnly, Entry
<1>4. \A q \in finishing : stage'[q] = "finished"
  BY <1>1 DEF Live
<1>5. Typed' /\ Live' /\ Own' /\ DOMAIN events' = DOMAIN events
  BY <1>1, <1>2, <1>3, <1>4, EventKeeps
<1>. QED
  BY <1>1, <1>3, <1>5 DEF ChangesOnly, Entry, EntriesAreOwn, StatusKept

LEMMA FinishedKeeps ==
  ASSUME LogInv, NEW r \in Requests, on_request_finished(r)
  PROVE  LogInv'
<1>1. /\ stage[r] = "responded" /\ stage' = [stage EXCEPT ![r] = "finished"] /\ addr[r] # None
      /\ finishing' = finishing \cup {r} /\ UNCHANGED <<addr, command>>
  BY DEF on_request_finished, LogInv, Live
<1>2. events' = [i \in DOMAIN events |->
          IF events[i].request = r THEN [events[i] EXCEPT !.phase = "finished"] ELSE events[i]]
  BY <1>1, FoundIsOwn DEF on_request_finished, Changed
<1>. USE DEF LogInv, Typed, TypeOK
<1>3. ChangesOnly(r) /\ \A i \in DOMAIN events :
        /\ events'[i].status = events[i].status
        /\ events[i].request = r => events'[i].phase = "finished"
  BY <1>2 DEF ChangesOnly, Entry
<1>4. \A q \in finishing' : stage'[q] = "finished"
  BY <1>1 DEF Live
<1>5. Typed' /\ Live' /\ Own' /\ DOMAIN events' = DOMAIN events
  BY <1>1, <1>2, <1>3, <1>4, EventKeeps
<1>. QED
  BY <1>1, <1>3, <1>5 DEF ChangesOnly, Entry, EntriesAreOwn, StatusKept

LEMMA FailedKeeps ==
  ASSUME LogInv, NEW r \in Requests, on_request_failed(r)
  PROVE  LogInv'
<1>1. /\ stage[r] \in {"started", "responded"} /\ stage' = [stage EXCEPT ![r] = "failed"]
      /\ addr[r] # None /\ UNCHANGED <<addr, finishing, command>>
  BY DEF on_request_failed, LogInv, Live
<1>2. events' = [i \in DOMAIN events |->
          IF events[i].request = r THEN [events[i] EXCEPT !.phase = "failed"] ELSE events[i]]
  BY <1>1, FoundIsOwn DEF on_request_failed, Changed
<1>. USE DEF LogInv, Typed, TypeOK
<1>3. ChangesOnly(r) /\ \A i \in DOMAIN events :
        /\ events'[i].status = events[i].status
        /\ events[i].request = r => events'[i].phase = "failed"
  BY <1>2 DEF ChangesOnly, Entry
<1>4. \A q \in finishing' : stage'[q] = "finished"
  BY <1>1 DEF Live
<1>5. Typed' /\ Live' /\ Own' /\ DOMAIN events' = DOMAIN events
  BY <1>1, <1>2, <1>3, <1>4, EventKeeps
<1>. QED
  BY <1>1, <1>3, <1>5 DEF ChangesOnly, Entry, EntriesAreOwn, StatusKept

(* The entry that on_request_finished has found before, if it is there yet.*)
LEMMA ReturnKeeps ==
  ASSUME LogInv, NEW r \in Requests, response_returns(r)
  PROVE  LogInv'
<1>. USE DEF LogInv, Typed, TypeOK
<1>1. /\ stage[r] = "finished" /\ UNCHANGED <<stage, addr, command>>
      /\ finishing' = finishing \ {r}
  BY DEF response_returns, Live
<1>2. CASE UNCHANGED events
  BY <1>1, <1>2 DEF Live, Own, EntriesAreOwn, StatusKept, command
<1>3. CASE Changed({i \in DOMAIN events : events[i].request = r},
                   LAMBDA e : [e EXCEPT !.status = TRUE])
  <2>1. events' = [i \in DOMAIN events |->
            IF events[i].request = r THEN [events[i] EXCEPT !.status = TRUE] ELSE events[i]]
    BY <1>3 DEF Changed
  <2>2. ChangesOnly(r) /\ \A i \in DOMAIN events :
          /\ events'[i].phase = events[i].phase
          /\ events[i].status => events'[i].status
    BY <2>1 DEF ChangesOnly, Entry
  <2>3. stage' = [stage EXCEPT ![r] = "finished"] /\ \A q \in finishing' : stage'[q] = "finished"
    BY <1>1 DEF Live
  <2>4. Typed' /\ Live' /\ Own' /\ DOMAIN events' = DOMAIN events
    BY <1>1, <2>1, <2>2, <2>3, EventKeeps
  <2>. QED
    BY <1>1, <2>2, <2>4 DEF ChangesOnly, Entry, EntriesAreOwn, StatusKept
<1>. QED
  BY <1>2, <1>3 DEF response_returns

LEMMA DisposeKeeps ==
  ASSUME LogInv, NEW r \in Requests, Dispose(r)
  PROVE  LogInv'
<1>. USE DEF LogInv, Typed, TypeOK, Dispose, command
<1>1. Typed'
  OBVIOUS
<1>2. Live'
  BY DEF Live
<1>3. Own'
  BY ChangedOwn
<1>. QED
  BY <1>1, <1>2, <1>3 DEF EntriesAreOwn, StatusKept

(* A new request: its entry comes last, and old ones may be dropped. *)
LEMMA RequestKeeps ==
  ASSUME LogInv, NEW r \in Requests, NEW id \in Ids, on_request(r, id)
  PROVE  LogInv'
<1>. DEFINE e   == [id |-> id, request |-> r, phase |-> "started", status |-> FALSE]
            log == Append(events, e)
<1>1. /\ stage[r] = "new" /\ \A q \in Requests : addr[q] # id
      /\ stage' = [stage EXCEPT ![r] = "started"] /\ addr' = [addr EXCEPT ![r] = id]
      /\ events' = Newest(log) /\ UNCHANGED <<finishing, command>>
  BY DEF on_request
<1>. USE DEF LogInv, Typed, TypeOK
<1>2. /\ e \in Entry /\ e.id = id /\ e.request = r /\ e.phase = "started" /\ ~e.status
      /\ id # None
  BY LogAssumption DEF Entry
<1>3. events \in Seq(Entry) /\ Len(events) \in Nat
  OBVIOUS
<1>. HIDE DEF e
<1>4. /\ log \in Seq(Entry) /\ log # <<>> /\ Len(log) = Len(events) + 1 /\ log[Len(log)] = e
      /\ \A i \in DOMAIN log : i = Len(log) \/ (i \in DOMAIN events /\ log[i] = events[i])
  BY <1>2, <1>3
<1>. HIDE DEF log
<1>5. events' \in Seq(Entry) /\ Len(events') <= Capacity
  BY <1>1, <1>4, NewestEntries
<1>6. PICK d \in Nat :
        /\ \A i \in DOMAIN events' : i + d \in DOMAIN log /\ events'[i] = log[i + d]
        /\ \A k \in DOMAIN log : k > d => k - d \in DOMAIN events'
        /\ d < Len(log)
  BY <1>1, <1>4, NewestEntries
<1>7. Typed'
  BY <1>1, <1>5 DEF command
<1>8. Live'
  BY <1>1, <1>2 DEF Live
<1>9. \A i \in DOMAIN events' : \/ events'[i] = e
                                \/ i + d \in DOMAIN events /\ events'[i] = events[i + d]
  BY <1>4, <1>6
<1>10. EntriesAreOwn' /\ StatusKept'
  <2>1. stage'[r] = "started" /\ \A q \in Requests : q # r => stage'[q] = stage[q]
    BY <1>1
  <2>2. ASSUME NEW i \in DOMAIN events
        PROVE  events[i].request \in Requests /\ stage'[events[i].request] = stage[events[i].request]
    BY <1>1, <2>1 DEF Own, Entry
  <2>3. ASSUME NEW i \in DOMAIN events'
        PROVE  \/ events'[i] = e
               \/ \E k \in DOMAIN events :
                    events'[i] = events[k] /\ stage'[events'[i].request] = stage[events[k].request]
    BY <1>9, <2>2
  <2>4. EntriesAreOwn'
    BY <1>2, <2>1, <2>3 DEF EntriesAreOwn
  <2>5. StatusKept'
    BY <1>2, <2>1, <2>3 DEF StatusKept
  <2>. QED
    BY <2>4, <2>5
<1>11. Own'
  <2>1. \A i \in DOMAIN events : events[i].request # r /\ events[i].request \in Requests
    BY <1>1 DEF Own, Entry
  <2>2. \A i \in DOMAIN events' : i \in Nat /\ (events'[i] = e <=> i + d = Len(log))
    BY <1>2, <1>3, <1>4, <1>5, <1>6, <2>1
  <2>3. \A i \in DOMAIN events' : stage'[events'[i].request] # "new"
    BY <1>1, <1>2, <1>9 DEF Own, Entry
  <2>4. ASSUME NEW i \in DOMAIN events', NEW j \in DOMAIN events',
               events'[i].request = events'[j].request
        PROVE  i = j
    <3>1. CASE events'[i] = e \/ events'[j] = e
      BY <1>2, <1>3, <1>4, <1>9, <2>1, <2>2, <2>4, <3>1
    <3>2. CASE events'[i] # e /\ events'[j] # e
      <4>1. i + d = j + d
        BY <1>9, <2>4, <3>2 DEF Own
      <4>. QED
        BY <2>2, <4>1
    <3>. QED
      BY <3>1, <3>2
  <2>5. \A i \in DOMAIN events' : addr'[events'[i].request] \in {None, events'[i].id}
    BY <1>1, <1>2, <1>9, <2>1 DEF Own
  <2>6. ASSUME NEW q \in Requests, NEW j \in DOMAIN events', addr'[q] = events'[j].id,
               events'[j].request # q
        PROVE  \E i \in DOMAIN events' : j < i /\ events'[i].request = q
    <3>1. CASE q = r
      <4>1. events'[j] # e /\ j + d \in DOMAIN events
        BY <1>2, <1>9, <2>6, <3>1
      <4>2. Len(log) \in DOMAIN log /\ Len(log) - d \in DOMAIN events' /\ j < Len(log) - d
        <5>1. j \in Nat /\ j + d <= Len(events)
          BY <1>3, <2>2, <4>1
        <5>2. Len(log) \in Nat /\ Len(log) \in DOMAIN log
          BY <1>3, <1>4
        <5>3. Len(log) - d \in DOMAIN events'
          BY <1>6, <5>2
        <5>. QED
          BY <1>3, <1>4, <5>1, <5>2, <5>3
      <4>3. events'[Len(log) - d] = e
        BY <1>3, <1>4, <1>6, <4>2
      <4>. QED
        BY <1>2, <3>1, <4>2, <4>3
    <3>2. CASE q # r
      <4>1. addr[q] = events'[j].id /\ addr[q] # id
        BY <1>1, <2>6, <3>2
      <4>2. j + d \in DOMAIN events /\ events'[j] = events[j + d]
        BY <1>2, <1>9, <4>1
      <4>3. PICK k \in DOMAIN events : j + d < k /\ events[k].request = q
        BY <2>6, <4>1, <4>2 DEF Own
      <4>4. k \in DOMAIN log /\ log[k] = events[k] /\ k > d /\ k \in Nat
        BY <1>3, <1>4, <2>2, <4>3
      <4>5. k - d \in DOMAIN events' /\ events'[k - d] = events[k] /\ j < k - d
        BY <1>6, <2>2, <4>3, <4>4
      <4>. QED
        BY <4>3, <4>5
    <3>. QED
      BY <3>1, <3>2
  <2>. QED
    BY <2>3, <2>4, <2>5, <2>6 DEF Own
<1>. QED
  BY <1>7, <1>8, <1>10, <1>11

LEMMA LogNext == LogInv /\ [Next]_vars => LogInv'
<1>. SUFFICES ASSUME LogInv, [Next]_vars PROVE LogInv'
  OBVIOUS
<1>1. CASE PageEvent
  BY <1>1, RequestKeeps, ResponseKeeps, FinishedKeeps, ReturnKeeps, FailedKeeps, DisposeKeeps DEF PageEvent
<1>2. CASE Wait \/ UNCHANGED vars
  <2>1. UNCHANGED <<browser, events>>
    BY <1>2 DEF Wait, wait_for, poll, wake, deadline, vars
  <2>2. /\ wait' \in {"none", "check", "sleep", "found", "timeout"}
        /\ strict' \in BOOLEAN /\ byStatus' \in BOOLEAN /\ late' \in BOOLEAN /\ due' \subseteq Requests
    BY <1>2 DEF Wait, wait_for, poll, wake, deadline, vars, command, LogInv, Typed, TypeOK
  <2>. QED
    BY <2>1, <2>2 DEF browser, LogInv, Typed, TypeOK, Live, Own, EntriesAreOwn, StatusKept
<1>. QED
  BY <1>1, <1>2 DEF Next

(* The requests that were due by the deadline still are what the command   *)
(* wants; their entries say so, and no wait that was given up missed one.  *)
DueInv ==
    /\ \A r \in due : /\ r \in Matching /\ stage[r] # "new"
                      /\ strict => stage[r] \in {"finished", "failed"}
    /\ byStatus => \A i \in DOMAIN events : events[i].request \in due => events[i].status
    /\ TimeoutMissesNone

(* What a page event leaves of the log: entries of requests that were in   *)
(* it, no status code lost, and the entry of a new request.                *)
LEMMA EventsKept ==
  ASSUME LogInv, PageEvent
  PROVE  /\ UNCHANGED command
         /\ \A r \in Requests :
              /\ stage[r] # "new" => stage'[r] # "new"
              /\ stage[r] \in {"finished", "failed"} => stage'[r] = stage[r]
         /\ \A i \in DOMAIN events' :
              \/ events'[i].request \in Requests /\ stage[events'[i].request] = "new"
              \/ \E k \in DOMAIN events : /\ events[k].request = events'[i].request
                                          /\ events[k].status => events'[i].status
<1>. USE DEF LogInv, Typed, TypeOK
<1>1. \A i \in DOMAIN events : events[i] \in Entry
  OBVIOUS
<1>2. ASSUME NEW S, Changed(S, LAMBDA e : [e EXCEPT !.status = TRUE])
      PROVE  /\ DOMAIN events' = DOMAIN events
             /\ \A i \in DOMAIN events : /\ events'[i].request = events[i].request
                                         /\ events[i].status => events'[i].status
  BY <1>1, <1>2 DEF Changed, Entry
<1>. DEFINE Kept == /\ DOMAIN events' = DOMAIN events
                    /\ \A i \in DOMAIN events : /\ events'[i].request = events[i].request
                                                /\ events[i].status => events'[i].status
<1>4. \A r \in Requests : on_response(r) \/ response_returns(r) => Kept
  BY <1>2 DEF on_response, response_returns
<1>5. ASSUME NEW r \in Requests, on_request_finished(r) \/ on_request_failed(r) PROVE Kept
  <2>1. PICK phase \in {"finished", "failed"} :
          events' = [i \in DOMAIN events |-> IF i \in event_for_request(r)
                                           THEN [events[i] EXCEPT !.phase = phase] ELSE events[i]]
    BY <1>5 DEF on_request_finished, on_request_failed, Changed
  <2>. QED
    BY <1>1, <2>1 DEF Entry
<1>6. \A r \in Requests : Dispose(r) => Kept
  BY DEF Dispose
<1>7. ASSUME NEW r \in Requests, NEW id \in Ids, on_request(r, id), NEW i \in DOMAIN events'
      PROVE  \/ events'[i].request = r
             \/ \E k \in DOMAIN events : events[k] = events'[i]
  <2>. DEFINE e == [id |-> id, request |-> r, phase |-> "started", status |-> FALSE]
  <2>1. e \in Entry /\ e.request = r
    BY DEF Entry
  <2>2. events' = Newest(Append(events, e))
    BY <1>7 DEF on_request
  <2>. HIDE DEF e
  <2>3. Append(events, e) \in Seq(Entry)
    BY <2>1
  <2>4. PICK d \in Nat : i + d \in DOMAIN Append(events, e) /\ events'[i] = Append(events, e)[i + d]
    BY <2>2, <2>3, NewestEntries
  <2>. QED
    BY <2>1, <2>4
<1>. HIDE DEF Kept
<1>8. CASE \E r \in Requests, id \in Ids : on_request(r, id)
  <2>1. PICK r \in Requests, id \in Ids : on_request(r, id)
    BY <1>8
  <2>2. stage[r] = "new" /\ stage' = [stage EXCEPT ![r] = "started"] /\ UNCHANGED command
    BY <2>1 DEF on_request
  <2>3. \A i \in DOMAIN events' : \/ events'[i].request = r
                                  \/ \E k \in DOMAIN events : events[k] = events'[i]
    BY <1>7, <2>1
  <2>. QED
    BY <2>2, <2>3
<1>9. CASE \E r \in Requests : \/ on_response(r) \/ on_request_finished(r)
                               \/ response_returns(r) \/ on_request_failed(r) \/ Dispose(r)
  <2>1. Kept /\ UNCHANGED command
    BY <1>4, <1>5, <1>6, <1>9
    DEF on_response, on_request_finished, response_returns, on_request_failed, Dispose
  <2>2. \A r \in Requests :
          /\ stage[r] # "new" => stage'[r] # "new"
          /\ stage[r] \in {"finished", "failed"} => stage'[r] = stage[r]
    BY <1>9 DEF on_response, on_request_finished, response_returns, on_request_failed, Dispose
  <2>. QED
    BY <2>1, <2>2 DEF Kept
<1>. QED
  BY <1>8, <1>9 DEF PageEvent

LEMMA DueNext == LogInv /\ DueInv /\ [Next]_vars => DueInv'
<1>. SUFFICES ASSUME LogInv, DueInv, [Next]_vars PROVE DueInv'
  OBVIOUS
<1>0. due \subseteq Requests /\ \A i \in DOMAIN events : events[i] \in Entry
  BY DEF LogInv, Typed, TypeOK
<1>1. CASE PageEvent
  <2>1. UNCHANGED <<wait, strict, byStatus, due>>
    BY <1>1, EventsKept DEF command
  <2>2. \A r \in due : /\ r \in Matching /\ stage'[r] # "new"
                       /\ strict => stage'[r] \in {"finished", "failed"}
    <3>1. \A r \in Requests : /\ stage[r] # "new" => stage'[r] # "new"
                              /\ stage[r] \in {"finished", "failed"} => stage'[r] = stage[r]
      BY <1>1, EventsKept
    <3>. QED
      BY <1>0, <3>1 DEF DueInv
  <2>3. ASSUME NEW i \in DOMAIN events', events'[i].request \in due
        PROVE  \E k \in DOMAIN events : /\ events[k].request \in due
                                        /\ events[k].status => events'[i].status
    <3>1. \/ events'[i].request \in Requests /\ stage[events'[i].request] = "new"
          \/ \E k \in DOMAIN events : /\ events[k].request = events'[i].request
                                      /\ events[k].status => events'[i].status
      BY <1>1, EventsKept
    <3>2. stage[events'[i].request] # "new"
      BY <2>3 DEF DueInv
    <3>. QED
      BY <2>3, <3>1, <3>2
  <2>4. byStatus => \A i \in DOMAIN events' : events'[i].request \in due => events'[i].status
    BY <2>3 DEF DueInv
  <2>5. wait = "timeout" => \A i \in DOMAIN events' : events'[i].request \notin due
    BY <2>3 DEF DueInv, TimeoutMissesNone
  <2>. QED
    BY <2>1, <2>2, <2>4, <2>5 DEF DueInv, TimeoutMissesNone
<1>2. CASE deadline
  <2>1. /\ due' = {r \in Requests : Fulfils(r)} /\ UNCHANGED <<browser, events, strict, byStatus>>
        /\ wait' # "timeout"
    BY <1>2 DEF deadline
  <2>2. \A i \in DOMAIN events : Fulfils(events[i].request) /\ byStatus => events[i].status
    BY DEF Fulfils, LogInv, StatusKept
  <2>. QED
    BY <2>1, <2>2 DEF DueInv, TimeoutMissesNone, Fulfils, browser
<1>3. CASE poll
  <2>1. UNCHANGED <<browser, events, strict, byStatus, due>>
    BY <1>3 DEF poll
  <2>2. ASSUME NEW i \in DOMAIN events, events[i].request \in due
        PROVE  network_event_matches(events[i])
    <3>. DEFINE r == events[i].request
    <3>1. r \in Matching /\ (strict => stage[r] \in {"finished", "failed"}) /\ (byStatus => events[i].status)
      BY <2>2 DEF DueInv
    <3>2. stage[r] \in {"finished", "failed"} => events[i].phase \in {"finished", "failed"}
      BY DEF LogInv, EntriesAreOwn
    <3>. QED
      BY <3>1, <3>2 DEF network_event_matches
  <2>3. wait' = "timeout" => \A i \in DOMAIN events : events[i].request \notin due
    BY <1>3, <2>2 DEF poll, Matches
  <2>. QED
    BY <2>1, <2>3 DEF DueInv, TimeoutMissesNone, browser
<1>4. CASE \E require_response, has_status \in BOOLEAN : wait_for(require_response, has_status)
  BY <1>4 DEF wait_for, DueInv, TimeoutMissesNone
<1>5. CASE wake \/ UNCHANGED vars
  BY <1>5 DEF wake, vars, browser, command, DueInv, TimeoutMissesNone
<1>. QED
  BY <1>1, <1>2, <1>3, <1>4, <1>5 DEF Next, Wait

-----------------------------------------------------------------------------
(***************************************************************************)
(* The search for a visible element                                        *)
(***************************************************************************)

States == {"none", "hidden", "visible"}

(* An element is where it can be, and is at least what it was at its least.*)
Elements ==
    /\ frames \subseteq 1 .. Frames
    /\ element \in [Locators -> States] /\ least \in [Locators -> States]
    /\ \A l \in Locators : element[l] # "none" => l[1] \in frames \cup {0}
    /\ \A l \in Locators : least[l] = Less(least[l], element[l])

(* What the scan has passed by was not visible all the time, and without a *)
(* candidate it was not even there all the time.                           *)
Passed ==
    /\ todo \subseteq Locators
    /\ resolve \in {"look", "count"} =>
         \A l \in Locators :
            /\ least[l] = "visible" => l \in todo
            /\ candidate = None /\ least[l] # "none" => l \in todo
    /\ resolve = "count" => todo # {} /\ least[First(todo)] # "visible" /\ candidate = None

Decided ==
    /\ resolve \in {"attached", "failed"} => \A l \in Locators : least[l] # "visible"
    /\ resolve = "visible" =>
         /\ found \in Locators
         /\ \A l \in Locators : least[l] = "visible" => l = found \/ Before(found, l)
    /\ resolve = "failed" => \A l \in Locators : least[l] = "none"

Resolves == resolve \in {"none", "look", "count", "sleep", "visible", "attached", "failed"}

(* Nothing was there all the time where the document was replaced.         *)
Replaced == \A l \in Locators : l[1] \in torn => least[l] = "none"

ScanInv == Elements /\ Passed /\ Decided /\ Resolves /\ Replaced

(* Locators are well ordered: what is looked at first exists.              *)
LEMMA FirstIsFirst ==
  ASSUME NEW set, set \subseteq Locators, set # {}
  PROVE  /\ First(set) \in set
         /\ \A m \in set \ {First(set)} : Before(First(set), m)
<1>. DEFINE R   == OpToRel(<, Nat)
            Lex == LexPairOrdering(R, R, Nat, Nat)
<1>1. set \subseteq Nat \X Nat
  BY GroupAssumption DEF Locators
<1>2. IsWellFoundedOn(Lex, Nat \X Nat)
  <2>1. IsWellFoundedOn(R, Nat)
    BY NatLessThanWellFounded
  <2>. HIDE DEF R
  <2>. QED
    BY <2>1, WFLexPairOrdering
<1>3. PICK x \in set : \A y \in set : <<y, x>> \notin Lex
  <2>. HIDE DEF Lex
  <2>. QED
    BY <1>1, <1>2, WFMin
<1>4. \A y \in set \ {x} : Before(x, y)
  <2>. SUFFICES ASSUME NEW y \in set, y # x PROVE Before(x, y)
    OBVIOUS
  <2>1. ~Before(y, x)
    BY <1>1, <1>3 DEF LexPairOrdering, OpToRel, Before
  <2>2. x = <<x[1], x[2]>> /\ y = <<y[1], y[2]>> /\ {x[1], x[2], y[1], y[2]} \subseteq Nat
    BY <1>1
  <2>. QED
    BY <2>1, <2>2 DEF Before
<1>. QED
  BY <1>4 DEF First

LEMMA ScanInit == WaitsInit => ScanInv
  BY DEF WaitsInit, ScanInv, Elements, Passed, Decided, Resolves, Replaced, States, Less

(* A scan starts with all that is there still to be looked at. *)
LEMMA TargetsKeep ==
  ASSUME targets, frames' \subseteq 1 .. Frames, element' \in [Locators -> States],
         \A l \in Locators : element'[l] # "none" => l[1] \in frames' \cup {0}
  PROVE  ScanInv'
<1>1. /\ todo' = (frames' \cup {0}) \X (1 .. Selectors) /\ least' = element' /\ resolve' = "look"
      /\ torn' = {}
  BY DEF targets
<1>2. Elements'
  BY <1>1 DEF Elements, States, Less
<1>3. todo' \subseteq Locators
  <2>1. frames' \cup {0} \subseteq 0 .. Frames
    BY GroupAssumption
  <2>. QED
    BY <1>1, <2>1 DEF Locators
<1>4. \A l \in Locators : least'[l] # "none" => l \in todo'
  BY <1>1 DEF Locators
<1>. QED
  BY <1>1, <1>2, <1>3, <1>4 DEF ScanInv, Passed, Decided, Resolves, Replaced

(* The page changes: what an element was at its least can only be less.    *)
LEMMA BecomesKeeps ==
  ASSUME ScanInv, NEW new \in [Locators -> States], Becomes(new), frames' \subseteq 1 .. Frames,
         \A l \in Locators : new[l] # "none" => l[1] \in frames' \cup {0},
         \A l \in Locators : l[1] \in torn' => l[1] \in torn \/ new[l] = "none"
  PROVE  ScanInv'
<1>1. /\ element' = new /\ least' = [l \in Locators |-> Less(least[l], new[l])]
      /\ UNCHANGED <<resolve, todo, candidate, found>> /\ resolve \in {"look", "count", "sleep"}
  BY DEF Becomes, scan, Resolving
<1>2. Elements'
  BY <1>1 DEF ScanInv, Elements, States, Less
<1>3. \A l \in Locators :
        /\ least'[l] = "visible" => least[l] = "visible"
        /\ least'[l] # "none" => least[l] # "none"
  BY <1>1 DEF ScanInv, Elements, States, Less
<1>4. Passed'
  <2>1. resolve = "count" => First(todo) \in Locators
    BY FirstIsFirst DEF ScanInv, Passed
  <2>. QED
    BY <1>1, <1>3, <2>1 DEF ScanInv, Passed
<1>5. Replaced'
  BY <1>1, <1>3 DEF ScanInv, Elements, Replaced, Less
<1>. QED
  BY <1>1, <1>2, <1>4, <1>5 DEF ScanInv, Decided, Resolves

LEMMA EmptiedType ==
  ASSUME ScanInv, NEW f
  PROVE  Emptied(f) \in [Locators -> States]
  BY DEF ScanInv, Elements, States, Emptied

LEMMA PageKeeps ==
  ASSUME ScanInv, ElementChanges \/ FrameChanges \/ Navigates
  PROVE  ScanInv'
<1>1. CASE ElementChanges
  <2>1. PICK l \in Locators, state \in States :
          /\ l[1] \in frames \cup {0} /\ Becomes([element EXCEPT ![l] = state])
          /\ UNCHANGED <<frames, torn>>
    BY <1>1 DEF ElementChanges, States
  <2>. QED
    BY <2>1, BecomesKeeps DEF ScanInv, Elements
<1>2. CASE FrameChanges
  <2>1. PICK f \in 1 .. Frames :
          \/ frames' = frames \cup {f} /\ Becomes(element)
          \/ frames' = frames \ {f} /\ Becomes(Emptied(f))
    BY <1>2 DEF FrameChanges
  <2>t. UNCHANGED torn
    BY <1>2 DEF FrameChanges
  <2>2. CASE frames' = frames \cup {f} /\ Becomes(element)
    BY <2>2, <2>t, BecomesKeeps DEF ScanInv, Elements
  <2>3. CASE frames' = frames \ {f} /\ Becomes(Emptied(f))
    <3>1. frames' \subseteq 1 .. Frames
      BY <2>3 DEF ScanInv, Elements
    <3>2. \A l \in Locators : Emptied(f)[l] # "none" => l[1] \in frames' \cup {0}
      BY <2>3 DEF ScanInv, Elements, Emptied
    <3>. QED
      BY <2>3, <2>t, <3>1, <3>2, EmptiedType, BecomesKeeps
  <2>. QED
    BY <2>1, <2>2, <2>3
<1>3. CASE Navigates
  <2>1. PICK f \in frames \cup {0} :
          Becomes(Emptied(f)) /\ torn' = torn \cup {f} /\ UNCHANGED frames
    BY <1>3 DEF Navigates
  <2>2. frames' \subseteq 1 .. Frames
    BY <2>1 DEF ScanInv, Elements
  <2>3. \A l \in Locators : Emptied(f)[l] # "none" => l[1] \in frames' \cup {0}
    BY <2>1 DEF ScanInv, Elements, Emptied
  <2>4. \A l \in Locators : l[1] \in torn' => l[1] \in torn \/ Emptied(f)[l] = "none"
    BY <2>1 DEF Emptied
  <2>. QED
    BY <2>1, <2>2, <2>3, <2>4, EmptiedType, BecomesKeeps
<1>. QED
  BY <1>1, <1>2, <1>3

(* The steps of the scan itself. *)
LEMMA LookKeeps ==
  ASSUME ScanInv, is_visible \/ count \/ raises \/ scanned \/ timeout
  PROVE  ScanInv'
<1>. USE DEF ScanInv
<1>1. UNCHANGED elements
  BY DEF is_visible, count, raises, scanned, timeout, elements
<1>2. Elements' /\ Replaced'
  <2>1. torn' \subseteq torn
    BY DEF is_visible, count, raises, scanned, timeout
  <2>. QED
    BY <1>1, <2>1 DEF Elements, elements, Replaced
<1>3. \A l \in Locators :
        /\ least[l] \in States /\ element[l] \in States
        /\ least[l] = "visible" => element[l] = "visible"
        /\ least[l] # "none" => element[l] # "none"
        /\ element[l] # "none" => l[1] \in frames \cup {0}
  BY DEF Elements, States, Less
<1>4. todo # {} => /\ First(todo) \in todo /\ First(todo) \in Locators
                   /\ \A m \in todo \ {First(todo)} : Before(First(todo), m)
  BY FirstIsFirst DEF Passed
<1>5. CASE is_visible
  BY <1>1, <1>2, <1>3, <1>4, <1>5 DEF is_visible, elements, Passed, Decided, Resolves
<1>6. CASE count
  <2>. DEFINE l == First(todo)
  <2>1. l \in Locators /\ least[l] # "visible" /\ l # None
    BY <1>4, <1>6, NoLocatorAssumption DEF count, Passed
  <2>. HIDE DEF l
  <2>2. /\ candidate' = (IF element[l] # "none" THEN l ELSE None) /\ todo' = todo \ {l}
        /\ resolve' = "look" /\ least' = least /\ found' = found
    BY <1>1, <1>6 DEF count, elements, l
  <2>3. \A m \in Locators : least[m] = "visible" => m \in todo'
    BY <1>6, <2>1, <2>2 DEF count, Passed
  <2>4. candidate' = None => \A m \in Locators : least[m] # "none" => m \in todo'
    BY <1>3, <1>6, <2>1, <2>2 DEF count, Passed
  <2>. QED
    BY <1>2, <2>2, <2>3, <2>4 DEF Passed, Decided, Resolves
<1>7. CASE scanned
  BY <1>1, <1>2, <1>3, <1>7 DEF scanned, elements, Passed, Decided, Resolves
<1>8. CASE timeout
  BY <1>1, <1>2, <1>8 DEF timeout, elements, Passed, Decided, Resolves
<1>9. CASE raises
  <2>. DEFINE l == First(todo)
  <2>1. l \in Locators /\ least[l] = "none"
    BY <1>4, <1>9 DEF raises, Passed, Replaced
  <2>. HIDE DEF l
  <2>2. /\ todo' = todo \ {l} /\ resolve' = "look" /\ least' = least
        /\ UNCHANGED <<candidate, found>> /\ resolve \in {"look", "count"}
    BY <1>1, <1>9 DEF raises, elements, l
  <2>. QED
    BY <1>2, <2>1, <2>2 DEF Passed, Decided, Resolves
<1>. QED
  BY <1>5, <1>6, <1>7, <1>8, <1>9

LEMMA ScanNext == ScanInv /\ [WaitsNext]_allVars => ScanInv'
<1>. SUFFICES ASSUME ScanInv, [WaitsNext]_allVars PROVE ScanInv'
  OBVIOUS
<1>1. CASE UNCHANGED <<scan, elements, torn>>
  BY <1>1 DEF scan, elements, ScanInv, Elements, Passed, Decided, Resolves, Replaced
<1>2. CASE \E with_timeout \in BOOLEAN : resolve_group(with_timeout)
  BY <1>2, TargetsKeep DEF resolve_group, States
<1>3. CASE slept
  BY <1>3, TargetsKeep DEF slept, ScanInv, Elements
<1>. QED
  BY <1>1, <1>2, <1>3, PageKeeps, LookKeeps DEF WaitsNext, Resolve, allVars

-----------------------------------------------------------------------------
LEMMA WaitsLog == [WaitsNext]_allVars => [Next]_vars
<1>1. Resolve => UNCHANGED vars
  BY DEF Resolve, resolve_group, is_visible, count, raises, scanned, slept, timeout, targets,
         ElementChanges, FrameChanges, Navigates, Becomes
<1>. QED
  BY <1>1 DEF WaitsNext, allVars

(* The invariants hold throughout.                                         *)
THEOREM InvHolds == WaitsSpec => [](LogInv /\ DueInv /\ ScanInv)
<1>1. WaitsInit => LogInv /\ DueInv /\ ScanInv
  BY LogInit, ScanInit DEF WaitsInit, Init, DueInv, TimeoutMissesNone
<1>2. LogInv /\ DueInv /\ ScanInv /\ [WaitsNext]_allVars => LogInv' /\ DueInv' /\ ScanInv'
  BY WaitsLog, LogNext, DueNext, ScanNext
<1>. QED
  BY <1>1, <1>2, PTL DEF WaitsSpec

(* Requests, log and wait keep their types; the log its capacity.          *)
THEOREM TypeCorrect == WaitsSpec => []TypeOK
  BY InvHolds, PTL DEF LogInv, Typed

(* An entry tells of its own request only, though addresses are used again *)
(* (event_for_request).                                                    *)
THEOREM OwnEntries == WaitsSpec => []EntriesAreOwn
  BY InvHolds, PTL DEF LogInv

(* Given that the browser reports a response before the request's end, a   *)
(* finished request has its status code, whatever response() does          *)
(* (on_response, on_request_finished).                                     *)
THEOREM StatusKnown == WaitsSpec => []FinishedHasStatus
<1>1. LogInv => FinishedHasStatus
  BY DEF LogInv, EntriesAreOwn, StatusKept, FinishedHasStatus
<1>. QED
  BY <1>1, InvHolds, PTL

(* No request that was reported by the deadline and is still in the log is *)
(* overlooked by a wait that is given up (wait_for, first_matching).       *)
THEOREM GivenUpLast == WaitsSpec => []TimeoutMissesNone
  BY InvHolds, PTL DEF DueInv

(* The first element that was visible all the time, or one before it       *)
(* (resolve_first_visible_locator).                                        *)
THEOREM FirstVisible == WaitsSpec => []FirstVisibleWins
<1>1. ScanInv => FirstVisibleWins
  <2>1. \A l, m \in Locators : Before(m, l) => ~Before(l, m)
    BY GroupAssumption DEF Locators, Before
  <2>2. \A l \in Locators : ~Before(l, l)
    BY GroupAssumption DEF Locators, Before
  <2>. QED
    BY <2>1, <2>2 DEF ScanInv, Decided, FirstVisibleWins
<1>. QED
  BY <1>1, InvHolds, PTL
=============================================================================
