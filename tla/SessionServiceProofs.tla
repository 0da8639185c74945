------------------------ MODULE SessionServiceProofs ------------------------
(***************************************************************************)
(* Proofs about SessionService, for any number of calls, sessions, request *)
(* ids, faults and crashes.                                                *)
(***************************************************************************)
EXTENDS SessionServiceRefinement, TLAPS

StartPcs == StartingPcs \cup {"record_failed"}

WorkPcs == PCs \ {"idle", "create"}

(* No two rows carry the same request id. *)
UniqueRequests ==
    \A s, t \in Sessions : Stored(s) /\ Stored(t) /\ row[s].req = row[t].req => s = t

(* What a call knows of the row it works on. *)
CallOwns(c) ==
    /\ pc[c] = "idle" => sid[c] = None
    /\ pc[c] = "create" => req[c] \in RequestIds /\ sid[c] = None
    /\ pc[c] \in WorkPcs => sid[c] \in Sessions /\ Stored(sid[c])
    /\ pc[c] \in StartPcs => row[sid[c]].req = req[c] /\ req[c] \in RequestIds

(* A session is started by one call, which finds nothing launched yet. *)
OneStart ==
    \A c \in Calls :
        /\ pc[c] = "launch" => sid[c] \notin launched
        /\ pc[c] \in {"connect", "record_running"} => sid[c] \in launched
        /\ pc[c] \in StartPcs =>
             \A d \in Calls \ {c} : pc[d] \in StartPcs => sid[d] # sid[c]

RowsTold ==
    /\ \A s \in Sessions : Stored(s) => row[s].req \in RequestIds
    /\ \A s \in launched : Stored(s)
    /\ \A p \in answered : Stored(p[2]) /\ row[p[2]].req = p[1]

(* The map and the calls that hold a browser outside of it exclude one     *)
(* another.                                                                *)
Holding ==
    \A c \in Calls :
        /\ pc[c] \in {"launch", "connect"} \cup KillingPcs => sid[c] \notin entry
        /\ pc[c] \in {"launch", "connect"} =>
             \A d \in Calls : pc[d] \in KillingPcs => sid[d] # sid[c]
        /\ pc[c] \in KillingPcs =>
             \A d \in Calls \ {c} : pc[d] \in KillingPcs => sid[d] # sid[c]

Inv ==
    /\ TypeOK
    /\ UniqueRequests
    /\ \A c \in Calls : CallOwns(c)
    /\ OneStart
    /\ RowsTold
    /\ Holding
    /\ entry \subseteq launched
    /\ BrowserOwned
-----------------------------------------------------------------------------
(* Every step of the service is one of these.                              *)
USE DEF SessionStatuses, FinalStatuses, StartingPcs, TakingPcs, KillingPcs, PCs

(* The type invariant holds in the initial state.                          *)
LEMMA TypeInit == Init => TypeOK
  BY BoundsAssumption DEF Init, TypeOK, Absent

(* A call's step leaves the other calls alone.                             *)
LEMMA OtherCalls ==
  ASSUME TypeOK, NEW c \in Calls, Step(c) \/ Request(c), NEW d \in Calls \ {c}
  PROVE  pc'[d] = pc[d] /\ req'[d] = req[d] /\ sid'[d] = sid[d]
<1>1. CASE \E s \in Sessions : Create(c, s)
  BY <1>1 DEF Create, Reply, TypeOK, calls
<1>2. CASE CreateFails(c)
  BY <1>2 DEF CreateFails, Reply, TypeOK, calls
<1>3. CASE Launch(c)
  BY <1>3 DEF Launch, Goto, TypeOK, calls
<1>4. CASE Connect(c)
  BY <1>4 DEF Connect, Goto, TypeOK, calls
<1>5. CASE StartFails(c)
  BY <1>5 DEF StartFails, Goto, TypeOK, calls
<1>6. CASE RecordRunning(c)
  BY <1>6 DEF RecordRunning, Update, UpdateFails, Told, Reply, TypeOK, calls
<1>7. CASE RecordFailed(c)
  BY <1>7 DEF RecordFailed, Update, UpdateFails, Told, Reply, TypeOK, calls
<1>8. CASE RecordStopping(c)
  BY <1>8 DEF RecordStopping, Update, UpdateFails, Goto, Reply, TypeOK, calls
<1>9. CASE TakeEntry(c)
  BY <1>9 DEF TakeEntry, Take, Goto, TypeOK, calls
<1>10. CASE Kill(c)
  BY <1>10 DEF Kill, Goto, TypeOK, calls
<1>11. CASE RecordEnd(c)
  BY <1>11 DEF RecordEnd, Update, UpdateFails, Reply, TypeOK, calls
<1>12. CASE \E r \in RequestIds : StartLookup(c, r)
  BY <1>12 DEF StartLookup, TypeOK, calls
<1>13. CASE \E r \in RequestIds, s \in Sessions : StartAgain(c, r, s)
  BY <1>13 DEF StartAgain, Told, Bound, TypeOK, calls
<1>14. CASE \E s \in Sessions : StopBrowserSession(c, s)
  BY <1>14 DEF StopBrowserSession, ReadFor, Known, TypeOK, calls
<1>15. CASE \E s \in Sessions : GetLapsedSession(c, s)
  BY <1>15 DEF GetLapsedSession, ReadFor, Known, TypeOK, calls
<1>. QED
  BY <1>1, <1>2, <1>3, <1>4, <1>5, <1>6, <1>7, <1>8, <1>9, <1>10, <1>11, <1>12, <1>13, <1>14, <1>15 DEF Step, Request

(* Only an insert makes a row; no other step changes a row's request id.   *)
LEMMA RowsKept ==
  ASSUME TypeOK, NEW c \in Calls, CallOwns(c), Step(c) \/ Request(c),
         ~ \E s \in Sessions : Create(c, s),
         NEW t \in Sessions
  PROVE  row'[t].req = row[t].req /\ (Stored(t)' <=> Stored(t))
<1>. USE DEF TypeOK, CallOwns, WorkPcs, Stored
<1>1. CASE CreateFails(c)
  BY <1>1 DEF CreateFails, Reply
<1>2. CASE Launch(c)
  BY <1>2 DEF Launch, Goto
<1>3. CASE Connect(c)
  BY <1>3 DEF Connect, Goto
<1>4. CASE StartFails(c)
  BY <1>4 DEF StartFails, Gone, Outlives, Goto
<1>5. CASE RecordRunning(c)
  BY <1>5 DEF RecordRunning, Update, UpdateFails, Told, Reply
<1>6. CASE RecordFailed(c)
  BY <1>6 DEF RecordFailed, Update, UpdateFails, Told, Reply
<1>7. CASE RecordStopping(c)
  BY <1>7 DEF RecordStopping, Update, UpdateFails, Goto, Reply
<1>8. CASE TakeEntry(c)
  BY <1>8 DEF TakeEntry, Take, Goto
<1>9. CASE Kill(c)
  BY <1>9 DEF Kill, Gone, Outlives, Goto
<1>10. CASE RecordEnd(c)
  BY <1>10 DEF RecordEnd, Update, UpdateFails, Reply
<1>11. CASE \E r \in RequestIds : StartLookup(c, r)
  BY <1>11 DEF StartLookup
<1>12. CASE \E r \in RequestIds, s \in Sessions : StartAgain(c, r, s)
  BY <1>12 DEF StartAgain, Told, Bound
<1>13. CASE \E s \in Sessions : StopBrowserSession(c, s)
  BY <1>13 DEF StopBrowserSession, ReadFor, Known
<1>14. CASE \E s \in Sessions : GetLapsedSession(c, s)
  BY <1>14 DEF GetLapsedSession, ReadFor, Known
<1>. QED
  BY <1>1, <1>2, <1>3, <1>4, <1>5, <1>6, <1>7, <1>8, <1>9, <1>10, <1>11, <1>12, <1>13, <1>14 DEF Step, Request

(* Every action of a call keeps the types.                                 *)
LEMMA TypeStep ==
  ASSUME TypeOK, NEW c \in Calls, CallOwns(c), Step(c) \/ Request(c)
  PROVE  TypeOK'
<1>. USE BoundsAssumption DEF TypeOK, CallOwns, WorkPcs, StartPcs, browser, calls
<1>1. CASE \E s \in Sessions : Create(c, s)
  BY <1>1 DEF Create, Reply
<1>2. CASE CreateFails(c)
  BY <1>2 DEF CreateFails, Reply
<1>3. CASE Launch(c)
  BY <1>3 DEF Launch, Goto
<1>4. CASE Connect(c)
  BY <1>4 DEF Connect, Goto
<1>5. CASE StartFails(c)
  BY <1>5 DEF StartFails, Gone, Outlives, Goto
<1>6. CASE RecordRunning(c)
  BY <1>6 DEF RecordRunning, Update, UpdateFails, Told, Reply
<1>7. CASE RecordFailed(c)
  BY <1>7 DEF RecordFailed, Update, UpdateFails, Told, Reply
<1>8. CASE RecordStopping(c)
  <2>1. CASE Update(sid[c], "STOPPING")
    BY <1>8, <2>1 DEF RecordStopping, Update, Goto, Reply
  <2>2. CASE UpdateFails(sid[c], "STOPPING")
    <3>1. row' \in [Sessions -> [status : SessionStatuses \cup {"ABSENT"},
                               req : RequestIds \cup {None}]]
      BY <1>8, <2>2 DEF RecordStopping, UpdateFails
    <3>2. pc' \in [Calls -> PCs] /\ req' \in [Calls -> RequestIds \cup {None}]
          /\ sid' \in [Calls -> Sessions \cup {None}]
      BY <1>8 DEF RecordStopping, Goto, Reply
    <3>3. faults' \in 0..MaxFaults
      BY <2>2 DEF UpdateFails
    <3>. QED
      BY <1>8, <3>1, <3>2, <3>3 DEF RecordStopping
  <2>. QED
    BY <1>8, <2>1, <2>2 DEF RecordStopping
<1>9. CASE TakeEntry(c)
  BY <1>9 DEF TakeEntry, Take, Goto
<1>10. CASE Kill(c)
  BY <1>10 DEF Kill, Gone, Outlives, Goto
<1>11. CASE RecordEnd(c)
  BY <1>11 DEF RecordEnd, Update, UpdateFails, Reply
<1>12. CASE \E r \in RequestIds : StartLookup(c, r)
  BY <1>12 DEF StartLookup
<1>13. CASE \E r \in RequestIds, s \in Sessions : StartAgain(c, r, s)
  BY <1>13 DEF StartAgain, Told, Bound
<1>14. CASE \E s \in Sessions : StopBrowserSession(c, s)
  BY <1>14 DEF StopBrowserSession, ReadFor, Known
<1>15. CASE \E s \in Sessions : GetLapsedSession(c, s)
  BY <1>15 DEF GetLapsedSession, ReadFor, Known
<1>. QED
  BY <1>1, <1>2, <1>3, <1>4, <1>5, <1>6, <1>7, <1>8, <1>9, <1>10, <1>11, <1>12, <1>13, <1>14, <1>15 DEF Step, Request

(* Rows are never removed and keep their request id.                       *)
LEMMA RowsGrow ==
  ASSUME TypeOK, NEW c \in Calls, CallOwns(c), Step(c) \/ Request(c),
         NEW t \in Sessions, Stored(t)
  PROVE  row'[t].req = row[t].req /\ Stored(t)'
<1>1. CASE \E s \in Sessions : Create(c, s)
  BY <1>1 DEF Create, TypeOK, Stored
<1>2. CASE ~ \E s \in Sessions : Create(c, s)
  BY <1>2, RowsKept
<1>. QED
  BY <1>1, <1>2

(* Each call keeps knowing the row it works on.                            *)
LEMMA CallStep ==
  ASSUME Inv, NEW c \in Calls, Step(c) \/ Request(c), NEW d \in Calls
  PROVE  CallOwns(d)'
<1>1. CASE d # c
  BY <1>1, OtherCalls, RowsGrow DEF Inv, CallOwns, StartPcs, WorkPcs
<1>2. CASE d = c
  <2>. USE <1>2 DEF Inv, TypeOK, CallOwns, StartPcs, WorkPcs, Stored, RowsTold, calls
  <2>1. CASE \E s \in Sessions : Create(c, s)
    BY <2>1 DEF Create, Reply
  <2>2. CASE CreateFails(c)
    BY <2>2 DEF CreateFails, Reply
  <2>3. CASE Launch(c)
    BY <2>3 DEF Launch, Goto
  <2>4. CASE Connect(c)
    BY <2>4 DEF Connect, Goto
  <2>5. CASE StartFails(c)
    BY <2>5 DEF StartFails, Gone, Outlives, Goto
  <2>6. CASE RecordRunning(c)
    BY <2>6 DEF RecordRunning, Update, UpdateFails, Told, Reply
  <2>7. CASE RecordFailed(c)
    BY <2>7 DEF RecordFailed, Update, UpdateFails, Told, Reply
  <2>8. CASE RecordStopping(c)
    BY <2>8 DEF RecordStopping, Update, UpdateFails, Goto, Reply
  <2>9. CASE TakeEntry(c)
    BY <2>9 DEF TakeEntry, Take, Goto
  <2>10. CASE Kill(c)
    BY <2>10 DEF Kill, Gone, Outlives, Goto
  <2>11. CASE RecordEnd(c)
    BY <2>11 DEF RecordEnd, Update, UpdateFails, Reply
  <2>12. CASE \E r \in RequestIds : StartLookup(c, r)
    BY <2>12 DEF StartLookup
  <2>13. CASE \E r \in RequestIds, s \in Sessions : StartAgain(c, r, s)
    BY <2>13 DEF StartAgain, Told, Bound
  <2>14. CASE \E s \in Sessions : StopBrowserSession(c, s)
    BY <2>14 DEF StopBrowserSession, ReadFor, Known
  <2>15. CASE \E s \in Sessions : GetLapsedSession(c, s)
    BY <2>15 DEF GetLapsedSession, ReadFor, Known
  <2>. QED
    BY <2>1, <2>2, <2>3, <2>4, <2>5, <2>6, <2>7, <2>8, <2>9, <2>10, <2>11, <2>12, <2>13, <2>14, <2>15 DEF Step, Request
<1>. QED
  BY <1>1, <1>2

(* Request ids stay unique, and what was launched or told stays stored.    *)
LEMMA RowsStep ==
  ASSUME Inv, NEW c \in Calls, Step(c) \/ Request(c)
  PROVE  UniqueRequests' /\ RowsTold'
<1>1. CASE \E s \in Sessions : Create(c, s)
  BY <1>1 DEF Inv, TypeOK, UniqueRequests, RowsTold, CallOwns, Stored, Bound, Create, browser
<1>2. CASE ~ \E s \in Sessions : Create(c, s)
  <2>. USE <1>2, RowsKept DEF Inv, TypeOK, UniqueRequests, RowsTold, CallOwns, StartPcs, WorkPcs, browser
  <2>1. UniqueRequests'
    OBVIOUS
  <2>2. RowsTold'
    <3>1. CASE CreateFails(c)
      BY <3>1 DEF CreateFails, Reply
    <3>2. CASE Launch(c)
      BY <3>2 DEF Launch, Goto
    <3>3. CASE Connect(c)
      BY <3>3 DEF Connect, Goto
    <3>4. CASE StartFails(c)
      BY <3>4 DEF StartFails, Gone, Outlives, Goto
    <3>5. CASE RecordRunning(c)
      BY <3>5 DEF RecordRunning, Update, UpdateFails, Told, Reply
    <3>6. CASE RecordFailed(c)
      BY <3>6 DEF RecordFailed, Update, UpdateFails, Told, Reply
    <3>7. CASE RecordStopping(c)
      BY <3>7 DEF RecordStopping, Update, UpdateFails, Goto, Reply
    <3>8. CASE TakeEntry(c)
      BY <3>8 DEF TakeEntry, Take, Goto
    <3>9. CASE Kill(c)
      BY <3>9 DEF Kill, Gone, Outlives, Goto
    <3>10. CASE RecordEnd(c)
      BY <3>10 DEF RecordEnd, Update, UpdateFails, Reply
    <3>11. CASE \E r \in RequestIds : StartLookup(c, r)
      BY <3>11 DEF StartLookup
    <3>12. CASE \E r \in RequestIds, s \in Sessions : StartAgain(c, r, s)
      BY <3>12 DEF StartAgain, Told, Bound
    <3>13. CASE \E s \in Sessions : StopBrowserSession(c, s)
      BY <3>13 DEF StopBrowserSession, ReadFor, Known
    <3>14. CASE \E s \in Sessions : GetLapsedSession(c, s)
      BY <3>14 DEF GetLapsedSession, ReadFor, Known
    <3>. QED
      BY <3>1, <3>2, <3>3, <3>4, <3>5, <3>6, <3>7, <3>8, <3>9, <3>10, <3>11, <3>12, <3>13, <3>14 DEF Step, Request
  <2>. QED
    BY <2>1, <2>2
<1>. QED
  BY <1>1, <1>2

(* A session keeps the one call that starts it.                            *)
LEMMA OneStartStep ==
  ASSUME Inv, NEW c \in Calls, Step(c) \/ Request(c)
  PROVE  OneStart'
<1>. USE DEF OneStart, Inv, TypeOK, CallOwns, StartPcs, WorkPcs, calls, browser
<1>1. CASE \E s \in Sessions : Create(c, s)
  BY <1>1 DEF Create, Reply, RowsTold, Stored
<1>2. CASE CreateFails(c)
  BY <1>2 DEF CreateFails, Reply
<1>3. CASE Launch(c)
  BY <1>3 DEF Launch, Goto
<1>4. CASE Connect(c)
  BY <1>4 DEF Connect, Goto
<1>5. CASE StartFails(c)
  BY <1>5 DEF StartFails, Gone, Outlives, Goto
<1>6. CASE RecordRunning(c)
  BY <1>6 DEF RecordRunning, Update, UpdateFails, Told, Reply
<1>7. CASE RecordFailed(c)
  BY <1>7 DEF RecordFailed, Update, UpdateFails, Told, Reply
<1>8. CASE RecordStopping(c)
  BY <1>8 DEF RecordStopping, Update, UpdateFails, Goto, Reply
<1>9. CASE TakeEntry(c)
  BY <1>9 DEF TakeEntry, Take, Goto
<1>10. CASE Kill(c)
  BY <1>10 DEF Kill, Gone, Outlives, Goto
<1>11. CASE RecordEnd(c)
  BY <1>11 DEF RecordEnd, Update, UpdateFails, Reply
<1>12. CASE \E r \in RequestIds : StartLookup(c, r)
  BY <1>12 DEF StartLookup
<1>13. CASE \E r \in RequestIds, s \in Sessions : StartAgain(c, r, s)
  BY <1>13 DEF StartAgain, Told, Bound
<1>14. CASE \E s \in Sessions : StopBrowserSession(c, s)
  BY <1>14 DEF StopBrowserSession, ReadFor, Known
<1>15. CASE \E s \in Sessions : GetLapsedSession(c, s)
  BY <1>15 DEF GetLapsedSession, ReadFor, Known
<1>. QED
  BY <1>1, <1>2, <1>3, <1>4, <1>5, <1>6, <1>7, <1>8, <1>9, <1>10, <1>11, <1>12, <1>13, <1>14, <1>15 DEF Step, Request

(* The map, the starting calls and the killing calls stay apart.           *)
LEMMA HoldingStep ==
  ASSUME Inv, NEW c \in Calls, Step(c) \/ Request(c)
  PROVE  Holding' /\ (entry \subseteq launched)'
<1>. USE DEF Holding, Inv, TypeOK, CallOwns, StartPcs, WorkPcs, calls, browser
<1>1. CASE \E s \in Sessions : Create(c, s)
  BY <1>1 DEF Create, Reply, RowsTold, Stored
<1>2. CASE CreateFails(c)
  BY <1>2 DEF CreateFails, Reply
<1>3. CASE Launch(c)
  BY <1>3 DEF Launch, Goto
<1>4. CASE Connect(c)
  BY <1>4 DEF OneStart, Connect, Goto
<1>5. CASE StartFails(c)
  BY <1>5 DEF StartFails, Gone, Outlives, Goto
<1>6. CASE RecordRunning(c)
  BY <1>6 DEF RecordRunning, Update, UpdateFails, Told, Reply
<1>7. CASE RecordFailed(c)
  BY <1>7 DEF RecordFailed, Update, UpdateFails, Told, Reply
<1>8. CASE RecordStopping(c)
  BY <1>8 DEF RecordStopping, Update, UpdateFails, Goto, Reply
<1>9. CASE TakeEntry(c)
  BY <1>9 DEF TakeEntry, Take, Goto
<1>10. CASE Kill(c)
  BY <1>10 DEF Kill, Gone, Outlives, Goto
<1>11. CASE RecordEnd(c)
  BY <1>11 DEF RecordEnd, Update, UpdateFails, Reply
<1>12. CASE \E r \in RequestIds : StartLookup(c, r)
  BY <1>12 DEF StartLookup
<1>13. CASE \E r \in RequestIds, s \in Sessions : StartAgain(c, r, s)
  BY <1>13 DEF StartAgain, Told, Bound
<1>14. CASE \E s \in Sessions : StopBrowserSession(c, s)
  BY <1>14 DEF StopBrowserSession, ReadFor, Known
<1>15. CASE \E s \in Sessions : GetLapsedSession(c, s)
  BY <1>15 DEF GetLapsedSession, ReadFor, Known
<1>. QED
  BY <1>1, <1>2, <1>3, <1>4, <1>5, <1>6, <1>7, <1>8, <1>9, <1>10, <1>11, <1>12, <1>13, <1>14, <1>15 DEF Step, Request

(* Every running browser keeps its owner.                                  *)
LEMMA OwnedStep ==
  ASSUME Inv, NEW c \in Calls, Step(c) \/ Request(c)
  PROVE  BrowserOwned'
<1>. USE DEF BrowserOwned, Inv, TypeOK, CallOwns, StartPcs, WorkPcs, calls, browser
<1>1. CASE \E s \in Sessions : Create(c, s)
  BY <1>1 DEF Create, Reply
<1>2. CASE CreateFails(c)
  BY <1>2 DEF CreateFails, Reply
<1>3. CASE Launch(c)
  BY <1>3 DEF Launch, Goto
<1>4. CASE Connect(c)
  BY <1>4 DEF Connect, Goto
<1>5. CASE StartFails(c)
  BY <1>5 DEF StartFails, Gone, Outlives, Goto
<1>6. CASE RecordRunning(c)
  BY <1>6 DEF RecordRunning, Update, UpdateFails, Told, Reply
<1>7. CASE RecordFailed(c)
  BY <1>7 DEF RecordFailed, Update, UpdateFails, Told, Reply
<1>8. CASE RecordStopping(c)
  BY <1>8 DEF RecordStopping, Update, UpdateFails, Goto, Reply
<1>9. CASE TakeEntry(c)
  BY <1>9 DEF TakeEntry, Take, Goto
<1>10. CASE Kill(c)
  BY <1>10 DEF Kill, Gone, Outlives, Goto
<1>11. CASE RecordEnd(c)
  BY <1>11 DEF RecordEnd, Update, UpdateFails, Reply
<1>12. CASE \E r \in RequestIds : StartLookup(c, r)
  BY <1>12 DEF StartLookup
<1>13. CASE \E r \in RequestIds, s \in Sessions : StartAgain(c, r, s)
  BY <1>13 DEF StartAgain, Told, Bound
<1>14. CASE \E s \in Sessions : StopBrowserSession(c, s)
  BY <1>14 DEF StopBrowserSession, ReadFor, Known
<1>15. CASE \E s \in Sessions : GetLapsedSession(c, s)
  BY <1>15 DEF GetLapsedSession, ReadFor, Known
<1>. QED
  BY <1>1, <1>2, <1>3, <1>4, <1>5, <1>6, <1>7, <1>8, <1>9, <1>10, <1>11, <1>12, <1>13, <1>14, <1>15 DEF Step, Request

(* The clock, a crash or a stutter.                                        *)
LEMMA EnvironmentStep ==
  ASSUME Inv, (\E s \in Sessions : Lapse(s)) \/ Crash \/ UNCHANGED vars
  PROVE  Inv'
<1>. USE DEF Inv, TypeOK, UniqueRequests, CallOwns, OneStart, RowsTold, Holding,
             BrowserOwned, StartPcs, WorkPcs, Stored, calls, browser, vars
<1>1. CASE \E s \in Sessions : Lapse(s)
  BY <1>1 DEF Lapse
<1>2. CASE Crash
  BY <1>2, BoundsAssumption DEF Crash
<1>3. CASE UNCHANGED vars
  BY <1>3
<1>. QED
  BY <1>1, <1>2, <1>3

LEMMA InvInit == Init => Inv
  BY TypeInit DEF Init, Absent, Inv, UniqueRequests, CallOwns, OneStart, RowsTold,
                  Holding, BrowserOwned, StartPcs, WorkPcs, Stored

LEMMA InvStep == Inv /\ [Next]_vars => Inv'
<1>. SUFFICES ASSUME Inv, [Next]_vars PROVE Inv'
  OBVIOUS
<1>1. CASE \E c \in Calls : Step(c) \/ Request(c)
  <2>1. PICK c \in Calls : Step(c) \/ Request(c)
    BY <1>1
  <2>2. TypeOK'
    BY <2>1, TypeStep DEF Inv
  <2>3. \A d \in Calls : CallOwns(d)'
    BY <2>1, CallStep
  <2>. QED
    BY <2>1, <2>2, <2>3, RowsStep, OneStartStep, HoldingStep, OwnedStep DEF Inv
<1>. QED
  BY <1>1, EnvironmentStep DEF Next

(* The inductive invariant holds throughout.                               *)
THEOREM InvHolds == Spec => []Inv
  BY InvInit, InvStep, PTL DEF Spec

(* Types of the session service, for every value of the constants.         *)
THEOREM TypeCorrect == Spec => []TypeOK
  BY InvHolds, PTL DEF Inv

(* Every answer to one request id names one session: told pairs are rows,  *)
(* and rows never share a request id.                                      *)
THEOREM SameSession == Spec => []SameRequestSameSession
<1>1. Inv => SameRequestSameSession
  BY DEF Inv, TypeOK, RowsTold, UniqueRequests, SameRequestSameSession
<1>. QED
  BY <1>1, InvHolds, PTL

(* A running browser always has an owner that can stop it.                 *)
THEOREM Owned == Spec => []BrowserOwned
  BY InvHolds, PTL DEF Inv

(* No browser is killed by two calls or killed while still in the map.     *)
THEOREM OneKiller == Spec => []StoppedByOne
<1>1. Inv => StoppedByOne
  BY DEF Inv, Holding, StoppedByOne
<1>. QED
  BY <1>1, InvHolds, PTL

(* A request id, however often it is retried, launches one browser.        *)
THEOREM OneLaunch == Spec => OneLaunchPerRequest
<1>1. Inv /\ [Next]_vars =>
        [\A c \in Calls : Launch(c) => \A s \in launched : row[s].req # req[c]]_vars
  BY DEF Inv, TypeOK, CallOwns, WorkPcs, StartPcs, OneStart, RowsTold, UniqueRequests, Launch
<1>. QED
  BY <1>1, InvHolds, PTL DEF Spec, OneLaunchPerRequest

(* A call writes no row but the one it works on.                           *)
LEMMA OtherRows ==
  ASSUME TypeOK, NEW c \in Calls, NEW t \in Sessions, t # sid[c],
         RecordRunning(c) \/ RecordFailed(c) \/ RecordStopping(c) \/ RecordEnd(c)
  PROVE  row'[t] = row[t]
<1>. USE DEF TypeOK
<1>1. CASE RecordRunning(c)
  BY <1>1 DEF RecordRunning, Update, UpdateFails
<1>2. CASE RecordFailed(c)
  BY <1>2 DEF RecordFailed, Update, UpdateFails
<1>3. CASE RecordStopping(c)
  BY <1>3 DEF RecordStopping, Update, UpdateFails
<1>4. CASE RecordEnd(c)
  BY <1>4 DEF RecordEnd, Update, UpdateFails
<1>. QED
  BY <1>1, <1>2, <1>3, <1>4

(* A final status without a call at work on the session is stable, because *)
(* the only calls that write a row are those that read it before it was    *)
(* final.                                                                  *)
LEMMA QuietFinalStep ==
  ASSUME Inv, NEW s \in Sessions, NEW status \in FinalStatuses,
         QuietFinal(s, status), [Next]_vars
  PROVE  QuietFinal(s, status)'
<1>. USE DEF QuietFinal, Quiet, Inv, TypeOK, CallOwns, WorkPcs, StartPcs, calls, browser, Stored
<1>1. ASSUME NEW c \in Calls, Step(c) \/ Request(c) PROVE QuietFinal(s, status)'
  <2>. USE <1>1
  <2>1. CASE \E t \in Sessions : Create(c, t)
    BY <2>1 DEF Create, Reply
  <2>2. CASE CreateFails(c)
    BY <2>2 DEF CreateFails, Reply
  <2>3. CASE Launch(c)
    BY <2>3 DEF Launch, Goto
  <2>4. CASE Connect(c)
    BY <2>4 DEF Connect, Goto
  <2>5. CASE StartFails(c)
    BY <2>5 DEF StartFails, Gone, Outlives, Goto
  <2>6. CASE RecordRunning(c)
    <3>1. row'[s] = row[s]
      BY <2>6, OtherRows
    <3>2. sid' \in {sid, [sid EXCEPT ![c] = None]}
      BY <2>6 DEF RecordRunning, Reply
    <3>. QED
      BY <3>1, <3>2, NoneAssumption
  <2>7. CASE RecordFailed(c)
    <3>1. row'[s] = row[s]
      BY <2>7, OtherRows
    <3>2. sid' \in {sid, [sid EXCEPT ![c] = None]}
      BY <2>7 DEF RecordFailed, Reply
    <3>. QED
      BY <3>1, <3>2, NoneAssumption
  <2>8. CASE RecordStopping(c)
    <3>1. row'[s] = row[s]
      BY <2>8, OtherRows
    <3>2. sid' \in {sid, [sid EXCEPT ![c] = None]}
      BY <2>8 DEF RecordStopping, Goto, Reply
    <3>. QED
      BY <3>1, <3>2, NoneAssumption
  <2>9. CASE TakeEntry(c)
    BY <2>9 DEF TakeEntry, Take, Goto
  <2>10. CASE Kill(c)
    BY <2>10 DEF Kill, Gone, Outlives, Goto
  <2>11. CASE RecordEnd(c)
    <3>1. row'[s] = row[s]
      BY <2>11, OtherRows
    <3>2. sid' \in {sid, [sid EXCEPT ![c] = None]}
      BY <2>11 DEF RecordEnd, Reply
    <3>. QED
      BY <3>1, <3>2, NoneAssumption
  <2>12. CASE \E r \in RequestIds : StartLookup(c, r)
    BY <2>12 DEF StartLookup
  <2>13. CASE \E r \in RequestIds, t \in Sessions : StartAgain(c, r, t)
    BY <2>13 DEF StartAgain, Told, Bound
  <2>14. CASE \E t \in Sessions : StopBrowserSession(c, t)
    BY <2>14 DEF StopBrowserSession, ReadFor, Known, SessionStatusIsFinal
  <2>15. CASE \E t \in Sessions : GetLapsedSession(c, t)
    BY <2>15 DEF GetLapsedSession, ReadFor, Known, SessionStatusIsFinal
  <2>. QED
    BY <2>1, <2>2, <2>3, <2>4, <2>5, <2>6, <2>7, <2>8, <2>9, <2>10, <2>11, <2>12, <2>13, <2>14, <2>15 DEF Step, Request
<1>2. CASE (\E t \in Sessions : Lapse(t)) \/ Crash \/ UNCHANGED vars
  BY <1>2, NoneAssumption DEF Lapse, Crash, vars
<1>. QED
  BY <1>1, <1>2 DEF Next

(* Once final and left alone, a session's status is final for ever.        *)
THEOREM QuietFinalStays == Spec => QuietFinalIsForever
<1>1. ASSUME Inv, [Next]_vars, NEW s \in Sessions, NEW status \in FinalStatuses
      PROVE  QuietFinal(s, status) => QuietFinal(s, status)'
  BY <1>1, QuietFinalStep
<1>2. Inv /\ [Next]_vars =>
        [\A s \in Sessions, status \in FinalStatuses :
            QuietFinal(s, status) => QuietFinal(s, status)']_vars
  BY <1>1
<1>. QED
  BY <1>2, InvHolds, PTL DEF Spec, QuietFinalIsForever
-----------------------------------------------------------------------------
(***************************************************************************)
(* What the row says of the browser                                        *)
(***************************************************************************)

(* Past Runtime.StopSession's look at the map, or the failure of a start.  *)
TakenPcs == KillingPcs \cup {"record_failed", "record_expired", "record_stopped", "record_stop_failed"}

(* Nobody finalizes a session, or is about to, while its browser is in the *)
(* map or on its way there.                                                *)
NotYetTaken ==
    \A s \in Sessions \ overlapped :
        s \in entry \/ StartInFlight(s) =>
            /\ row[s].status \notin FinalStatuses
            /\ \A c \in Calls : sid[c] = s => pc[c] \notin TakenPcs

(* What is about to be recorded as running is in the map. *)
Registered ==
    \A c \in Calls : pc[c] = "record_running" => sid[c] \in entry \cup overlapped

RunningHeld ==
    \A s \in Sessions \ overlapped :
        faults = 0 /\ crashes = 0 /\ row[s].status = "RUNNING" =>
            s \in entry \/ \E c \in Calls : sid[c] = s /\ pc[c] \in TakenPcs

Settled == NotYetTaken /\ Registered /\ RunningHeld

(* The map keeps the entry of a start that is about to be recorded.        *)
LEMMA RegisteredStep ==
  ASSUME Inv, Settled, NEW c \in Calls, Step(c) \/ Request(c)
  PROVE  Registered'
<1>. USE NoneAssumption DEF Inv, TypeOK, CallOwns, StartPcs, WorkPcs, calls, browser, TakenPcs,
             Settled, Registered, StartInFlight
<1>1. CASE \E s \in Sessions : Create(c, s)
  BY <1>1 DEF Create, Reply
<1>2. CASE CreateFails(c)
  BY <1>2 DEF CreateFails, Reply
<1>3. CASE Launch(c)
  BY <1>3 DEF Launch, Goto
<1>4. CASE Connect(c)
  BY <1>4 DEF Connect, Goto
<1>5. CASE StartFails(c)
  BY <1>5 DEF StartFails, Gone, Outlives, Goto
<1>6. CASE RecordRunning(c)
  BY <1>6 DEF RecordRunning, Update, UpdateFails, Told, Reply
<1>7. CASE RecordFailed(c)
  BY <1>7 DEF RecordFailed, Update, UpdateFails, Told, Reply
<1>8. CASE RecordStopping(c)
  BY <1>8 DEF RecordStopping, Update, UpdateFails, Goto, Reply
<1>9. CASE TakeEntry(c)
  BY <1>9 DEF TakeEntry, Take, Goto
<1>10. CASE Kill(c)
  BY <1>10 DEF Kill, Gone, Outlives, Goto
<1>11. CASE RecordEnd(c)
  BY <1>11 DEF RecordEnd, Update, UpdateFails, Reply
<1>12. CASE \E r \in RequestIds : StartLookup(c, r)
  BY <1>12 DEF StartLookup
<1>13. CASE \E r \in RequestIds, s \in Sessions : StartAgain(c, r, s)
  BY <1>13 DEF StartAgain, Told, Bound
<1>14. CASE \E s \in Sessions : StopBrowserSession(c, s)
  BY <1>14 DEF StopBrowserSession, ReadFor, Known
<1>15. CASE \E s \in Sessions : GetLapsedSession(c, s)
  BY <1>15 DEF GetLapsedSession, ReadFor, Known
<1>. QED
  BY <1>1, <1>2, <1>3, <1>4, <1>5, <1>6, <1>7, <1>8, <1>9, <1>10, <1>11, <1>12, <1>13, <1>14, <1>15 DEF Step, Request

(* Whoever finalizes a session has taken its browser first.                *)
LEMMA NotYetTakenStep ==
  ASSUME Inv, Settled, NEW c \in Calls, Step(c) \/ Request(c)
  PROVE  NotYetTaken'
<1>. USE NoneAssumption DEF Inv, TypeOK, CallOwns, StartPcs, WorkPcs, calls, browser, TakenPcs,
             Settled, NotYetTaken, StartInFlight, OneStart, Holding, Stored
<1>1. CASE \E s \in Sessions : Create(c, s)
  BY <1>1 DEF Create, Reply
<1>2. CASE CreateFails(c)
  BY <1>2 DEF CreateFails, Reply
<1>3. CASE Launch(c)
  BY <1>3 DEF Launch, Goto
<1>4. CASE Connect(c)
  BY <1>4 DEF Connect, Goto
<1>5. CASE StartFails(c)
  BY <1>5 DEF StartFails, Gone, Outlives, Goto
<1>6. CASE RecordRunning(c)
  BY <1>6 DEF RecordRunning, Update, UpdateFails, Told, Reply
<1>7. CASE RecordFailed(c)
  BY <1>7 DEF RecordFailed, Update, UpdateFails, Told, Reply
<1>8. CASE RecordStopping(c)
  BY <1>8 DEF RecordStopping, Update, UpdateFails, Goto, Reply
<1>9. CASE TakeEntry(c)
  BY <1>9 DEF TakeEntry, Take, Goto
<1>10. CASE Kill(c)
  BY <1>10 DEF Kill, Gone, Outlives, Goto
<1>11. CASE RecordEnd(c)
  BY <1>11 DEF RecordEnd, Update, UpdateFails, Reply
<1>12. CASE \E r \in RequestIds : StartLookup(c, r)
  BY <1>12 DEF StartLookup
<1>13. CASE \E r \in RequestIds, s \in Sessions : StartAgain(c, r, s)
  BY <1>13 DEF StartAgain, Told, Bound
<1>14. CASE \E s \in Sessions : StopBrowserSession(c, s)
  BY <1>14 DEF StopBrowserSession, ReadFor, Known
<1>15. CASE \E s \in Sessions : GetLapsedSession(c, s)
  BY <1>15 DEF GetLapsedSession, ReadFor, Known
<1>. QED
  BY <1>1, <1>2, <1>3, <1>4, <1>5, <1>6, <1>7, <1>8, <1>9, <1>10, <1>11, <1>12, <1>13, <1>14, <1>15 DEF Step, Request

(* A row goes to RUNNING with its browser in the map, and whoever takes it *)
(* from there writes the row before it leaves.                             *)
LEMMA RunningHeldStep ==
  ASSUME Inv, Settled, NEW c \in Calls, Step(c) \/ Request(c)
  PROVE  RunningHeld'
<1>. USE NoneAssumption DEF Inv, TypeOK, CallOwns, StartPcs, WorkPcs, calls, browser, TakenPcs,
             Settled, NotYetTaken, Registered, RunningHeld, Stored
<1>1. CASE \E s \in Sessions : Create(c, s)
  BY <1>1 DEF Create, Reply
<1>2. CASE CreateFails(c)
  BY <1>2 DEF CreateFails, Reply
<1>3. CASE Launch(c)
  BY <1>3 DEF Launch, Goto
<1>4. CASE Connect(c)
  BY <1>4 DEF Connect, Goto
<1>5. CASE StartFails(c)
  BY <1>5 DEF StartFails, Gone, Outlives, Goto
<1>6. CASE RecordRunning(c)
  BY <1>6 DEF RecordRunning, Update, UpdateFails, Told, Reply
<1>7. CASE RecordFailed(c)
  BY <1>7 DEF RecordFailed, Update, UpdateFails, Told, Reply
<1>8. CASE RecordStopping(c)
  BY <1>8 DEF RecordStopping, Update, UpdateFails, Goto, Reply
<1>9. CASE TakeEntry(c)
  BY <1>9 DEF TakeEntry, Take, Goto
<1>10. CASE Kill(c)
  BY <1>10 DEF Kill, Gone, Outlives, Goto
<1>11. CASE RecordEnd(c)
  BY <1>11 DEF RecordEnd, Update, UpdateFails, Reply
<1>12. CASE \E r \in RequestIds : StartLookup(c, r)
  BY <1>12 DEF StartLookup
<1>13. CASE \E r \in RequestIds, s \in Sessions : StartAgain(c, r, s)
  BY <1>13 DEF StartAgain, Told, Bound
<1>14. CASE \E s \in Sessions : StopBrowserSession(c, s)
  BY <1>14 DEF StopBrowserSession, ReadFor, Known
<1>15. CASE \E s \in Sessions : GetLapsedSession(c, s)
  BY <1>15 DEF GetLapsedSession, ReadFor, Known
<1>. QED
  BY <1>1, <1>2, <1>3, <1>4, <1>5, <1>6, <1>7, <1>8, <1>9, <1>10, <1>11, <1>12, <1>13, <1>14, <1>15 DEF Step, Request

(* A step of a call keeps the three; so do the clock and a crash.          *)
LEMMA SettledStep == Inv /\ Settled /\ [Next]_vars => Settled'
<1>. SUFFICES ASSUME Inv, Settled, [Next]_vars PROVE Settled'
  OBVIOUS
<1>1. CASE \E c \in Calls : Step(c) \/ Request(c)
  BY <1>1, RegisteredStep, NotYetTakenStep, RunningHeldStep DEF Settled
<1>. USE DEF Settled, NotYetTaken, Registered, RunningHeld, StartInFlight, TakenPcs
<1>2. CASE \E s \in Sessions : Lapse(s)
  BY <1>2 DEF Lapse, calls, browser
<1>3. CASE Crash
  <2>1. crashes' # 0
    BY <1>3 DEF Crash, Inv, TypeOK
  <2>. QED
    BY <1>3, <2>1 DEF Crash
<1>4. CASE UNCHANGED vars
  BY <1>4 DEF vars, calls, browser
<1>. QED
  BY <1>1, <1>2, <1>3, <1>4 DEF Next

(* No row is final while its browser is in the map or on its way there,    *)
(* and none is RUNNING without a browser, as long as writes are answered.  *)
THEOREM SettledHolds == Spec => []Settled
<1>1. Init => Settled
  BY DEF Init, Absent, Settled, NotYetTaken, Registered, RunningHeld, StartInFlight
<1>. QED
  BY <1>1, InvHolds, SettledStep, PTL DEF Spec

(* A finalized session has no browser: it lives on only in the map, where  *)
(* no finalized session is, or in the hands of a call at work.             *)
THEOREM FinalReleased == Spec => []FinalSessionReleased
<1>1. Inv /\ Settled => FinalSessionReleased
  BY DEF Inv, TypeOK, BrowserOwned, Settled, NotYetTaken, Quiet, SessionStatusIsFinal,
         FinalSessionReleased
<1>. QED
  BY <1>1, InvHolds, SettledHolds, PTL

(* A session recorded as running has its browser (RecordRunning, Take).    *)
THEOREM RunningHas == Spec => []RunningHasBrowser
<1>1. Settled => RunningHasBrowser
  BY DEF Settled, RunningHeld, RunningHasBrowser, Quiet
<1>. QED
  BY <1>1, SettledHolds, PTL

-----------------------------------------------------------------------------
(***************************************************************************)
(* The service implements RequestLedger                                    *)
(***************************************************************************)

Bindings == {Pair(s) : s \in {t \in Sessions : Stored(t)}}

Launches == {Pair(s) : s \in launched}

(* A step that inserts no row leaves bindings alone, and launches too if   *)
(* it launches nothing.                                                    *)
LEMMA PairsKept ==
  ASSUME Inv, Inv', \A t \in Sessions : row'[t].req = row[t].req /\ (Stored(t)' <=> Stored(t))
  PROVE  /\ Bindings' = Bindings
         /\ launched' = launched => Launches' = Launches
<1>1. \A t \in Sessions : Pair(t)' = Pair(t)
  BY DEF Pair
<1>2. Bindings' = Bindings
  BY <1>1 DEF Bindings
<1>3. ASSUME launched' = launched PROVE Launches' = Launches
  BY <1>1, <1>3 DEF Launches, Inv, TypeOK
<1>. QED
  BY <1>2, <1>3

LEMMA InsertBinds ==
  ASSUME Inv, Inv', NEW c \in Calls, NEW s \in Sessions, Create(c, s)
  PROVE  Ledger!Bind(req[c], s)
<1>1. Pair(s)' = <<req[c], s>> /\ Stored(s)' /\ ~Stored(s)
  BY DEF Create, Pair, Stored, Inv, TypeOK
<1>2. \A t \in Sessions \ {s} : Pair(t)' = Pair(t) /\ (Stored(t)' <=> Stored(t))
  BY DEF Create, Pair, Stored, Inv, TypeOK
<1>3. Bindings' = Bindings \cup {<<req[c], s>>}
  BY <1>1, <1>2 DEF Bindings
<1>4. \A p \in Bindings : p[1] # req[c] /\ p[2] # s
  BY <1>1 DEF Bindings, Pair, Create, Bound
<1>5. launched' = launched /\ answered' = answered
  BY DEF Create, browser
<1>6. Launches' = Launches
  BY <1>1, <1>2, <1>5 DEF Launches, Inv, TypeOK, RowsTold
<1>. QED
  BY <1>3, <1>4, <1>5, <1>6 DEF Ledger!Bind, Bindings, Launches

LEMMA LaunchBegins ==
  ASSUME Inv, Inv', NEW c \in Calls, Launch(c)
  PROVE  Ledger!Begin(req[c], sid[c])
<1>1. /\ sid[c] \in Sessions /\ Stored(sid[c]) /\ Pair(sid[c]) = <<req[c], sid[c]>>
      /\ sid[c] \notin launched
  BY DEF Launch, Inv, CallOwns, OneStart, StartPcs, WorkPcs, Pair
<1>2. \A t \in Sessions : Pair(t)' = Pair(t) /\ (Stored(t)' <=> Stored(t))
  BY DEF Launch, Pair, Stored
<1>3. Bindings' = Bindings /\ answered' = answered
  BY <1>2 DEF Bindings, Launch
<1>4. Launches' = Launches \cup {<<req[c], sid[c]>>}
  BY <1>1, <1>2 DEF Launches, Launch, Inv, TypeOK
<1>5. <<req[c], sid[c]>> \in Bindings
  BY <1>1 DEF Bindings
<1>6. \A p \in Launches : p[1] # req[c]
  BY <1>1 DEF Launches, Pair, Inv, TypeOK, UniqueRequests, RowsTold
<1>. QED
  BY <1>3, <1>4, <1>5, <1>6 DEF Ledger!Begin, Bindings, Launches

(* An answer that adds <<r, s>>, or nothing, to what was told.             *)
LEMMA AnswerTells ==
  ASSUME Inv, Inv', NEW c \in Calls, Step(c) \/ Request(c),
         ~ \E s \in Sessions : Create(c, s), ~ Launch(c)
  PROVE  [Ledger!Next]_(Ledger!ledger)
<1>1. \A t \in Sessions : row'[t].req = row[t].req /\ (Stored(t)' <=> Stored(t))
  BY RowsKept DEF Inv
<1>2. launched' = launched
  <2>. USE DEF browser
  <2>1. CASE CreateFails(c)
    BY <2>1 DEF CreateFails, Reply
  <2>2. CASE Connect(c)
    BY <2>2 DEF Connect, Goto
  <2>3. CASE StartFails(c)
    BY <2>3 DEF StartFails, Gone, Outlives, Goto
  <2>4. CASE RecordRunning(c)
    BY <2>4 DEF RecordRunning, Update, UpdateFails, Told, Reply
  <2>5. CASE RecordFailed(c)
    BY <2>5 DEF RecordFailed, Update, UpdateFails, Told, Reply
  <2>6. CASE RecordStopping(c)
    BY <2>6 DEF RecordStopping, Update, UpdateFails, Goto, Reply
  <2>7. CASE TakeEntry(c)
    BY <2>7 DEF TakeEntry, Take, Goto
  <2>8. CASE Kill(c)
    BY <2>8 DEF Kill, Gone, Outlives, Goto
  <2>9. CASE RecordEnd(c)
    BY <2>9 DEF RecordEnd, Update, UpdateFails, Reply
  <2>10. CASE \E r \in RequestIds : StartLookup(c, r)
    BY <2>10 DEF StartLookup
  <2>11. CASE \E r \in RequestIds, s \in Sessions : StartAgain(c, r, s)
    BY <2>11 DEF StartAgain, Told, Bound
  <2>12. CASE \E s \in Sessions : StopBrowserSession(c, s)
    BY <2>12 DEF StopBrowserSession, ReadFor, Known
  <2>13. CASE \E s \in Sessions : GetLapsedSession(c, s)
    BY <2>13 DEF GetLapsedSession, ReadFor, Known
  <2>. QED
    BY <2>1, <2>2, <2>3, <2>4, <2>5, <2>6, <2>7, <2>8, <2>9, <2>10, <2>11, <2>12, <2>13 DEF Step, Request
<1>3. Bindings' = Bindings /\ Launches' = Launches
  BY <1>1, <1>2, PairsKept
<1>4. answered' = answered \/ \E r \in RequestIds, s \in Sessions : Told(r, s)
  <2>. USE DEF Inv, CallOwns, WorkPcs, StartPcs
  <2>1. CASE CreateFails(c)
    BY <2>1 DEF CreateFails, Reply
  <2>2. CASE Connect(c)
    BY <2>2 DEF Connect, Goto
  <2>3. CASE StartFails(c)
    BY <2>3 DEF StartFails, Gone, Outlives, Goto
  <2>4. CASE RecordRunning(c)
    BY <2>4 DEF RecordRunning, Update, UpdateFails, Told, Reply
  <2>5. CASE RecordFailed(c)
    BY <2>5 DEF RecordFailed, Update, UpdateFails, Told, Reply
  <2>6. CASE RecordStopping(c)
    BY <2>6 DEF RecordStopping, Update, UpdateFails, Goto, Reply
  <2>7. CASE TakeEntry(c)
    BY <2>7 DEF TakeEntry, Take, Goto
  <2>8. CASE Kill(c)
    BY <2>8 DEF Kill, Gone, Outlives, Goto
  <2>9. CASE RecordEnd(c)
    BY <2>9 DEF RecordEnd, Update, UpdateFails, Reply
  <2>10. CASE \E r \in RequestIds : StartLookup(c, r)
    BY <2>10 DEF StartLookup
  <2>11. CASE \E r \in RequestIds, s \in Sessions : StartAgain(c, r, s)
    BY <2>11 DEF StartAgain, Told, Bound
  <2>12. CASE \E s \in Sessions : StopBrowserSession(c, s)
    BY <2>12 DEF StopBrowserSession, ReadFor, Known
  <2>13. CASE \E s \in Sessions : GetLapsedSession(c, s)
    BY <2>13 DEF GetLapsedSession, ReadFor, Known
  <2>. QED
    BY <2>1, <2>2, <2>3, <2>4, <2>5, <2>6, <2>7, <2>8, <2>9, <2>10, <2>11, <2>12, <2>13 DEF Step, Request
<1>5. CASE answered' = answered
  BY <1>3, <1>5 DEF Ledger!ledger, Bindings, Launches
<1>6. ASSUME NEW r \in RequestIds, NEW s \in Sessions, Told(r, s)
      PROVE  Ledger!Tell(r, s)
  <2>1. <<r, s>> \in answered'
    BY <1>6 DEF Told
  <2>2. <<r, s>> \in Bindings'
    BY <2>1 DEF Bindings, Pair, Inv, RowsTold
  <2>. QED
    BY <1>3, <1>6, <2>2 DEF Ledger!Tell, Told, Bindings, Launches
<1>. QED
  BY <1>4, <1>5, <1>6 DEF Ledger!Next

LEMMA LedgerStep == Inv /\ Inv' /\ [Next]_vars => [Ledger!Next]_(Ledger!ledger)
<1>. SUFFICES ASSUME Inv, Inv', [Next]_vars PROVE [Ledger!Next]_(Ledger!ledger)
  OBVIOUS
<1>1. ASSUME NEW c \in Calls, Step(c) \/ Request(c) PROVE [Ledger!Next]_(Ledger!ledger)
  <2>1. CASE \E s \in Sessions : Create(c, s)
    BY <2>1, InsertBinds DEF Ledger!Next, Create, Inv, CallOwns
  <2>2. CASE Launch(c)
    BY <2>2, LaunchBegins DEF Ledger!Next, Launch, Inv, CallOwns, StartPcs, WorkPcs
  <2>. QED
    BY <1>1, <2>1, <2>2, AnswerTells
<1>2. CASE (\E s \in Sessions : Lapse(s)) \/ Crash \/ UNCHANGED vars
  BY <1>2 DEF Lapse, Crash, vars, browser, Ledger!ledger, Pair, Stored
<1>. QED
  BY <1>1, <1>2 DEF Next

LEMMA LedgerInit == Init => Ledger!Init
  BY DEF Init, Ledger!Init, Pair, Stored, Absent

(* Start requests are idempotent: the session service implements the       *)
(* request ledger, whatever is retried, raced, lost or restarted.          *)
THEOREM ServiceImplementsLedger == Spec => ImplementsLedger
  BY LedgerInit, LedgerStep, InvHolds, PTL DEF Spec, ImplementsLedger, Ledger!Spec

(* What the ledger's steps add up to: bindings are one to one.             *)
LedgerPairs == Bindings \subseteq RequestIds \X Sessions /\ Ledger!Idempotent

LEMMA OneMorePair ==
  ASSUME NEW bound, bound \subseteq RequestIds \X Sessions, NEW r \in RequestIds, NEW s \in Sessions,
         \A p, q \in bound : p[1] = q[1] <=> p[2] = q[2],
         \A p \in bound : p[1] # r /\ p[2] # s
  PROVE  LET more == bound \cup {<<r, s>>} IN
         more \subseteq RequestIds \X Sessions /\ \A p, q \in more : p[1] = q[1] <=> p[2] = q[2]
  OBVIOUS

(* A request has one thing and a thing one request, for ever; only bound   *)
(* pairs are worked on or told to a client.  The proof looks at the steps  *)
(* of the ledger only, whatever implements them.                           *)
THEOREM LedgerIdempotent == Ledger!Spec => []Ledger!Idempotent
<1>. USE DEF Bindings, Launches, LedgerPairs, Ledger!Idempotent
<1>1. Ledger!Init => LedgerPairs
  BY DEF Ledger!Init
<1>2. LedgerPairs /\ [Ledger!Next]_(Ledger!ledger) => LedgerPairs'
  <2>. SUFFICES ASSUME LedgerPairs, [Ledger!Next]_(Ledger!ledger) PROVE LedgerPairs'
    OBVIOUS
  <2>1. ASSUME NEW r \in RequestIds, NEW s \in Sessions, Ledger!Bind(r, s) PROVE LedgerPairs'
    <3>1. /\ \A p \in Bindings : p[1] # r /\ p[2] # s
          /\ Bindings' = Bindings \cup {<<r, s>>}
          /\ Launches' = Launches /\ answered' = answered
      BY <2>1 DEF Ledger!Bind
    <3>2. /\ Bindings' \subseteq RequestIds \X Sessions
          /\ \A p, q \in Bindings' : p[1] = q[1] <=> p[2] = q[2]
      <4>. HIDE DEF Bindings
      <4>1. \A p, q \in Bindings : p[1] = q[1] <=> p[2] = q[2]
        BY DEF Bindings
      <4>. QED
        BY <3>1, <4>1, OneMorePair
    <3>3. answered' \subseteq Bindings' /\ Launches' \subseteq Bindings'
      <4>1. answered \subseteq Bindings /\ Launches \subseteq Bindings
        OBVIOUS
      <4>. HIDE DEF Bindings, Launches
      <4>. QED
        BY <3>1, <4>1
    <3>. QED
      BY <3>2, <3>3
  <2>2. ASSUME NEW r \in RequestIds, NEW s \in Sessions, Ledger!Begin(r, s) PROVE LedgerPairs'
    BY <2>2 DEF Ledger!Begin
  <2>3. ASSUME NEW r \in RequestIds, NEW s \in Sessions, Ledger!Tell(r, s) PROVE LedgerPairs'
    BY <2>3 DEF Ledger!Tell
  <2>4. CASE UNCHANGED Ledger!ledger
    BY <2>4 DEF Ledger!ledger
  <2>. QED
    BY <2>1, <2>2, <2>3, <2>4 DEF Ledger!Next
<1>. QED
  BY <1>1, <1>2, PTL DEF Ledger!Spec

(* So whatever fails and is retried, a request id has one session and a    *)
(* session one request id; only such pairs are launched or told.           *)
THEOREM SessionsIdempotent == Spec => []Ledger!Idempotent
  BY ServiceImplementsLedger, LedgerIdempotent, PTL DEF ImplementsLedger

-----------------------------------------------------------------------------
(***************************************************************************)
(* The service implements BrowserLifecycle                                 *)
(***************************************************************************)

InStart == {sid[c] : c \in {d \in Calls : pc[d] = "connect"}}

InKill == {<<c, sid[c]>> : c \in {d \in Calls : pc[d] \in KillingPcs}}

HoldingPcs == {"connect"} \cup KillingPcs

LifecycleKept == [Lifecycle!Next]_(Lifecycle!lifecycle)

(* A step that neither takes a browser into a call's hands nor out of them *)
(* leaves the hands as they are.                                           *)
LEMMA HandsKept ==
  ASSUME Inv, Inv', NEW c \in Calls, Step(c) \/ Request(c),
         pc[c] \notin HoldingPcs, pc'[c] \notin HoldingPcs
  PROVE  InStart' = InStart /\ InKill' = InKill
<1>1. \A d \in Calls \ {c} : pc'[d] = pc[d] /\ sid'[d] = sid[d]
  BY OtherCalls DEF Inv
<1>. QED
  BY <1>1 DEF InStart, InKill, HoldingPcs

(* The steps that touch neither the map nor a browser.                     *)
LEMMA OthersHoldNothing ==
  ASSUME Inv, Inv', NEW c \in Calls, Step(c) \/ Request(c),
         ~Launch(c), ~Connect(c), ~StartFails(c), ~TakeEntry(c), ~Kill(c)
  PROVE  /\ pc[c] \notin HoldingPcs /\ pc'[c] \notin HoldingPcs
         /\ UNCHANGED browser
<1>. USE DEF HoldingPcs, Inv, TypeOK, calls
<1>1. CASE \E s \in Sessions : Create(c, s)
  BY <1>1 DEF Create, Reply
<1>2. CASE CreateFails(c)
  BY <1>2 DEF CreateFails, Reply
<1>3. CASE RecordRunning(c)
  BY <1>3 DEF RecordRunning, Update, UpdateFails, Told, Reply
<1>4. CASE RecordFailed(c)
  BY <1>4 DEF RecordFailed, Update, UpdateFails, Told, Reply
<1>5. CASE RecordStopping(c)
  BY <1>5 DEF RecordStopping, Update, UpdateFails, Goto, Reply
<1>6. CASE RecordEnd(c)
  BY <1>6 DEF RecordEnd, Update, UpdateFails, Reply
<1>7. CASE \E r \in RequestIds : StartLookup(c, r)
  BY <1>7 DEF StartLookup
<1>8. CASE \E r \in RequestIds, s \in Sessions : StartAgain(c, r, s)
  BY <1>8 DEF StartAgain, Told, Bound
<1>9. CASE \E s \in Sessions : StopBrowserSession(c, s)
  BY <1>9 DEF StopBrowserSession, ReadFor, Known
<1>10. CASE \E s \in Sessions : GetLapsedSession(c, s)
  BY <1>10 DEF GetLapsedSession, ReadFor, Known
<1>. QED
  BY <1>1, <1>2, <1>3, <1>4, <1>5, <1>6, <1>7, <1>8, <1>9, <1>10 DEF Step, Request

(* The start of a session is one call, which finds it not yet begun.       *)
LEMMA StartLives ==
  ASSUME Inv, Inv', NEW c \in Calls, Launch(c) \/ Connect(c) \/ StartFails(c)
  PROVE  LifecycleKept
<1>. PICK s \in Sessions : s = sid[c]
  BY DEF Launch, Connect, StartFails, Inv, CallOwns, WorkPcs
<1>1. /\ sid' = sid
      /\ \A d \in Calls \ {c} : pc'[d] = pc[d]
      /\ pc[c] \notin KillingPcs /\ pc'[c] \notin KillingPcs
  BY DEF Launch, Connect, StartFails, Goto, Inv, TypeOK, CallOwns, WorkPcs
<1>2. InKill' = InKill
  BY <1>1 DEF InKill
<1>3. CASE Launch(c)
  <2>1. InStart' = InStart \cup {s}
    BY <1>1, <1>3 DEF InStart, Launch, Goto, Inv, TypeOK
  <2>2. s \notin launched
    BY <1>3 DEF Launch, Inv, OneStart
  <2>3. Lifecycle!Begin(s)
    BY <1>2, <1>3, <2>1, <2>2 DEF Lifecycle!Begin, InStart, InKill, Launch
  <2>. QED
    BY <1>1, <2>3 DEF LifecycleKept, Lifecycle!Next
<1>4. CASE pc[c] = "connect"
  <2>1. \A d \in Calls \ {c} : pc[d] = "connect" => sid[d] # s
    BY <1>4 DEF Inv, OneStart, StartPcs
  <2>2. pc'[c] # "connect"
    BY <1>4 DEF Launch, Connect, StartFails, Goto, Inv, TypeOK
  <2>3. s \in InStart /\ InStart' = InStart \ {s}
    BY <1>1, <1>4, <2>1, <2>2 DEF InStart
  <2>4. s \notin entry
    BY <1>4 DEF Inv, Holding
  <2>5. CASE Connect(c)
    <3>1. \A t \in entry : [u \in Sessions |-> u][t] # [u \in Sessions |-> u][s]
      BY <1>1, <2>4 DEF Inv, TypeOK
    <3>2. Lifecycle!Register(s)
      BY <1>2, <2>3, <2>5, <3>1 DEF Lifecycle!Register, InStart, InKill, Connect
    <3>. QED
      BY <1>1, <3>2 DEF LifecycleKept, Lifecycle!Next
  <2>6. CASE StartFails(c)
    <3>1. Lifecycle!Discard(s)
      BY <1>2, <2>3, <2>6
      DEF Lifecycle!Discard, Lifecycle!LetGo, InStart, InKill, StartFails, Gone, Outlives
    <3>. QED
      BY <1>1, <3>1 DEF LifecycleKept, Lifecycle!Next
  <2>. QED
    BY <1>4, <2>5, <2>6 DEF Launch
<1>5. CASE StartFails(c) /\ pc[c] = "launch"
  <2>1. InStart' = InStart
    BY <1>1, <1>5 DEF InStart, StartFails, Goto, Inv, TypeOK
  <2>2. CASE Gone(s)
    <3>1. Lifecycle!Exit(s)
      BY <1>2, <1>5, <2>1, <2>2 DEF Lifecycle!Exit, InStart, InKill, StartFails, Gone
    <3>. QED
      BY <1>1, <3>1 DEF LifecycleKept, Lifecycle!Next
  <2>3. CASE Outlives(s)
    <3>1. s \in orphans
      BY <1>5, <2>3 DEF Outlives, Inv, BrowserOwned, Holding, OneStart, StartPcs
    <3>2. orphans' = orphans /\ alive' = alive
      BY <2>3, <3>1 DEF Outlives
    <3>. QED
      BY <1>2, <1>5, <2>1, <3>2
      DEF LifecycleKept, Lifecycle!lifecycle, InStart, InKill, StartFails
  <2>. QED
    BY <1>5, <2>2, <2>3 DEF StartFails
<1>. QED
  BY <1>3, <1>4, <1>5 DEF Connect, StartFails

(* A browser goes from the map to the one call that takes it.              *)
LEMMA StopLives ==
  ASSUME Inv, Inv', NEW c \in Calls, TakeEntry(c) \/ Kill(c)
  PROVE  LifecycleKept
<1>. PICK s \in Sessions : s = sid[c]
  BY DEF TakeEntry, Take, Kill, Inv, CallOwns, WorkPcs
<1>1. /\ sid' = sid
      /\ \A d \in Calls \ {c} : pc'[d] = pc[d]
      /\ pc[c] # "connect" /\ pc'[c] # "connect"
  BY DEF TakeEntry, Take, Kill, Goto, Inv, TypeOK, CallOwns, WorkPcs
<1>2. InStart' = InStart
  BY <1>1 DEF InStart
<1>3. CASE TakeEntry(c) /\ s \in entry
  <2>1. pc[c] \notin KillingPcs /\ pc'[c] \in KillingPcs
    BY <1>3 DEF TakeEntry, Take, Goto, Inv, TypeOK
  <2>2. InKill' = InKill \cup {<<c, s>>}
    BY <1>1, <2>1 DEF InKill
  <2>3. Lifecycle!Take(c, s)
    BY <1>2, <1>3, <2>2 DEF Lifecycle!Take, InStart, InKill, TakeEntry, Take
  <2>. QED
    BY <1>1, <2>3 DEF LifecycleKept, Lifecycle!Next
<1>4. CASE TakeEntry(c) /\ s \notin entry
  <2>1. pc[c] \notin KillingPcs /\ pc'[c] \notin KillingPcs
    BY <1>4 DEF TakeEntry, Take, Goto, Inv, TypeOK
  <2>2. InKill' = InKill
    BY <1>1, <2>1 DEF InKill
  <2>3. entry' = entry
    BY <1>4 DEF TakeEntry, Take
  <2>. QED
    BY <1>2, <1>4, <2>2, <2>3
    DEF LifecycleKept, Lifecycle!lifecycle, InStart, InKill, TakeEntry, Take
<1>5. CASE Kill(c)
  <2>1. pc[c] \in KillingPcs /\ pc'[c] \notin KillingPcs
    BY <1>5 DEF Kill, Goto, Inv, TypeOK
  <2>2. <<c, s>> \in InKill /\ InKill' = InKill \ {<<c, s>>}
    BY <1>1, <2>1 DEF InKill
  <2>3. Lifecycle!End(c, s)
    BY <1>2, <1>5, <2>2
    DEF Lifecycle!End, Lifecycle!LetGo, InStart, InKill, Kill, Gone, Outlives
  <2>. QED
    BY <1>1, <2>3 DEF LifecycleKept, Lifecycle!Next
<1>. QED
  BY <1>3, <1>4, <1>5

LEMMA LifecycleStep == Inv /\ Inv' /\ [Next]_vars => LifecycleKept
<1>. SUFFICES ASSUME Inv, Inv', [Next]_vars PROVE LifecycleKept
  OBVIOUS
<1>1. ASSUME NEW c \in Calls, Step(c) \/ Request(c) PROVE LifecycleKept
  <2>1. CASE Launch(c) \/ Connect(c) \/ StartFails(c)
    BY <2>1, StartLives
  <2>2. CASE TakeEntry(c) \/ Kill(c)
    BY <2>2, StopLives
  <2>3. CASE ~(Launch(c) \/ Connect(c) \/ StartFails(c) \/ TakeEntry(c) \/ Kill(c))
    <3>1. UNCHANGED browser /\ InStart' = InStart /\ InKill' = InKill
      BY <1>1, <2>3, OthersHoldNothing, HandsKept
    <3>. QED
      BY <3>1 DEF LifecycleKept, Lifecycle!lifecycle, InStart, InKill, browser
  <2>. QED
    BY <2>1, <2>2, <2>3
<1>2. CASE Crash
  <2>1. InStart' = {} /\ InKill' = {}
    BY <1>2 DEF Crash, InStart, InKill
  <2>2. Lifecycle!Die
    BY <1>2, <2>1 DEF Crash, Lifecycle!Die, InStart, InKill
  <2>. QED
    BY <2>2 DEF LifecycleKept, Lifecycle!Next
<1>3. CASE (\E s \in Sessions : Lapse(s)) \/ UNCHANGED vars
  BY <1>3 DEF Lapse, vars, calls, browser, LifecycleKept, Lifecycle!lifecycle
<1>. QED
  BY <1>1, <1>2, <1>3 DEF Next

(* The browser of a session is launched once and ended once, by its start  *)
(* or by the one Stop or expiry that took it out of the map.               *)
THEOREM ServiceImplementsLifecycle == Spec => ImplementsLifecycle
<1>1. Init => Lifecycle!Init
  BY DEF Init, Lifecycle!Init
<1>. QED
  BY <1>1, LifecycleStep, InvHolds, PTL
  DEF Spec, ImplementsLifecycle, Lifecycle!Spec, LifecycleKept
=============================================================================
