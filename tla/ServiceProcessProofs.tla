------------------------ MODULE ServiceProcessProofs ------------------------
(***************************************************************************)
(* Proofs about TaskService, for any number of calls, tasks, request ids,  *)
(* faults and crashes; then about ServiceProcess: the calls keep their     *)
(* invariant when the process that runs them starts, drains, stops and     *)
(* dies around them, and shutdown treats them as it should.                *)
(***************************************************************************)
EXTENDS ServiceProcess, TLAPS

-----------------------------------------------------------------------------
(***************************************************************************)
(* The invariant of the task calls                                         *)
(***************************************************************************)

ExecutingPcs == {"execute", "run", "record_succeeded", "record_failed"}

WorkPcs == ExecutingPcs \cup {"enqueue"}

(* No two rows carry the same request id. *)
UniqueRequests ==
    \A t, u \in Tasks : Stored(t) /\ Stored(u) /\ row[t].req = row[u].req => t = u

(* What a call knows of the row of its task: nobody else writes it.        *)
CallOwns(c) ==
    /\ pc[c] # "idle" => req[c] \in RequestIds
    /\ pc[c] \notin WorkPcs => task[c] = None
    /\ pc[c] \in WorkPcs => task[c] \in Tasks /\ row[task[c]].req = req[c]
    /\ pc[c] = "enqueue" => row[task[c]].status = "QUEUED"
    /\ pc[c] \in ExecutingPcs => row[task[c]].status = "RUNNING"
    /\ pc[c] = "execute" => task[c] \notin executed

(* A task is worked on by one call. *)
OneCall == \A c, d \in Calls : task[c] # None /\ task[c] = task[d] => c = d

(* What was executed or told is stored, under the request id it has.       *)
RowsTold ==
    /\ \A t \in Tasks : Stored(t) => row[t].req \in RequestIds
    /\ \A t \in executed : Stored(t)
    /\ \A p \in answered : Stored(p[2]) /\ row[p[2]].req = p[1]

Inv ==
    /\ TypeOK
    /\ UniqueRequests
    /\ \A c \in Calls : CallOwns(c)
    /\ OneCall
    /\ RowsTold
    /\ ToldSuccessIsStored
    /\ RunningIsExecuting

USE DEF PCs, TaskStatuses, FinalTask, Operations, FirstStatus, CheckPc, CreatePc,
        AfterPc, Stored, Absent, calls, history

-----------------------------------------------------------------------------
(* The session is what it was, but for one part. *)
LEMMA PartCloses ==
  ASSUME NEW up \in [running : BOOLEAN, mapped : BOOLEAN], NEW part \in {"running", "mapped"}
  PROVE  [up EXCEPT ![part] = FALSE] \in [running : BOOLEAN, mapped : BOOLEAN]
<1>1. CASE part = "running"
  BY <1>1
<1>2. CASE part = "mapped"
  BY <1>2
<1>. QED
  BY <1>1, <1>2

LEMMA InvInit == Init => Inv
  BY NoneAssumption, BoundsAssumption
  DEF Init, Inv, TypeOK, UniqueRequests, CallOwns, ExecutingPcs, WorkPcs, OneCall,
      RowsTold, ToldSuccessIsStored, RunningIsExecuting

(* Steps that write no row, or begin the work on none.                     *)
LEMMA RequestKeeps ==
  ASSUME Inv, NEW c \in Calls, Request(c)
  PROVE  Inv'
<1>. USE NoneAssumption, BoundsAssumption
     DEF Inv, TypeOK, UniqueRequests, CallOwns, ExecutingPcs, WorkPcs, OneCall,
         RowsTold, ToldSuccessIsStored, RunningIsExecuting
<1>1. ASSUME NEW r \in RequestIds, NEW op \in Operations, TaskLookup(c, r, op)
      PROVE  Inv'
  BY <1>1 DEF TaskLookup
<1>2. ASSUME NEW r \in RequestIds, NEW t \in Tasks, TaskAgain(c, r, t)
      PROVE  Inv'
  BY <1>2 DEF TaskAgain, Bound, Told
<1>. QED
  BY <1>1, <1>2 DEF Request

LEMMA CheckKeeps ==
  ASSUME Inv, NEW c \in Calls, NEW op \in Operations,
         CheckSession(c, op) \/ CreateTaskFails(c, op)
  PROVE  Inv'
<1>. USE NoneAssumption, BoundsAssumption
     DEF Inv, TypeOK, UniqueRequests, CallOwns, ExecutingPcs, WorkPcs, OneCall,
         RowsTold, ToldSuccessIsStored, RunningIsExecuting
<1>1. CASE CheckSession(c, op)
  <2>. USE <1>1 DEF CheckSession, Goto, Reply
  <2>1. TypeOK'
    <3>1. row' \in [Tasks -> [status : TaskStatuses \cup {"ABSENT"}, req : RequestIds \cup {None}]]
      OBVIOUS
    <3>2. /\ pc' \in [Calls -> PCs] /\ req' \in [Calls -> RequestIds \cup {None}]
          /\ task' \in [Calls -> Tasks \cup {None}] /\ cancelled' \subseteq Calls
      <4>1. CreatePc[op] \in PCs /\ "idle" \in PCs
        OBVIOUS
      <4>2. CASE Goto(c, CreatePc[op])
        BY <4>1, <4>2 DEF Goto
      <4>3. CASE Reply(c)
        BY <4>1, <4>3 DEF Reply
      <4>. QED
        BY <4>2, <4>3
    <3>3. faults' \in 0..MaxFaults
      OBVIOUS
    <3>. QED
      BY <3>1, <3>2, <3>3
  <2>2. (\A d \in Calls : CallOwns(d))'
    BY DEF CheckPc, CreatePc, Operations
  <2>3. UniqueRequests' /\ OneCall' /\ RowsTold' /\ ToldSuccessIsStored' /\ RunningIsExecuting'
    BY DEF CheckPc, Operations
  <2>. QED
    BY <2>1, <2>2, <2>3
<1>2. CASE CreateTaskFails(c, op)
  BY <1>2 DEF CreateTaskFails, Reply
<1>. QED
  BY <1>1, <1>2

LEMMA CreateKeeps ==
  ASSUME Inv, NEW c \in Calls, NEW op \in Operations, NEW t \in Tasks, CreateTask(c, t, op)
  PROVE  Inv'
<1>. USE NoneAssumption, BoundsAssumption
     DEF Inv, TypeOK, UniqueRequests, CallOwns, ExecutingPcs, WorkPcs, OneCall,
         RowsTold, ToldSuccessIsStored, RunningIsExecuting
<1>1. TypeOK'
  <2>1. row' \in [Tasks -> [status : TaskStatuses \cup {"ABSENT"}, req : RequestIds \cup {None}]]
    BY DEF CreateTask
  <2>2. /\ pc' \in [Calls -> PCs] /\ req' \in [Calls -> RequestIds \cup {None}]
        /\ task' \in [Calls -> Tasks \cup {None}] /\ cancelled' \subseteq Calls
    <3>1. CASE pc' = [pc EXCEPT ![c] = AfterPc[op]] /\ task' = [task EXCEPT ![c] = t]
                 /\ UNCHANGED <<req, cancelled>>
      BY <3>1
    <3>2. CASE Reply(c)
      BY <3>2 DEF Reply
    <3>. QED
      BY <3>1, <3>2 DEF CreateTask
  <2>3. faults' \in 0..MaxFaults /\ cut' \subseteq Tasks
    BY DEF CreateTask
  <2>. QED
    BY <2>1, <2>2, <2>3 DEF CreateTask
<1>2. UniqueRequests'
  BY DEF CreateTask, Reply, Bound
<1>3. (\A d \in Calls : CallOwns(d))'
  BY DEF CreateTask, Reply, Bound
<1>4. OneCall'
  BY DEF CreateTask, Reply, Bound
<1>5. RowsTold'
  BY DEF CreateTask, Reply, Bound
<1>6. ToldSuccessIsStored'
  BY DEF CreateTask, Reply, Bound
<1>7. RunningIsExecuting'
  BY DEF CreateTask, Reply, Bound
<1>. QED
  BY <1>1, <1>2, <1>3, <1>4, <1>5, <1>6, <1>7

LEMMA ExecuteKeeps ==
  ASSUME Inv, NEW c \in Calls, EnqueueTask(c) \/ ExecuteTask(c) \/ RunEnds(c)
  PROVE  Inv'
<1>. USE NoneAssumption, BoundsAssumption
     DEF Inv, TypeOK, UniqueRequests, CallOwns, ExecutingPcs, WorkPcs, OneCall,
         RowsTold, ToldSuccessIsStored, RunningIsExecuting
<1>1. CASE EnqueueTask(c)
  BY <1>1 DEF EnqueueTask, Told, Reply
<1>2. CASE ExecuteTask(c)
  <2>0. pc[c] = "execute" /\ task[c] \in Tasks
    <3>1. pc[c] = "execute"
      BY <1>2 DEF ExecuteTask
    <3>2. CallOwns(c)
      OBVIOUS
    <3>. QED
      BY <3>1, <3>2
  <2>1. TypeOK'
    <3>. HIDE DEF UniqueRequests, CallOwns, OneCall, RowsTold, ToldSuccessIsStored,
                  RunningIsExecuting
    <3>1. pc' \in [Calls -> PCs]
      BY <1>2 DEF ExecuteTask, Goto
    <3>2. executed' \subseteq Tasks
      BY <1>2, <2>0 DEF ExecuteTask
    <3>. QED
      BY <1>2, <3>1, <3>2 DEF ExecuteTask, Goto
  <2>2. UniqueRequests'
    BY <1>2 DEF ExecuteTask, Goto
  <2>3. (\A d \in Calls : CallOwns(d))'
    BY <1>2 DEF ExecuteTask, Goto
  <2>4. OneCall'
    BY <1>2 DEF ExecuteTask, Goto
  <2>5. RowsTold'
    BY <1>2 DEF ExecuteTask, Goto
  <2>6. ToldSuccessIsStored'
    BY <1>2 DEF ExecuteTask, Goto
  <2>7. RunningIsExecuting'
    BY <1>2 DEF ExecuteTask, Goto
  <2>. QED
    BY <2>1, <2>2, <2>3, <2>4, <2>5, <2>6, <2>7
<1>3. CASE RunEnds(c)
  <2>1. TypeOK'
    <3>. HIDE DEF UniqueRequests, CallOwns, OneCall, RowsTold, ToldSuccessIsStored,
                  RunningIsExecuting
    <3>1. pc' \in [Calls -> PCs]
      BY <1>3 DEF RunEnds, Goto
    <3>. QED
      BY <1>3, <3>1 DEF RunEnds, Goto
  <2>2. UniqueRequests'
    BY <1>3 DEF RunEnds, Goto
  <2>3. (\A d \in Calls : CallOwns(d))'
    BY <1>3 DEF RunEnds, Goto
  <2>4. OneCall'
    BY <1>3 DEF RunEnds, Goto
  <2>5. RowsTold'
    BY <1>3 DEF RunEnds, Goto
  <2>6. ToldSuccessIsStored'
    BY <1>3 DEF RunEnds, Goto
  <2>7. RunningIsExecuting'
    BY <1>3 DEF RunEnds, Goto
  <2>. QED
    BY <2>1, <2>2, <2>3, <2>4, <2>5, <2>6, <2>7
<1>. QED
  BY <1>1, <1>2, <1>3

LEMMA RecordKeeps ==
  ASSUME Inv, NEW c \in Calls, RecordSucceeded(c) \/ RecordFailed(c)
  PROVE  Inv'
<1>. USE NoneAssumption, BoundsAssumption
     DEF Inv, TypeOK, UniqueRequests, CallOwns, ExecutingPcs, WorkPcs, OneCall,
         RowsTold, ToldSuccessIsStored, RunningIsExecuting
<1>1. CASE RecordSucceeded(c)
  <2>1. TypeOK'
    <3>1. row' \in [Tasks -> [status : TaskStatuses \cup {"ABSENT"}, req : RequestIds \cup {None}]]
      <4>1. row' = row \/ row' = [row EXCEPT ![task[c]].status = "SUCCEEDED"]
        BY <1>1 DEF RecordSucceeded, Update, UpdateFails
      <4>. QED
        BY <4>1
    <3>2. /\ pc' \in [Calls -> PCs] /\ req' \in [Calls -> RequestIds \cup {None}]
          /\ task' \in [Calls -> Tasks \cup {None}] /\ cancelled' \subseteq Calls
      BY <1>1 DEF RecordSucceeded, Reply
    <3>3. faults' \in 0..MaxFaults /\ cut' \subseteq Tasks
      BY <1>1 DEF RecordSucceeded, Update, UpdateFails
    <3>4. answered' \subseteq RequestIds \X Tasks /\ succeeded' \subseteq Tasks
      BY <1>1 DEF RecordSucceeded, Told
    <3>. QED
      BY <1>1, <3>1, <3>2, <3>3, <3>4 DEF RecordSucceeded
  <2>2. UniqueRequests'
    BY <1>1 DEF RecordSucceeded, Update, UpdateFails, Told, Reply
  <2>3. (\A d \in Calls : CallOwns(d))'
    BY <1>1 DEF RecordSucceeded, Update, UpdateFails, Told, Reply
  <2>4. OneCall'
    BY <1>1 DEF RecordSucceeded, Update, UpdateFails, Told, Reply
  <2>5. RowsTold'
    <3>1. \A t \in Tasks : row'[t].req = row[t].req /\ (Stored(t)' <=> Stored(t))
      BY <1>1 DEF RecordSucceeded, Update, UpdateFails
    <3>2. answered' \subseteq answered \cup {<<req[c], task[c]>>} /\ executed' = executed
      BY <1>1 DEF RecordSucceeded, Told
    <3>3. task[c] \in Tasks /\ Stored(task[c]) /\ row[task[c]].req = req[c]
      BY <1>1 DEF RecordSucceeded
    <3>4. \A q \in answered : q[2] \in Tasks
      OBVIOUS
    <3>5. \A t \in Tasks : Stored(t)' => row'[t].req \in RequestIds
      BY <3>1
    <3>6. \A t \in executed' : Stored(t)'
      BY <3>1, <3>2
    <3>7. \A q \in answered' : Stored(q[2])' /\ row'[q[2]].req = q[1]
      BY <3>1, <3>2, <3>3, <3>4
    <3>. QED
      BY <3>5, <3>6, <3>7
  <2>6. ToldSuccessIsStored'
    BY <1>1 DEF RecordSucceeded, Update, UpdateFails, Told, Reply
  <2>7. RunningIsExecuting'
    BY <1>1 DEF RecordSucceeded, Update, UpdateFails, Told, Reply
  <2>. QED
    BY <2>1, <2>2, <2>3, <2>4, <2>5, <2>6, <2>7
<1>2. CASE RecordFailed(c)
  <2>1. TypeOK'
    BY <1>2 DEF RecordFailed, Update, UpdateFails, Told, Reply
  <2>2. UniqueRequests'
    BY <1>2 DEF RecordFailed, Update, UpdateFails, Told, Reply
  <2>3. (\A d \in Calls : CallOwns(d))'
    BY <1>2 DEF RecordFailed, Update, UpdateFails, Told, Reply
  <2>4. OneCall'
    BY <1>2 DEF RecordFailed, Update, UpdateFails, Told, Reply
  <2>5. RowsTold'
    <3>1. \A t \in Tasks : row'[t].req = row[t].req /\ (Stored(t)' <=> Stored(t))
      BY <1>2 DEF RecordFailed, Update, UpdateFails
    <3>2. answered' \subseteq answered \cup {<<req[c], task[c]>>} /\ executed' = executed
      BY <1>2 DEF RecordFailed, Told
    <3>3. task[c] \in Tasks /\ Stored(task[c]) /\ row[task[c]].req = req[c]
      BY <1>2 DEF RecordFailed
    <3>4. \A q \in answered : q[2] \in Tasks
      OBVIOUS
    <3>5. \A t \in Tasks : Stored(t)' => row'[t].req \in RequestIds
      BY <3>1
    <3>6. \A t \in executed' : Stored(t)'
      BY <3>1, <3>2
    <3>7. \A q \in answered' : Stored(q[2])' /\ row'[q[2]].req = q[1]
      BY <3>1, <3>2, <3>3, <3>4
    <3>. QED
      BY <3>5, <3>6, <3>7
  <2>6. ToldSuccessIsStored'
    BY <1>2 DEF RecordFailed, Update, UpdateFails, Told, Reply
  <2>7. RunningIsExecuting'
    BY <1>2 DEF RecordFailed, Update, UpdateFails, Told, Reply
  <2>. QED
    BY <2>1, <2>2, <2>3, <2>4, <2>5, <2>6, <2>7
<1>. QED
  BY <1>1, <1>2

LEMMA EnvironmentKeeps ==
  ASSUME Inv, (\E c \in Calls : Cancel(c)) \/ SessionCloses \/ CrashService \/ UNCHANGED vars
  PROVE  Inv'
<1>. USE NoneAssumption, BoundsAssumption
     DEF Inv, TypeOK, UniqueRequests, CallOwns, ExecutingPcs, WorkPcs, OneCall,
         RowsTold, ToldSuccessIsStored, RunningIsExecuting
<1>1. CASE \E c \in Calls : Cancel(c)
  BY <1>1 DEF Cancel
<1>2. CASE SessionCloses
  <2>1. TypeOK'
    <3>. HIDE DEF UniqueRequests, CallOwns, OneCall, RowsTold, ToldSuccessIsStored,
                  RunningIsExecuting
    <3>2. sessionUp' \in [running : BOOLEAN, mapped : BOOLEAN]
      BY <1>2, PartCloses DEF SessionCloses
    <3>. QED
      BY <1>2, <3>2 DEF SessionCloses
  <2>2. UniqueRequests'
    BY <1>2 DEF SessionCloses
  <2>3. (\A d \in Calls : CallOwns(d))'
    BY <1>2 DEF SessionCloses
  <2>4. OneCall'
    BY <1>2 DEF SessionCloses
  <2>5. RowsTold'
    BY <1>2 DEF SessionCloses
  <2>6. ToldSuccessIsStored'
    BY <1>2 DEF SessionCloses
  <2>7. RunningIsExecuting'
    BY <1>2 DEF SessionCloses
  <2>. QED
    BY <2>1, <2>2, <2>3, <2>4, <2>5, <2>6, <2>7
<1>3. CASE CrashService
  <2>1. TypeOK'
    <3>1. sessionUp' \in [running : BOOLEAN, mapped : BOOLEAN]
      BY <1>3 DEF CrashService
    <3>. QED
      BY <1>3, <3>1 DEF CrashService
  <2>2. UniqueRequests'
    BY <1>3 DEF CrashService
  <2>3. (\A d \in Calls : CallOwns(d))'
    BY <1>3 DEF CrashService
  <2>4. OneCall'
    BY <1>3 DEF CrashService
  <2>5. RowsTold'
    BY <1>3 DEF CrashService
  <2>6. ToldSuccessIsStored'
    BY <1>3 DEF CrashService
  <2>7. RunningIsExecuting'
    BY <1>3 DEF CrashService
  <2>. QED
    BY <2>1, <2>2, <2>3, <2>4, <2>5, <2>6, <2>7
<1>4. CASE UNCHANGED vars
  BY <1>4 DEF vars
<1>. QED
  BY <1>1, <1>2, <1>3, <1>4

LEMMA InvNext == Inv /\ [Next]_vars => Inv'
<1>. SUFFICES ASSUME Inv, [Next]_vars PROVE Inv'
  OBVIOUS
<1>1. ASSUME NEW c \in Calls, Step(c) \/ Request(c) PROVE Inv'
  BY <1>1, RequestKeeps, CheckKeeps, CreateKeeps, ExecuteKeeps, RecordKeeps DEF Step
<1>. QED
  BY <1>1, EnvironmentKeeps DEF Next

-----------------------------------------------------------------------------
(* The invariant holds in every reachable state. *)
THEOREM InvHolds == Spec => []Inv
  BY InvInit, InvNext, PTL DEF Spec

(* Rows, calls and histories keep their types. *)
THEOREM TypeCorrect == Spec => []TypeOK
  BY InvHolds, PTL DEF Inv

(* What a client was told has SUCCEEDED is SUCCEEDED in the store, whatever*)
(* fails and whoever retries (ExecuteBrowserCommands, line 244).           *)
THEOREM ToldIsStored == Spec => []ToldSuccessIsStored
  BY InvHolds, PTL DEF Inv

(* A task that is RUNNING is being executed, or its call was cut off.      *)
THEOREM RunningExecutes == Spec => []RunningIsExecuting
  BY InvHolds, PTL DEF Inv

(* A step of a call writes to no row that is finished: it creates a row,   *)
(* or ends the RUNNING task that is its own.                               *)
LEMMA FinishedStep ==
  ASSUME Inv, NEW t \in Tasks, row[t].status \in FinalTask, [Next]_vars
  PROVE  row'[t] = row[t]
<1>. USE DEF Inv, TypeOK, CallOwns, ExecutingPcs, WorkPcs
<1>1. ASSUME NEW c \in Calls, Request(c) PROVE row' = row
  BY <1>1 DEF Request, TaskLookup, TaskAgain
<1>2. ASSUME NEW c \in Calls, NEW op \in Operations,
             CheckSession(c, op) \/ CreateTaskFails(c, op)
      PROVE  row' = row
  BY <1>2 DEF CheckSession, CreateTaskFails
<1>3. ASSUME NEW c \in Calls, NEW op \in Operations, NEW u \in Tasks, CreateTask(c, u, op)
      PROVE  row'[t] = row[t]
  BY <1>3 DEF CreateTask
<1>4. ASSUME NEW c \in Calls, EnqueueTask(c) \/ ExecuteTask(c) \/ RunEnds(c)
      PROVE  row' = row
  BY <1>4 DEF EnqueueTask, ExecuteTask, RunEnds
<1>5. ASSUME NEW c \in Calls, RecordSucceeded(c) \/ RecordFailed(c)
      PROVE  row'[t] = row[t]
  <2>1. task[c] # t
    BY <1>5 DEF RecordSucceeded, RecordFailed
  <2>. QED
    BY <1>5, <2>1 DEF RecordSucceeded, RecordFailed, Update, UpdateFails
<1>6. CASE (\E c \in Calls : Cancel(c)) \/ SessionCloses \/ CrashService \/ UNCHANGED vars
  BY <1>6 DEF Cancel, SessionCloses, CrashService, vars
<1>. QED
  BY <1>1, <1>2, <1>3, <1>4, <1>5, <1>6 DEF Next, Step

(* A finished task never changes again.                                    *)
THEOREM FinishedForever == Spec => FinishedStays
<1>1. Inv /\ [Next]_vars =>
        [\A t \in Tasks : row[t].status \in FinalTask => row'[t] = row[t]]_vars
  BY FinishedStep
<1>. QED
  BY <1>1, InvHolds, PTL DEF Spec, FinishedStays

-----------------------------------------------------------------------------
(***************************************************************************)
(* The service implements RequestLedger                                    *)
(***************************************************************************)

Bindings == {Pair(t) : t \in {u \in Tasks : Stored(u)}}

Executions == {Pair(t) : t \in executed}

(* What a step that neither inserts a row nor hands a task to the worker   *)
(* can do to rows and answers.                                             *)
LEMMA OtherSteps ==
  ASSUME Inv, NEW c \in Calls, Step(c) \/ Request(c),
         ~ \E op \in Operations, t \in Tasks : CreateTask(c, t, op),
         ~ ExecuteTask(c)
  PROVE  /\ \A t \in Tasks : row'[t].req = row[t].req /\ (Stored(t)' <=> Stored(t))
         /\ executed' = executed
         /\ answered' = answered \/ \E r \in RequestIds, t \in Tasks : Told(r, t)
<1>. USE DEF Inv, TypeOK, CallOwns, ExecutingPcs, WorkPcs
<1>1. ASSUME NEW r \in RequestIds, NEW op \in Operations, TaskLookup(c, r, op)
      PROVE  row' = row /\ executed' = executed /\ answered' = answered
  BY <1>1 DEF TaskLookup
<1>2. ASSUME NEW r \in RequestIds, NEW t \in Tasks, TaskAgain(c, r, t)
      PROVE  row' = row /\ executed' = executed /\ Told(r, t)
  BY <1>2 DEF TaskAgain
<1>3. ASSUME NEW op \in Operations, CheckSession(c, op) \/ CreateTaskFails(c, op)
      PROVE  row' = row /\ executed' = executed /\ answered' = answered
  BY <1>3 DEF CheckSession, CreateTaskFails
<1>4. CASE EnqueueTask(c) \/ RunEnds(c)
  BY <1>4 DEF EnqueueTask, RunEnds
<1>5. CASE RecordSucceeded(c) \/ RecordFailed(c)
  <2>1. \A t \in Tasks : row'[t].req = row[t].req /\ (Stored(t)' <=> Stored(t))
    BY <1>5 DEF RecordSucceeded, RecordFailed, Update, UpdateFails
  <2>2. req[c] \in RequestIds /\ task[c] \in Tasks
    BY <1>5 DEF RecordSucceeded, RecordFailed
  <2>3. executed' = executed /\ (answered' = answered \/ Told(req[c], task[c]))
    BY <1>5 DEF RecordSucceeded, RecordFailed
  <2>. QED
    BY <2>1, <2>2, <2>3
<1>. QED
  BY <1>1, <1>2, <1>3, <1>4, <1>5 DEF Step, Request

LEMMA InsertBinds ==
  ASSUME Inv, Inv', NEW c \in Calls, NEW op \in Operations, NEW t \in Tasks, CreateTask(c, t, op)
  PROVE  Ledger!Bind(req[c], t)
<1>1. Pair(t)' = <<req[c], t>> /\ Stored(t)' /\ ~Stored(t)
  BY DEF CreateTask, Pair, Inv, TypeOK
<1>2. \A u \in Tasks \ {t} : Pair(u)' = Pair(u) /\ (Stored(u)' <=> Stored(u))
  BY DEF CreateTask, Pair, Inv, TypeOK
<1>3. Bindings' = Bindings \cup {<<req[c], t>>}
  BY <1>1, <1>2 DEF Bindings
<1>4. \A p \in Bindings : p[1] # req[c] /\ p[2] # t
  BY <1>1 DEF Bindings, Pair, CreateTask, Bound
<1>5. executed' = executed /\ answered' = answered
  BY DEF CreateTask
<1>6. Executions' = Executions
  BY <1>1, <1>2, <1>5 DEF Executions, Inv, TypeOK, RowsTold
<1>. QED
  BY <1>3, <1>4, <1>5, <1>6 DEF Ledger!Bind, Bindings, Executions

LEMMA ExecuteBegins ==
  ASSUME Inv, Inv', NEW c \in Calls, ExecuteTask(c)
  PROVE  Ledger!Begin(req[c], task[c]) \/ UNCHANGED Ledger!ledger
<1>1. /\ task[c] \in Tasks /\ Stored(task[c]) /\ Pair(task[c]) = <<req[c], task[c]>>
      /\ task[c] \notin executed
  BY DEF ExecuteTask, Inv, CallOwns, ExecutingPcs, WorkPcs, Pair
<1>2. \A t \in Tasks : Pair(t)' = Pair(t) /\ (Stored(t)' <=> Stored(t))
  BY DEF ExecuteTask, Pair
<1>3. Bindings' = Bindings /\ answered' = answered
  BY <1>2 DEF Bindings, ExecuteTask
<1>4. CASE executed' = executed \cup {task[c]}
  <2>1. Executions' = Executions \cup {<<req[c], task[c]>>}
    BY <1>1, <1>2, <1>4 DEF Executions, Inv, TypeOK
  <2>2. <<req[c], task[c]>> \in Bindings
    BY <1>1 DEF Bindings
  <2>3. \A p \in Executions : p[1] # req[c]
    BY <1>1 DEF Executions, Pair, Inv, TypeOK, UniqueRequests, RowsTold
  <2>. QED
    BY <1>3, <2>1, <2>2, <2>3 DEF Ledger!Begin, Bindings, Executions
<1>5. CASE executed' = executed
  <2>1. Executions' = Executions
    BY <1>2, <1>5 DEF Executions, Inv, TypeOK
  <2>. QED
    BY <1>3, <2>1 DEF Ledger!ledger, Bindings, Executions
<1>. QED
  BY <1>4, <1>5 DEF ExecuteTask

(* An answer tells a pair that is bound; other steps change nothing.       *)
LEMMA AnswerTells ==
  ASSUME Inv, Inv', NEW c \in Calls, Step(c) \/ Request(c),
         ~ \E op \in Operations, t \in Tasks : CreateTask(c, t, op),
         ~ ExecuteTask(c)
  PROVE  [Ledger!Next]_(Ledger!ledger)
<1>1. \A t \in Tasks : Pair(t)' = Pair(t) /\ (Stored(t)' <=> Stored(t))
  BY OtherSteps DEF Pair
<1>2. Bindings' = Bindings /\ Executions' = Executions
  BY <1>1, OtherSteps DEF Bindings, Executions, Inv, TypeOK
<1>3. CASE answered' = answered
  BY <1>2, <1>3 DEF Ledger!ledger, Bindings, Executions
<1>4. ASSUME NEW r \in RequestIds, NEW t \in Tasks, Told(r, t)
      PROVE  Ledger!Tell(r, t)
  <2>1. <<r, t>> \in answered'
    BY <1>4 DEF Told
  <2>2. <<r, t>> \in Bindings'
    BY <2>1 DEF Bindings, Pair, Inv, RowsTold
  <2>. QED
    BY <1>2, <1>4, <2>2 DEF Ledger!Tell, Told, Bindings, Executions
<1>. QED
  BY <1>3, <1>4, OtherSteps DEF Ledger!Next

LEMMA LedgerStep == Inv /\ Inv' /\ [Next]_vars => [Ledger!Next]_(Ledger!ledger)
<1>. SUFFICES ASSUME Inv, Inv', [Next]_vars PROVE [Ledger!Next]_(Ledger!ledger)
  OBVIOUS
<1>1. ASSUME NEW c \in Calls, Step(c) \/ Request(c) PROVE [Ledger!Next]_(Ledger!ledger)
  <2>1. ASSUME NEW op \in Operations, NEW t \in Tasks, CreateTask(c, t, op)
        PROVE  [Ledger!Next]_(Ledger!ledger)
    <3>1. req[c] \in RequestIds
      BY <2>1 DEF CreateTask, Inv, CallOwns
    <3>. QED
      BY <2>1, <3>1, InsertBinds DEF Ledger!Next
  <2>2. CASE ExecuteTask(c)
    <3>1. req[c] \in RequestIds /\ task[c] \in Tasks
      BY <2>2 DEF ExecuteTask, Inv, CallOwns, ExecutingPcs, WorkPcs
    <3>. QED
      BY <2>2, <3>1, ExecuteBegins DEF Ledger!Next
  <2>. QED
    BY <1>1, <2>1, <2>2, AnswerTells
<1>2. CASE (\E c \in Calls : Cancel(c)) \/ SessionCloses \/ CrashService \/ UNCHANGED vars
  BY <1>2 DEF Cancel, SessionCloses, CrashService, vars, Ledger!ledger, Pair
<1>. QED
  BY <1>1, <1>2 DEF Next

LEMMA LedgerInit == Init => Ledger!Init
  BY DEF Init, Ledger!Init, Pair

(* Requests for tasks are idempotent, queued or executed: the task service *)
(* implements the request ledger, so a command list is handed to a worker  *)
(* at most once per request id (StartBrowserTask, ExecuteBrowserCommands). *)
THEOREM TaskServiceImplementsLedger == Spec => ImplementsLedger
  BY LedgerInit, LedgerStep, InvHolds, PTL DEF Spec, ImplementsLedger, Ledger!Spec

-----------------------------------------------------------------------------
(***************************************************************************)
(* The process around the calls                                            *)
(***************************************************************************)

(* Which state the server can be in, wherever run is.                      *)
Phases ==
    /\ main \in {"down", "connect", "migrate", "prepare"} => server = "off"
    /\ main = "select" => server = "on"
    /\ main = "grace" => server \in {"on", "graceful", "drained"}
    /\ main \in {"return", "exit"} => server # "graceful"

(* No call is left where there is no server, or one that has drained; those*)
(* of a server that was stopped have had their contexts cancelled.         *)
CallsLeft ==
    /\ server \in {"off", "drained"} => InFlight = {}
    /\ server = "stopped" => InFlight \subseteq cancelled

ProcessInv ==
    /\ Inv
    /\ ProcessTypeOK
    /\ Phases
    /\ CallsLeft

-----------------------------------------------------------------------------
(***************************************************************************)
(* The calls keep their invariant beside the process                       *)
(***************************************************************************)

LEMMA CancelsKeep ==
  ASSUME Inv, cancelled' = cancelled \cup InFlight,
         UNCHANGED <<row, pc, req, task, sessionUp, history, faults, crashes>>
  PROVE  Inv'
  BY DEF Inv, TypeOK, UniqueRequests, CallOwns, OneCall, RowsTold,
         ToldSuccessIsStored, RunningIsExecuting, InFlight, Stored, history

LEMMA VanishKeeps ==
  ASSUME Inv, CallsVanish
  PROVE  Inv'
<1>. USE NoneAssumption
     DEF Inv, TypeOK, UniqueRequests, CallOwns, OneCall, RowsTold, WorkPcs, ExecutingPcs,
         ToldSuccessIsStored, RunningIsExecuting, CallsVanish, Stored
<1>1. TypeOK'
  <2>1. sessionUp' \in [running : BOOLEAN, mapped : BOOLEAN]
    OBVIOUS
  <2>. QED
    BY <2>1 DEF PCs
<1>2. /\ UniqueRequests' /\ (\A c \in Calls : CallOwns(c))' /\ OneCall' /\ RowsTold'
      /\ ToldSuccessIsStored'
  OBVIOUS
<1>3. RunningIsExecuting'
  OBVIOUS
<1>. QED
  BY <1>1, <1>2, <1>3

(* Every step of the process is a step of the calls, ends their contexts,  *)
(* makes them vanish or leaves them alone.                                 *)
LEMMA CallSteps ==
  ASSUME [ProcessNext]_allVars
  PROVE  \/ [Next]_vars
         \/ /\ cancelled' = cancelled \cup InFlight
            /\ UNCHANGED <<row, pc, req, task, sessionUp, history, faults, crashes>>
         \/ CallsVanish
<1>1. CASE Startup
  BY <1>1 DEF Startup, StartProcess, NewPool, applyMigrations, Serve
<1>2. CASE Shutdown
  BY <1>2 DEF Shutdown, Notify, GracefulStop, Drained, Stopped, GraceEnds, ClosePool, Exit
<1>3. CASE Signal \/ ServeFails \/ Killed
  BY <1>3 DEF Signal, ServeFails, Killed, Next
<1>4. CASE Handlers \/ NewCall \/ SessionOver
  BY <1>4 DEF Handlers, NewCall, SessionOver, Next
<1>5. CASE UNCHANGED allVars
  BY <1>5 DEF allVars
<1>. QED
  BY <1>1, <1>2, <1>3, <1>4, <1>5 DEF ProcessNext

LEMMA InvKept == Inv /\ [ProcessNext]_allVars => Inv'
  BY CallSteps, InvNext, CancelsKeep, VanishKeeps

(* What the process does beside its calls says nothing to the ledger.      *)
LEMMA ProcessLedgerStep ==
  Inv /\ Inv' /\ [ProcessNext]_allVars => [Ledger!Next]_(Ledger!ledger)
<1>1. ASSUME CallsVanish \/ UNCHANGED <<row, history>> PROVE UNCHANGED Ledger!ledger
  BY <1>1 DEF CallsVanish, history, Ledger!ledger, Pair, Stored
<1>. QED
  BY <1>1, CallSteps, LedgerStep

-----------------------------------------------------------------------------
(***************************************************************************)
(* The process                                                             *)
(***************************************************************************)

(* A handler that is there goes on or ends, and a cancelled one stays so;  *)
(* only a request makes a new one.                                         *)
LEMMA HandlersEnd ==
  ASSUME Inv, NEW c \in Calls, Step(c) \/ Cancel(c), NEW d \in Calls, pc'[d] # "idle"
  PROVE  pc[d] # "idle" /\ (d \in cancelled => d \in cancelled')
<1>. USE DEF Inv, TypeOK, PCs, Goto, Reply, calls
<1>1. CASE \E op \in Operations : CheckSession(c, op)
  BY <1>1 DEF CheckSession, CheckPc, Operations
<1>2. CASE \E op \in Operations : CreateTaskFails(c, op)
  BY <1>2 DEF CreateTaskFails, CreatePc, Operations
<1>3. CASE \E op \in Operations, t \in Tasks : CreateTask(c, t, op)
  BY <1>3 DEF CreateTask, CreatePc, AfterPc, Operations
<1>4. CASE EnqueueTask(c)
  BY <1>4 DEF EnqueueTask
<1>5. CASE ExecuteTask(c) \/ RunEnds(c)
  BY <1>5 DEF ExecuteTask, RunEnds
<1>6. CASE RecordSucceeded(c) \/ RecordFailed(c)
  BY <1>6 DEF RecordSucceeded, RecordFailed
<1>7. CASE Cancel(c)
  BY <1>7 DEF Cancel
<1>. QED
  BY <1>1, <1>2, <1>3, <1>4, <1>5, <1>6, <1>7 DEF Step

LEMMA ProcessInvInit == ProcessInit => ProcessInv
<1>. SUFFICES ASSUME ProcessInit PROVE ProcessInv
  OBVIOUS
<1>1. Inv
  BY InvInit DEF ProcessInit
<1>2. ProcessTypeOK
  <2>1. signalled \in BOOLEAN
    BY DEF ProcessInit
  <2>2. starts \in 0..MaxStarts
    BY StartsAssumption DEF ProcessInit
  <2>. QED
    BY <1>1, <2>1, <2>2 DEF ProcessInit, ProcessTypeOK, Inv, MainPoints, ServerStates
<1>3. Phases /\ CallsLeft
  BY DEF ProcessInit, Init, Phases, CallsLeft, InFlight
<1>. QED
  BY <1>1, <1>2, <1>3 DEF ProcessInv

LEMMA StartupKeeps ==
  ASSUME ProcessInv, Startup
  PROVE  ProcessInv'
<1>1. Inv'
  BY InvKept DEF ProcessInv, ProcessNext
<1>2. ProcessTypeOK' /\ Phases' /\ CallsLeft'
  BY <1>1, StartsAssumption
  DEF ProcessInv, Inv, ProcessTypeOK, Phases, CallsLeft, InFlight, MainPoints, ServerStates,
      Startup, StartProcess, NewPool, applyMigrations, Serve, vars, calls
<1>. QED
  BY <1>1, <1>2 DEF ProcessInv

LEMMA ShutdownKeeps ==
  ASSUME ProcessInv, Shutdown
  PROVE  ProcessInv'
<1>1. Inv'
  BY InvKept DEF ProcessInv, ProcessNext
<1>. USE <1>1, StartsAssumption
     DEF ProcessInv, Inv, ProcessTypeOK, Phases, CallsLeft, InFlight, MainPoints, ServerStates
<1>2. CASE Notify \/ GracefulStop \/ Drained \/ Stopped
  BY <1>2 DEF Notify, GracefulStop, Drained, Stopped, vars, calls
<1>3. CASE GraceEnds \/ ClosePool
  BY <1>3 DEF GraceEnds, ClosePool
<1>4. CASE Exit
  BY <1>4 DEF Exit, CallsVanish, NoProcess
<1>. QED
  BY <1>2, <1>3, <1>4 DEF Shutdown

LEMMA OutsideKeeps ==
  ASSUME ProcessInv, Signal \/ ServeFails \/ Killed \/ SessionOver \/ UNCHANGED allVars
  PROVE  ProcessInv'
<1>1. Inv'
  BY InvKept DEF ProcessInv, ProcessNext
<1>. USE <1>1, StartsAssumption
     DEF ProcessInv, Inv, ProcessTypeOK, Phases, CallsLeft, InFlight, MainPoints, ServerStates
<1>2. CASE Signal \/ ServeFails
  BY <1>2 DEF Signal, ServeFails, vars, calls
<1>3. CASE Killed
  BY <1>3 DEF Killed, CrashService, NoProcess
<1>4. CASE SessionOver \/ UNCHANGED allVars
  BY <1>4 DEF SessionOver, SessionCloses, allVars, vars, process, calls
<1>. QED
  BY <1>2, <1>3, <1>4

LEMMA HandlersKeep ==
  ASSUME ProcessInv, Handlers \/ NewCall
  PROVE  ProcessInv'
<1>1. Inv'
  BY InvKept DEF ProcessInv, ProcessNext
<1>2. ProcessTypeOK' /\ Phases'
  BY <1>1 DEF ProcessInv, Inv, ProcessTypeOK, Phases, Handlers, NewCall, process
<1>3. CallsLeft'
  <2>1. CASE Handlers
    BY <2>1, HandlersEnd DEF ProcessInv, CallsLeft, InFlight, Handlers, process
  <2>2. CASE NewCall
    BY <2>2 DEF CallsLeft, NewCall, process
  <2>. QED
    BY <2>1, <2>2
<1>. QED
  BY <1>1, <1>2, <1>3 DEF ProcessInv

LEMMA ProcessInvNext == ProcessInv /\ [ProcessNext]_allVars => ProcessInv'
  BY StartupKeeps, ShutdownKeeps, OutsideKeeps, HandlersKeep DEF ProcessNext

-----------------------------------------------------------------------------
(* The process and its calls keep the invariant. *)
THEOREM ProcessInvHolds == ProcessSpec => []ProcessInv
  BY ProcessInvInit, ProcessInvNext, PTL DEF ProcessSpec

(* The types of the process and of its calls. *)
THEOREM ProcessTypeCorrect == ProcessSpec => []ProcessTypeOK
  BY ProcessInvHolds, PTL DEF ProcessInv

(* A server that has drained leaves no task RUNNING but those whose call   *)
(* was cut off before (run in main.go, GracefulStop).                      *)
THEOREM DrainedCompletes == ProcessSpec => []DrainedIsComplete
<1>1. ProcessInv => DrainedIsComplete
  BY NoneAssumption
  DEF ProcessInv, Inv, CallsLeft, InFlight, CallOwns, WorkPcs, ExecutingPcs,
      RunningIsExecuting, DrainedIsComplete, TypeOK
<1>. QED
  BY <1>1, ProcessInvHolds, PTL

(* When run closes the pool, the calls that are left have been cancelled,  *)
(* unless Serve failed (main.go, lines 135 to 144).                        *)
THEOREM PoolOutlives == ProcessSpec => PoolOutlivesCalls
<1>1. ProcessInv /\ main = "return" => InFlight \subseteq cancelled \/ server = "on"
  BY DEF ProcessInv, ProcessTypeOK, ServerStates, Phases, CallsLeft
<1>2. ProcessInv /\ [ProcessNext]_allVars =>
        [main = "return" /\ pool = "open" /\ pool' = "closed" =>
            InFlight \subseteq cancelled \/ server = "on"]_allVars
  BY <1>1
<1>. QED
  BY <1>2, ProcessInvHolds, PTL DEF ProcessSpec, PoolOutlivesCalls

(* A request is bound to one task, and its commands are handed to a worker *)
(* once, through every restart: the process implements the ledger.         *)
THEOREM ProcessImplementsLedger == ProcessSpec => ImplementsLedger
<1>1. ProcessInit => Ledger!Init
  BY LedgerInit DEF ProcessInit
<1>. QED
  BY <1>1, ProcessLedgerStep, ProcessInvHolds, PTL
  DEF ProcessSpec, ProcessInv, ImplementsLedger, Ledger!Spec

(* Through every restart a request id has one task and a task one request  *)
(* id; only such pairs are executed or told.                               *)
THEOREM TasksIdempotent == ProcessSpec => []Ledger!Idempotent
<1>1. Inv => Ledger!Idempotent
  BY DEF Inv, UniqueRequests, RowsTold, TypeOK, Ledger!Idempotent, Pair
<1>. QED
  BY <1>1, ProcessInvHolds, PTL DEF ProcessInv
=============================================================================
