---------------------------- MODULE TaskService ----------------------------
(***************************************************************************)
(* The task half of internal/app/automation_service.go: StartBrowserTask   *)
(* and ExecuteBrowserCommands, for the tasks of one session.               *)
(*                                                                         *)
(* As in SessionService, each RPC is a goroutine split at its accesses to  *)
(* the store and the runtime.  The session is the environment: its row can *)
(* leave RUNNING, and its runtime leave the map, between any two steps of  *)
(* a call (SessionService says when).  The store is the PostgreSQL         *)
(* repository: a statement under a cancelled context is not executed.      *)
(*                                                                         *)
(* GetBrowserTask and ListBrowserTasks only read.  Neither runtime of the  *)
(* repository makes EnqueueTask fail, so lines 172-179 are never reached.  *)
(***************************************************************************)
EXTENDS Naturals

CONSTANTS
    Calls,          \* handler goroutines
    Tasks,          \* task ids the generator may hand out
    RequestIds,     \* request ids the clients use
    None,           \* no task, no request
    MaxFaults,      \* bound: store statements that report an error
    MaxCrashes      \* bound: deaths of the service process

ASSUME NoneAssumption == None \notin Tasks /\ None \notin RequestIds
ASSUME BoundsAssumption == MaxFaults \in Nat /\ MaxCrashes \in Nat

VARIABLES
    row,        \* the store: task id -> [status, req]
    pc,         \* where each call is in its handler
    req, task,  \* the call's request id and the task it works on
    cancelled,  \* calls whose context is done
    sessionUp,  \* [running |-> row in RUNNING, mapped |-> runtime in the map]
    executed,   \* history: tasks handed to the worker
    answered,   \* history: <<request id, task id>> told to clients
    succeeded,  \* history: tasks a client was told have SUCCEEDED
    cut,        \* history: tasks whose call was cancelled, crashed or failed to write
    faults, crashes

calls   == <<pc, req, task, cancelled>>
history == <<executed, answered, succeeded, cut>>
vars    == <<row, calls, sessionUp, history, faults, crashes>>

-----------------------------------------------------------------------------
(* TaskStatusIsFinal; this service never writes the last two. *)
FinalTask == {"SUCCEEDED", "FAILED", "CANCELED", "TIMEOUT"}
TaskStatuses == {"QUEUED", "RUNNING"} \cup FinalTask

Absent == [status |-> "ABSENT", req |-> None]
Stored(t) == row[t].status # "ABSENT"

(* Mutant: neither the lookup nor the unique index finds the row. *)
BoundToNothing(r) == {t \in Tasks : FALSE}

(* The rows a request id is bound to: what GetTaskByRequestID finds and    *)
(* the unique index on request_id refuses to add to.                       *)
Bound(r) == {t \in Tasks : Stored(t) /\ row[t].req = r}

(* What the two operations insert. *)
Operations == {"queue", "execute"}
FirstStatus == [queue |-> "QUEUED", execute |-> "RUNNING"]
CheckPc  == [queue |-> "queue_check", execute |-> "execute_check"]
CreatePc == [queue |-> "queue_create", execute |-> "execute_create"]
AfterPc  == [queue |-> "enqueue", execute |-> "execute"]

PCs == {"idle", "run", "record_succeeded", "record_failed"}
         \cup {CheckPc[op] : op \in Operations}
         \cup {CreatePc[op] : op \in Operations}
         \cup {AfterPc[op] : op \in Operations}

Goto(c, label) == pc' = [pc EXCEPT ![c] = label] /\ UNCHANGED <<req, task, cancelled>>

Reply(c) ==
    /\ pc'   = [pc   EXCEPT ![c] = "idle"]
    /\ req'  = [req  EXCEPT ![c] = None]
    /\ task' = [task EXCEPT ![c] = None]
    /\ cancelled' = cancelled \ {c}

Told(r, t) == answered' = answered \cup {<<r, t>>}

(* UpdateTask that reports success. *)
Update(c, status) ==
    /\ c \notin cancelled
    /\ row' = [row EXCEPT ![task[c]].status = status]
    /\ UNCHANGED <<faults, cut>>

(* UpdateTask that reports an error: not sent under a cancelled context;   *)
(* otherwise lost or timed out, applied or not.                            *)
UpdateFails(c, status) ==
    /\ \/ c \in cancelled /\ UNCHANGED <<row, faults>>
       \/ /\ faults < MaxFaults
          /\ faults' = faults + 1
          /\ row' \in {row, [row EXCEPT ![task[c]].status = status]}
    /\ cut' = cut \cup {task[c]}

-----------------------------------------------------------------------------
(* Mutant: a FAILED task is executed again for a repeated request. *)
TaskAgainRetried(c, r, t) ==
    /\ pc[c] = "idle"
    /\ t \in Bound(r)
    /\ \/ /\ row[t].status = "FAILED"
          /\ pc'   = [pc   EXCEPT ![c] = "execute"]
          /\ req'  = [req  EXCEPT ![c] = r]
          /\ task' = [task EXCEPT ![c] = t]
          /\ UNCHANGED <<cancelled, history>>
       \/ /\ row[t].status # "FAILED" /\ Told(r, t)
          /\ UNCHANGED <<calls, executed, succeeded, cut>>
    /\ UNCHANGED <<row, sessionUp, faults, crashes>>

(* The task of an earlier request with this id is returned as it is. *)
TaskAgain(c, r, t) ==
    /\ pc[c] = "idle"
    /\ t \in Bound(r)
    /\ Told(r, t)
    /\ UNCHANGED <<row, calls, sessionUp, executed, succeeded, cut, faults, crashes>>

(* No task yet; the input passes validation. *)
TaskLookup(c, r, op) ==
    /\ pc[c] = "idle"
    /\ Bound(r) = {}
    /\ pc'  = [pc  EXCEPT ![c] = CheckPc[op]]
    /\ req' = [req EXCEPT ![c] = r]
    /\ UNCHANGED <<row, task, cancelled, sessionUp, history, faults, crashes>>

(* GetBrowserSession and the RUNNING check. *)
CheckSession(c, op) ==
    /\ pc[c] = CheckPc[op]
    /\ \/ c \notin cancelled /\ sessionUp.running /\ Goto(c, CreatePc[op]) /\ UNCHANGED faults
       \/ (c \in cancelled \/ ~sessionUp.running) /\ Reply(c) /\ UNCHANGED faults
       \/ faults < MaxFaults /\ faults' = faults + 1 /\ Reply(c)     \* the read fails
    /\ UNCHANGED <<row, sessionUp, history, crashes>>

(* The insert of a fresh task id; the unique index decides. *)
CreateTask(c, t, op) ==
    /\ pc[c] = CreatePc[op]
    /\ c \notin cancelled
    /\ ~Stored(t)
    /\ Bound(req[c]) = {}
    /\ row' = [row EXCEPT ![t] = [status |-> FirstStatus[op], req |-> req[c]]]
    /\ \/ /\ pc'   = [pc   EXCEPT ![c] = AfterPc[op]]
          /\ task' = [task EXCEPT ![c] = t]
          /\ UNCHANGED <<req, cancelled, cut, faults>>
       \/ /\ faults < MaxFaults          \* stored, but the call sees an error
          /\ faults' = faults + 1
          /\ cut' = cut \cup {t}
          /\ Reply(c)
    /\ UNCHANGED <<sessionUp, executed, answered, succeeded, crashes>>

CreateTaskFails(c, op) ==
    /\ pc[c] = CreatePc[op]
    /\ \/ (Bound(req[c]) # {} \/ c \in cancelled) /\ UNCHANGED faults
       \/ faults < MaxFaults /\ faults' = faults + 1
    /\ Reply(c)
    /\ UNCHANGED <<row, sessionUp, history, crashes>>

(* EnqueueTask does nothing; the QUEUED task is the answer. *)
EnqueueTask(c) ==
    /\ pc[c] = "enqueue"
    /\ Told(req[c], task[c])
    /\ Reply(c)
    /\ UNCHANGED <<row, sessionUp, executed, succeeded, cut, faults, crashes>>

(* Runtime.ExecuteTask: the session's runtime is looked up in the map. *)
ExecuteTask(c) ==
    /\ pc[c] = "execute"
    /\ IF sessionUp.mapped
       THEN executed' = executed \cup {task[c]} /\ Goto(c, "run")
       ELSE Goto(c, "record_failed") /\ UNCHANGED executed
    /\ UNCHANGED <<row, sessionUp, answered, succeeded, cut, faults, crashes>>

(* Mutant: a failed execution is answered but not recorded. *)
RunEndsUnrecorded(c) ==
    /\ pc[c] = "run"
    /\ Goto(c, "record_succeeded") \/ Reply(c)
    /\ UNCHANGED <<row, sessionUp, history, faults, crashes>>

(* The worker answers, fails, times out, or the context is done. *)
RunEnds(c) ==
    /\ pc[c] = "run"
    /\ Goto(c, "record_succeeded") \/ Goto(c, "record_failed")
    /\ UNCHANGED <<row, sessionUp, history, faults, crashes>>

(* Mutant: a failed update is ignored, as it is for a FAILED task. *)
RecordSucceededAnyway(c) ==
    /\ pc[c] = "record_succeeded"
    /\ Update(c, "SUCCEEDED") \/ UpdateFails(c, "SUCCEEDED")
    /\ Told(req[c], task[c])
    /\ succeeded' = succeeded \cup {task[c]}
    /\ Reply(c)
    /\ UNCHANGED <<sessionUp, executed, crashes>>

RecordSucceeded(c) ==
    /\ pc[c] = "record_succeeded"
    /\ \/ /\ Update(c, "SUCCEEDED")
          /\ Told(req[c], task[c])
          /\ succeeded' = succeeded \cup {task[c]}
       \/ UpdateFails(c, "SUCCEEDED") /\ UNCHANGED <<answered, succeeded>>
    /\ Reply(c)
    /\ UNCHANGED <<sessionUp, executed, crashes>>

(* The result of the update is ignored; the task is returned. *)
RecordFailed(c) ==
    /\ pc[c] = "record_failed"
    /\ Update(c, "FAILED") \/ UpdateFails(c, "FAILED")
    /\ Told(req[c], task[c])
    /\ Reply(c)
    /\ UNCHANGED <<sessionUp, executed, succeeded, crashes>>

-----------------------------------------------------------------------------
(* The client hangs up, its deadline passes, or the shutdown grace ends. *)
Cancel(c) ==
    /\ pc[c] # "idle"
    /\ c \notin cancelled
    /\ cancelled' = cancelled \cup {c}
    /\ UNCHANGED <<row, pc, req, task, sessionUp, history, faults, crashes>>

(* The session is stopped or expires: row and map entry go one by one. *)
SessionCloses ==
    /\ \E part \in {"running", "mapped"} :
         /\ sessionUp[part]
         /\ sessionUp' = [sessionUp EXCEPT ![part] = FALSE]
    /\ UNCHANGED <<row, calls, history, faults, crashes>>

(* The service process dies and is started again over the same database.   *)
CrashService ==
    /\ crashes < MaxCrashes
    /\ crashes' = crashes + 1
    /\ cut' = cut \cup {task[c] : c \in {d \in Calls : task[d] # None}}
    /\ pc'   = [c \in Calls |-> "idle"]
    /\ req'  = [c \in Calls |-> None]
    /\ task' = [c \in Calls |-> None]
    /\ cancelled' = {}
    /\ sessionUp' = [sessionUp EXCEPT !.mapped = FALSE]
    /\ UNCHANGED <<row, executed, answered, succeeded, faults>>

-----------------------------------------------------------------------------
Init ==
    /\ row  = [t \in Tasks |-> Absent]
    /\ pc   = [c \in Calls |-> "idle"]
    /\ req  = [c \in Calls |-> None]
    /\ task = [c \in Calls |-> None]
    /\ cancelled = {}
    /\ sessionUp = [running |-> TRUE, mapped |-> TRUE]
    /\ executed = {} /\ answered = {} /\ succeeded = {} /\ cut = {}
    /\ faults = 0 /\ crashes = 0

Step(c) ==
    \/ \E op \in Operations : CheckSession(c, op) \/ CreateTaskFails(c, op)
    \/ \E op \in Operations, t \in Tasks : CreateTask(c, t, op)
    \/ EnqueueTask(c) \/ ExecuteTask(c) \/ RunEnds(c)
    \/ RecordSucceeded(c) \/ RecordFailed(c)

Request(c) ==
    \/ \E r \in RequestIds, op \in Operations : TaskLookup(c, r, op)
    \/ \E r \in RequestIds, t \in Tasks : TaskAgain(c, r, t)

Next ==
    \/ \E c \in Calls : Step(c) \/ Request(c) \/ Cancel(c)
    \/ SessionCloses
    \/ CrashService

Spec == Init /\ [][Next]_vars

-----------------------------------------------------------------------------
(***************************************************************************)
(* Properties                                                              *)
(***************************************************************************)

TypeOK ==
    /\ row  \in [Tasks -> [status : TaskStatuses \cup {"ABSENT"},
                           req : RequestIds \cup {None}]]
    /\ pc   \in [Calls -> PCs]
    /\ req  \in [Calls -> RequestIds \cup {None}]
    /\ task \in [Calls -> Tasks \cup {None}]
    /\ cancelled \subseteq Calls
    /\ sessionUp \in [running : BOOLEAN, mapped : BOOLEAN]
    /\ executed \subseteq Tasks /\ succeeded \subseteq Tasks /\ cut \subseteq Tasks
    /\ answered \subseteq RequestIds \X Tasks
    /\ faults \in 0..MaxFaults /\ crashes \in 0..MaxCrashes

Pair(t) == <<row[t].req, t>>

Ledger == INSTANCE RequestLedger WITH
    Requests <- RequestIds,
    Things   <- Tasks,
    bound    <- {Pair(t) : t \in {u \in Tasks : Stored(u)}},
    begun    <- {Pair(t) : t \in executed},
    told     <- answered

(* A request id is bound to one task for ever, whichever of the two        *)
(* operations it came with; its commands are handed to the worker at most  *)
(* once, however often it is repeated; every answer names that task.       *)
ImplementsLedger == Ledger!Spec

(* A client that was told SUCCEEDED finds the task SUCCEEDED ever after.   *)
ToldSuccessIsStored == \A t \in succeeded : row[t].status = "SUCCEEDED"

(* The status of a finished task never changes again: unlike a session, a  *)
(* task is only ever written by the call that created it.                  *)
FinishedStays ==
    [][\A t \in Tasks : row[t].status \in FinalTask => row'[t] = row[t]]_vars

(* A task is RUNNING only while a call is executing it, unless that call   *)
(* was cut off by a cancelled context, a failed write or a crash.          *)
RunningIsExecuting ==
    \A t \in Tasks \ cut :
        row[t].status = "RUNNING" => \E c \in Calls : task[c] = t

(* "Synchronous" execution: with the store and the service up, a task is   *)
(* RUNNING only while a call is executing it.  A cancelled context leaves  *)
(* it RUNNING, since the failure is recorded under the same context.       *)
SynchronousExecution ==
    faults = 0 /\ crashes = 0 =>
        \A t \in Tasks : row[t].status = "RUNNING" => \E c \in Calls : task[c] = t
=============================================================================
