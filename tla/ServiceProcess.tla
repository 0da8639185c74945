--------------------------- MODULE ServiceProcess ---------------------------
(***************************************************************************)
(* The process around the task calls: run (cmd/.../main.go) connects to    *)
(* the database, serves, and on SIGTERM drains the gRPC server for as long *)
(* as the grace lasts.  The calls of TaskService are its handlers; they    *)
(* run beside run and end with the process.                                *)
(*                                                                         *)
(* What grpc.Server and pgxpool.Pool do is modelled from how run uses      *)
(* them.  The deferred calls of run close the listener, then the pool.     *)
(***************************************************************************)
EXTENDS TaskService

CONSTANT MaxStarts      \* bound: times the process is started

ASSUME StartsAssumption == MaxStarts \in Nat

VARIABLES
    main,       \* where run is; "down" when there is no process
    server,     \* the gRPC server
    pool,       \* the connections to the database
    signalled,  \* rootCtx is done
    starts

process == <<main, server, pool, signalled, starts>>
allVars == <<vars, process>>

MainPoints == {"down", "connect", "migrate", "prepare", "select", "grace", "return", "exit"}
ServerStates == {"off", "on", "graceful", "drained", "stopped"}

InFlight == {c \in Calls : pc[c] # "idle"}

(* The calls of the dying process are gone, and so are its runtimes.       *)
CallsVanish ==
    /\ cut' = cut \cup {task[c] : c \in {d \in Calls : task[d] # None}}
    /\ pc'   = [c \in Calls |-> "idle"]
    /\ req'  = [c \in Calls |-> None]
    /\ task' = [c \in Calls |-> None]
    /\ cancelled' = {}
    /\ sessionUp' = [sessionUp EXCEPT !.mapped = FALSE]
    /\ UNCHANGED <<row, executed, answered, succeeded, faults, crashes>>

NoProcess ==
    /\ main' = "down" /\ server' = "off" /\ pool' = "closed" /\ signalled' = FALSE
    /\ UNCHANGED starts

-----------------------------------------------------------------------------
(***************************************************************************)
(* Startup                                                                 *)
(***************************************************************************)

StartProcess ==
    /\ main = "down"
    /\ starts < MaxStarts
    /\ starts' = starts + 1
    /\ main' = "connect"
    /\ UNCHANGED <<vars, server, pool, signalled>>

(* NewPool: the ping fails without a database, and under a done context.   *)
NewPool ==
    /\ main = "connect"
    /\ \/ ~signalled /\ main' = "migrate" /\ pool' = "open"
       \/ main' = "exit" /\ UNCHANGED pool
    /\ UNCHANGED <<vars, server, signalled, starts>>

(* When it is asked for; it too ends with rootCtx. *)
applyMigrations ==
    /\ main = "migrate"
    /\ main' \in {"prepare", "return"}
    /\ UNCHANGED <<vars, server, pool, signalled, starts>>

(* newRuntime and net.Listen, each of which may fail; then the server is   *)
(* registered, declared healthy, and starts to serve.                      *)
Serve ==
    /\ main = "prepare"
    /\ \/ main' = "select" /\ server' = "on"
       \/ main' = "return" /\ UNCHANGED server
    /\ UNCHANGED <<vars, pool, signalled, starts>>

-----------------------------------------------------------------------------
(***************************************************************************)
(* Shutdown                                                                *)
(***************************************************************************)

Signal ==
    /\ main # "down"
    /\ ~signalled
    /\ signalled' = TRUE
    /\ UNCHANGED <<vars, main, server, pool, starts>>

(* Health turns NOT_SERVING, GracefulStop gets a goroutine, and the timer  *)
(* of the grace starts.                                                    *)
Notify ==
    /\ main = "select"
    /\ signalled
    /\ main' = "grace"
    /\ UNCHANGED <<vars, server, pool, signalled, starts>>

(* No new calls from here on. *)
GracefulStop ==
    /\ main = "grace"
    /\ server = "on"
    /\ server' = "graceful"
    /\ UNCHANGED <<vars, main, pool, signalled, starts>>

(* Mutant: the handlers are not waited for. *)
DrainedAtOnce ==
    /\ server = "graceful"
    /\ server' = "drained"
    /\ UNCHANGED <<vars, main, pool, signalled, starts>>

Drained ==
    /\ server = "graceful"
    /\ InFlight = {}
    /\ server' = "drained"
    /\ UNCHANGED <<vars, main, pool, signalled, starts>>

Stopped ==
    /\ main = "grace"
    /\ server = "drained"
    /\ main' = "return"
    /\ UNCHANGED <<vars, server, pool, signalled, starts>>

(* Mutant: the grace ends and nothing is stopped. *)
GraceEndsUnstopped ==
    /\ main = "grace"
    /\ main' = "return"
    /\ UNCHANGED <<vars, server, pool, signalled, starts>>

(* Mutant: the timer is of no use while a handler runs. *)
GraceEndsWhenIdle ==
    /\ main = "grace"
    /\ InFlight = {}
    /\ main' = "return" /\ server' = "stopped"
    /\ UNCHANGED <<vars, pool, signalled, starts>>

(* server.Stop cancels the handlers; it does not wait for them. *)
GraceEnds ==
    /\ main = "grace"
    /\ main' = "return" /\ server' = "stopped"
    /\ cancelled' = cancelled \cup InFlight
    /\ UNCHANGED <<row, pc, req, task, sessionUp, history, faults, crashes>>
    /\ UNCHANGED <<pool, signalled, starts>>

(* Accepting connections fails; those that are open live on. *)
ServeFails ==
    /\ main = "select"
    /\ main' = "return"
    /\ UNCHANGED <<vars, server, pool, signalled, starts>>

(* Nothing is sent on a closed pool: the calls that are left go on as they *)
(* do when their context is done.                                          *)
ClosePool ==
    /\ main = "return"
    /\ main' = "exit" /\ pool' = "closed"
    /\ cancelled' = cancelled \cup InFlight
    /\ UNCHANGED <<row, pc, req, task, sessionUp, history, faults, crashes>>
    /\ UNCHANGED <<server, signalled, starts>>

Exit ==
    /\ main = "exit"
    /\ CallsVanish
    /\ NoProcess

(* The process is killed. *)
Killed ==
    /\ main # "down"
    /\ CrashService
    /\ NoProcess

-----------------------------------------------------------------------------
ProcessInit ==
    /\ Init
    /\ main = "down" /\ server = "off" /\ pool = "closed"
    /\ signalled = FALSE /\ starts = 0

(* The handlers of the registered service. *)
Handlers ==
    /\ \E c \in Calls : Step(c) \/ Cancel(c)
    /\ UNCHANGED process

(* A new call, which begins with a read of the store. *)
NewCall ==
    /\ server = "on"
    /\ pool = "open"
    /\ \E c \in Calls : Request(c)
    /\ UNCHANGED process

SessionOver ==
    /\ main # "down"
    /\ SessionCloses
    /\ UNCHANGED process

Startup  == StartProcess \/ NewPool \/ applyMigrations \/ Serve
Shutdown == Notify \/ GracefulStop \/ Drained \/ Stopped \/ GraceEnds \/ ClosePool \/ Exit

ProcessNext ==
    \/ Startup \/ Shutdown
    \/ Signal \/ ServeFails \/ Killed
    \/ Handlers \/ NewCall \/ SessionOver

(* run goes on by itself, and its timer fires.  Nothing is assumed of the  *)
(* handlers: a page may keep one for as long as the client's timeout lasts.*)
ProcessSpec ==
    /\ ProcessInit /\ [][ProcessNext]_allVars
    /\ WF_allVars(NewPool \/ applyMigrations \/ Serve)
    /\ WF_allVars(Notify) /\ WF_allVars(Stopped \/ GraceEnds)
    /\ WF_allVars(ClosePool \/ Exit)

-----------------------------------------------------------------------------
(***************************************************************************)
(* Properties                                                              *)
(***************************************************************************)

ProcessTypeOK ==
    /\ TypeOK
    /\ main \in MainPoints /\ server \in ServerStates /\ pool \in {"open", "closed"}
    /\ signalled \in BOOLEAN /\ starts \in 0..MaxStarts

(* A server that has drained leaves no task RUNNING but those whose call   *)
(* was cut off before: a deployment within the grace loses no work.        *)
DrainedIsComplete ==
    server = "drained" => \A t \in Tasks \ cut : row[t].status # "RUNNING"

(* On a signal the pool outlives the calls: when it is closed, those that  *)
(* are still in a handler have had their contexts cancelled.  When Serve   *)
(* fails, the server is not stopped and the pool closes under its calls.   *)
PoolOutlivesCalls ==
    [][main = "return" /\ pool = "open" /\ pool' = "closed" =>
            InFlight \subseteq cancelled \/ server = "on"]_allVars

(* A process that is told to stop stops, whatever its handlers do.         *)
ShutdownEnds == signalled ~> main = "down"
=============================================================================
