--------------------------- MODULE CamoufoxRuntime ---------------------------
(***************************************************************************)
(* Runtime.StartSession and Runtime.StopSession of the Camoufox adapter    *)
(* (runtime.go) for one session id: the two processes of a session, the    *)
(* selects that wait for them, and the session map under r.mu.             *)
(*                                                                         *)
(* SessionService sees a session's processes as one browser; here they are *)
(* a server and a worker that are launched one after the other and may     *)
(* exit at any moment.  Each start launches a pair of its own.  The        *)
(* service starts a session id once, but the map's check before and after  *)
(* the launch is made for several starts, so several are allowed.          *)
(*                                                                         *)
(* Stopping a process is one step, after which it has ended or outlives    *)
(* SIGKILL: the escalation of stopCommand, and the exchange of lines with  *)
(* the worker, are in WorkerChannel.                                       *)
(***************************************************************************)
CONSTANTS
    Starts,     \* calls of StartSession
    Stops,      \* calls of StopSession
    None        \* no entry, lock free

ASSUME CallsAssumption == None \notin Starts /\ Starts \cap Stops = {}

VARIABLES
    pc,         \* where each call is
    server,     \* start -> its server process: "none", "up" or "exited"
    worker,     \* start -> its worker process
    entry,      \* r.sessions[id]: the start whose pair is registered
    mu,         \* the start that holds r.mu while it stops its processes
    taken,      \* stop -> the start whose pair it took out of the map
    survivors   \* history: pairs of which a process outlived SIGKILL

vars == <<pc, server, worker, entry, mu, taken, survivors>>

-----------------------------------------------------------------------------
Goto(c, label) == pc' = [pc EXCEPT ![c] = label]

End(process, c) ==
    IF process[c] = "up" THEN [process EXCEPT ![c] = "exited"] ELSE process

(* The map has the id already: nothing to start. *)
StartSession(c) ==
    /\ pc[c] = "start"
    /\ mu = None
    /\ Goto(c, IF entry = None THEN "launch" ELSE "started")
    /\ UNCHANGED <<server, worker, entry, mu, taken, survivors>>

(* startServer: the proxy, a pipe or the launch itself may fail. *)
StartServer(c) ==
    /\ pc[c] = "launch"
    /\ \/ Goto(c, "endpoint") /\ server' = [server EXCEPT ![c] = "up"]
       \/ Goto(c, "failed") /\ UNCHANGED server
    /\ UNCHANGED <<worker, entry, mu, taken, survivors>>

(* The select on endpoint, exit, timeout and context.  A server may print  *)
(* its endpoint and exit at once, and then either case may be taken.       *)
AwaitEndpoint(c) ==
    /\ pc[c] = "endpoint"
    /\ \/ Goto(c, "spawn")
       \/ server[c] = "exited" /\ Goto(c, "failed")
       \/ Goto(c, "stop_server")
    /\ UNCHANGED <<server, worker, entry, mu, taken, survivors>>

(* Mutant: the failed launch of the worker leaves the server. *)
StartWorkerOnly(c) ==
    /\ pc[c] = "spawn"
    /\ \/ Goto(c, "ready") /\ worker' = [worker EXCEPT ![c] = "up"]
       \/ Goto(c, "failed") /\ UNCHANGED worker
    /\ UNCHANGED <<server, entry, mu, taken, survivors>>

(* startWorker: on failure StartSession stops the server. *)
StartWorker(c) ==
    /\ pc[c] = "spawn"
    /\ \/ Goto(c, "ready") /\ worker' = [worker EXCEPT ![c] = "up"]
       \/ Goto(c, "stop_server") /\ UNCHANGED worker
    /\ UNCHANGED <<server, entry, mu, taken, survivors>>

(* The first line is "ready"; or it is not, or stdout closes, the worker   *)
(* exits, time is up, or the context ends.                                 *)
AwaitReady(c) ==
    /\ pc[c] = "ready"
    /\ Goto(c, "register") \/ Goto(c, "stop_worker")
    /\ UNCHANGED <<server, worker, entry, mu, taken, survivors>>

(* Mutants: the slower start also cleans up the map; r.mu is not released. *)
RegisterClears(c) ==
    /\ pc[c] = "register"
    /\ mu = None
    /\ IF entry = None
       THEN Goto(c, "started") /\ entry' = c /\ UNCHANGED mu
       ELSE Goto(c, "discard_worker") /\ mu' = c /\ entry' = None
    /\ UNCHANGED <<server, worker, taken, survivors>>

RegisterLocked(c) ==
    /\ pc[c] = "register"
    /\ mu = None
    /\ mu' = c
    /\ entry' = c
    /\ Goto(c, "started")
    /\ UNCHANGED <<server, worker, taken, survivors>>

(* Another start was faster: this pair is stopped with r.mu held. *)
Register(c) ==
    /\ pc[c] = "register"
    /\ mu = None
    /\ IF entry = None
       THEN Goto(c, "started") /\ entry' = c /\ UNCHANGED mu
       ELSE Goto(c, "discard_worker") /\ mu' = c /\ UNCHANGED entry
    /\ UNCHANGED <<server, worker, taken, survivors>>

(* worker.stop and then server.stop: of a failed start, of the slower of   *)
(* two starts (deferred unlock at its end), and of a stopped session.      *)
AfterWorker == [stop_worker    |-> "stop_server",
                discard_worker |-> "discard_server",
                kill_worker    |-> "kill_server"]
AfterServer == [stop_server    |-> "failed",
                discard_server |-> "started",
                kill_server    |-> "stopped"]

Pair(c) == IF c \in Starts THEN c ELSE taken[c]
Up(c)   == server[c] = "up" \/ worker[c] = "up"

(* stopCommand: the process is gone, or it did not exit after the kill. *)
StopWorker(c) ==
    /\ pc[c] \in DOMAIN AfterWorker
    /\ worker' \in {worker, End(worker, Pair(c))}
    /\ Goto(c, AfterWorker[pc[c]])
    /\ UNCHANGED <<server, entry, mu, taken, survivors>>

StopServer(c) ==
    /\ pc[c] \in DOMAIN AfterServer
    /\ server' \in {server, End(server, Pair(c))}
    /\ UNCHANGED <<worker, entry, taken>>
    /\ survivors' = IF Up(Pair(c))' THEN survivors \cup {Pair(c)} ELSE survivors
    /\ mu' = IF mu = c THEN None ELSE mu
    /\ Goto(c, AfterServer[pc[c]])

(* Read and delete the entry in one critical section. *)
StopSession(c) ==
    /\ pc[c] = "stop"
    /\ mu = None
    /\ taken' = [taken EXCEPT ![c] = entry]
    /\ entry' = None
    /\ Goto(c, IF entry = None THEN "stopped" ELSE "kill_worker")
    /\ UNCHANGED <<server, worker, mu, survivors>>

(* A process ends by itself: a crash, a kill, a lost browser. *)
ProcessExits(c) ==
    /\ \/ server[c] = "up" /\ server' = End(server, c) /\ UNCHANGED worker
       \/ worker[c] = "up" /\ worker' = End(worker, c) /\ UNCHANGED server
    /\ UNCHANGED <<pc, entry, mu, taken, survivors>>

-----------------------------------------------------------------------------
Init ==
    /\ pc = [c \in Starts \cup Stops |-> IF c \in Starts THEN "start" ELSE "stop"]
    /\ server = [c \in Starts |-> "none"]
    /\ worker = [c \in Starts |-> "none"]
    /\ entry = None
    /\ mu = None
    /\ taken = [c \in Stops |-> None]
    /\ survivors = {}

Start(c) ==
    \/ StartSession(c) \/ StartServer(c) \/ AwaitEndpoint(c)
    \/ StartWorker(c) \/ AwaitReady(c) \/ Register(c)

StopPair(c) == StopWorker(c) \/ StopServer(c)

Next ==
    \/ \E c \in Starts : Start(c) \/ StopPair(c) \/ ProcessExits(c)
    \/ \E c \in Stops : StopSession(c) \/ StopPair(c)

Spec == Init /\ [][Next]_vars

(* Both selects have a timeout, sync.Mutex hands itself to a waiter in the *)
(* end, and the escalation has a timeout at each stage.  A start writes    *)
(* the stop line into a pipe that holds nothing else; that of a stop has   *)
(* no such luck, its write has no timeout, and StopWorker of a stop is not *)
(* fair.  The calls are those that are made.                               *)
FairSpec ==
    /\ Spec
    /\ \A c \in Starts : WF_vars(Start(c) \/ StopPair(c))
    /\ \A c \in Stops  : WF_vars(StopSession(c) \/ StopServer(c))

-----------------------------------------------------------------------------
(***************************************************************************)
(* Properties                                                              *)
(***************************************************************************)

Starting  == {"endpoint", "spawn", "ready", "register", "stop_worker",
              "stop_server", "discard_worker", "discard_server"}
Killing   == {"kill_worker", "kill_server"}
ProcessStates == {"none", "up", "exited"}

TypeOK ==
    /\ pc \in [Starts \cup Stops -> {"start", "launch", "started", "failed", "stop", "stopped"}
                                      \cup Starting \cup Killing]
    /\ server \in [Starts -> ProcessStates]
    /\ worker \in [Starts -> ProcessStates]
    /\ entry \in Starts \cup {None}
    /\ mu \in Starts \cup {None}
    /\ taken \in [Stops -> Starts \cup {None}]
    /\ survivors \subseteq Starts

(* No process is left to itself: a pair with a running process is in the   *)
(* map, or its start is still at work on it, or a stop that took it is; so *)
(* when all have returned, at most one pair is left, the registered one,   *)
(* but for those that SIGKILL did not end.                                 *)
NoStrayProcess ==
    \A c \in Starts \ survivors : Up(c) =>
        \/ entry = c
        \/ pc[c] \in Starting
        \/ \E d \in Stops : taken[d] = c /\ pc[d] \in Killing

(* A start that returned success can rely on the map until somebody stops  *)
(* the session: the failure of a competing start takes nothing away.       *)
StartedIsMapped ==
    (\E c \in Starts : pc[c] = "started") /\ (\A d \in Stops : taken[d] = None)
        => entry # None

(* Every start returns and every stop gets as far as the stop line, the    *)
(* ones that wait for r.mu while another start stops its processes under   *)
(* it included; a stop whose line waits for ever keeps nobody waiting.     *)
CallsGetThrough ==
    /\ \A c \in Starts : <>(pc[c] \in {"started", "failed"})
    /\ \A d \in Stops : <>(pc[d] \in {"kill_worker", "stopped"})

Lifecycle == INSTANCE BrowserLifecycle WITH
    Browsers  <- Starts,
    SessionOf <- [c \in Starts |-> "id"],
    Calls     <- Stops,
    begun     <- {c \in Starts : server[c] # "none"},
    starting  <- {c \in Starts : pc[c] \in Starting},
    mapped    <- {entry} \ {None},
    kills     <- {<<d, taken[d]>> : d \in {e \in Stops : pc[e] \in Killing}},
    running   <- {c \in Starts : Up(c)},
    lost      <- survivors

(* The two processes, their crashes, the selects and the map under r.mu    *)
(* come to what SessionService takes for one browser: a pair is registered *)
(* by its start, as the only one of its session, or stopped by it; and a   *)
(* registered pair is stopped by the one stop that took it.                *)
ImplementsLifecycle == Lifecycle!Spec
=============================================================================
