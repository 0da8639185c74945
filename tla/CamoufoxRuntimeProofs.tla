------------------------ MODULE CamoufoxRuntimeProofs ------------------------
(***************************************************************************)
(* Proofs about CamoufoxRuntime, for any number of starts and stops.       *)
(***************************************************************************)
EXTENDS CamoufoxRuntime, TLAPS

(* Starts and stops have labels of their own.                              *)
Labels ==
    /\ \A c \in Starts : pc[c] \in {"start", "launch", "started", "failed"} \cup Starting
    /\ \A d \in Stops  : pc[d] \in {"stop", "stopped"} \cup Killing

(* What a start has not launched yet, or has stopped already.              *)
Launched ==
    \A c \in Starts :
        /\ pc[c] \in {"start", "launch"} => server[c] = "none"
        /\ pc[c] \in {"start", "launch", "endpoint", "spawn"} => worker[c] = "none"

(* The pair in the map belongs to a start that has returned, and no stop   *)
(* has taken it.                                                           *)
Mapped == entry # None => pc[entry] = "started" /\ \A d \in Stops : taken[d] # entry

(* What a stop holds.                                                      *)
Held ==
    \A d \in Stops :
        /\ pc[d] = "stop" => taken[d] = None
        /\ pc[d] \in Killing => taken[d] \in Starts
        /\ taken[d] # None => pc[taken[d]] = "started"

(* The slower of two starts keeps the map locked, and so the faster one's  *)
(* entry in it.                                                            *)
Locked ==
    \A c \in Starts :
        pc[c] \in {"discard_worker", "discard_server"} => mu = c /\ entry # None

Inv ==
    /\ TypeOK /\ Labels
    /\ Launched /\ Mapped /\ Held /\ Locked
    /\ NoStrayProcess /\ StartedIsMapped

-----------------------------------------------------------------------------
LEMMA InvInit == Init => Inv
  BY CallsAssumption
  DEF Init, Inv, TypeOK, Labels, Launched, Mapped, Held, Locked, NoStrayProcess,
      StartedIsMapped, Up, ProcessStates, Starting, Killing

(* The steps of a start that touch neither the map nor its lock.           *)
LEMMA LaunchKeeps ==
  ASSUME Inv, NEW c \in Starts,
         StartServer(c) \/ AwaitEndpoint(c) \/ StartWorker(c) \/ AwaitReady(c)
  PROVE  Inv'
<1>. USE CallsAssumption
     DEF Inv, TypeOK, Labels, Launched, Mapped, Held, Locked, NoStrayProcess,
         StartedIsMapped, Up, ProcessStates, Starting, Killing, Goto
<1>1. CASE StartServer(c)
  BY <1>1 DEF StartServer
<1>2. CASE AwaitEndpoint(c)
  BY <1>2 DEF AwaitEndpoint
<1>3. CASE StartWorker(c)
  BY <1>3 DEF StartWorker
<1>4. CASE AwaitReady(c)
  BY <1>4 DEF AwaitReady
<1>. QED
  BY <1>1, <1>2, <1>3, <1>4

(* A start reads the map before it launches, and enters its pair after.    *)
LEMMA MapKeeps ==
  ASSUME Inv, NEW c \in Starts, StartSession(c) \/ Register(c)
  PROVE  Inv'
<1>. USE CallsAssumption
     DEF Inv, TypeOK, Labels, Launched, Mapped, Held, Locked, NoStrayProcess,
         StartedIsMapped, Up, ProcessStates, Starting, Killing, Goto
<1>1. CASE StartSession(c)
  BY <1>1 DEF StartSession
<1>2. CASE Register(c)
  BY <1>2 DEF Register
<1>. QED
  BY <1>1, <1>2

(* A stop takes the pair out of the map.                                   *)
LEMMA TakeKeeps ==
  ASSUME Inv, NEW c \in Stops, StopSession(c)
  PROVE  Inv'
  BY CallsAssumption
  DEF Inv, TypeOK, Labels, Launched, Mapped, Held, Locked, NoStrayProcess,
      StartedIsMapped, Up, ProcessStates, Starting, Killing, Goto, StopSession

(* Stopping a pair, by the start that launched it or by a stop.            *)
LEMMA StopKeeps ==
  ASSUME Inv, NEW c \in Starts \cup Stops, StopPair(c)
  PROVE  Inv'
<1>. USE CallsAssumption
     DEF Inv, TypeOK, Labels, Launched, Mapped, Held, Locked, NoStrayProcess,
         StartedIsMapped, Up, ProcessStates, Starting, Killing, Goto, End, Pair,
         AfterWorker, AfterServer
<1>1. CASE c \in Starts /\ StopWorker(c)
  BY <1>1 DEF StopWorker
<1>2. CASE c \in Starts /\ StopServer(c)
  BY <1>2 DEF StopServer
<1>3. CASE c \in Stops /\ StopWorker(c)
  BY <1>3 DEF StopWorker
<1>4. CASE c \in Stops /\ StopServer(c)
  BY <1>4 DEF StopServer
<1>. QED
  BY <1>1, <1>2, <1>3, <1>4 DEF StopPair

LEMMA ExitKeeps ==
  ASSUME Inv, NEW c \in Starts, ProcessExits(c)
  PROVE  Inv'
  BY CallsAssumption
  DEF Inv, TypeOK, Labels, Launched, Mapped, Held, Locked, NoStrayProcess,
      StartedIsMapped, Up, ProcessStates, Starting, Killing, End, ProcessExits

LEMMA InvNext == Inv /\ [Next]_vars => Inv'
<1>. SUFFICES ASSUME Inv, [Next]_vars PROVE Inv'
  OBVIOUS
<1>1. ASSUME NEW c \in Starts, Start(c) PROVE Inv'
  <2>1. CASE StartServer(c) \/ AwaitEndpoint(c) \/ StartWorker(c) \/ AwaitReady(c)
    BY <2>1, LaunchKeeps
  <2>2. CASE StartSession(c) \/ Register(c)
    BY <2>2, MapKeeps
  <2>. QED
    BY <1>1, <2>1, <2>2 DEF Start
<1>2. ASSUME NEW c \in Starts \cup Stops, StopPair(c) PROVE Inv'
  BY <1>2, StopKeeps
<1>3. ASSUME NEW c \in Starts, ProcessExits(c) PROVE Inv'
  BY <1>3, ExitKeeps
<1>4. ASSUME NEW c \in Stops, StopSession(c) PROVE Inv'
  BY <1>4, TakeKeeps
<1>5. CASE UNCHANGED vars
  BY <1>5 DEF vars, Inv, TypeOK, Labels, Launched, Mapped, Held, Locked,
              NoStrayProcess, StartedIsMapped, Up
<1>6. CASE \E c \in Starts : Start(c) \/ StopPair(c) \/ ProcessExits(c)
  BY <1>1, <1>2, <1>3, <1>6
<1>7. CASE \E c \in Stops : StopSession(c) \/ StopPair(c)
  BY <1>2, <1>4, <1>7
<1>. QED
  BY <1>5, <1>6, <1>7 DEF Next

-----------------------------------------------------------------------------
(* The invariant holds in every reachable state.                           *)
THEOREM InvHolds == Spec => []Inv
  BY InvInit, InvNext, PTL DEF Spec

(* Processes, map, lock and calls keep their types.                        *)
THEOREM TypeCorrect == Spec => []TypeOK
  BY InvHolds, PTL DEF Inv

(* Whatever fails during a start, and however starts and stops of one      *)
(* session overlap, a running process is in the map or held by a call at   *)
(* work on it (StartSession, StopSession).                                 *)
THEOREM NoStray == Spec => []NoStrayProcess
  BY InvHolds, PTL DEF Inv

(* A start that succeeded is in the map until a stop takes it, even if it  *)
(* was the slower of two.                                                  *)
THEOREM Registered == Spec => []StartedIsMapped
  BY InvHolds, PTL DEF Inv

-----------------------------------------------------------------------------
(***************************************************************************)
(* The runtime implements BrowserLifecycle                                 *)
(***************************************************************************)

Begun   == {c \in Starts : server[c] # "none"}
InStart == {c \in Starts : pc[c] \in Starting}
InMap   == {entry} \ {None}
InKill  == {<<d, taken[d]>> : d \in {e \in Stops : pc[e] \in Killing}}
Running == {c \in Starts : Up(c)}

LifecycleKept == [Lifecycle!Next]_(Lifecycle!lifecycle)

LEMMA LifecycleUnchanged ==
  ASSUME Begun' = Begun, InStart' = InStart, InMap' = InMap, InKill' = InKill,
         Running' = Running, survivors' = survivors
  PROVE  LifecycleKept
  BY DEF LifecycleKept, Lifecycle!lifecycle, Begun, InStart, InMap, InKill, Running

(* One of a pair's processes ends, the last one or not.                    *)
LEMMA ProcessEnds ==
  ASSUME NEW b \in Starts, Begun' = Begun, InStart' = InStart, InMap' = InMap,
         InKill' = InKill, Running' \in {Running, Running \ {b}}, survivors' = survivors
  PROVE  LifecycleKept
<1>1. CASE Running' = Running
  BY <1>1, LifecycleUnchanged
<1>2. CASE Running' = Running \ {b}
  <2>1. Lifecycle!Exit(b)
    BY <1>2 DEF Lifecycle!Exit, Begun, InStart, InMap, InKill, Running
  <2>. QED
    BY <2>1 DEF LifecycleKept, Lifecycle!Next
<1>. QED
  BY <1>1, <1>2

(* What a start does is of no concern to the stops.                        *)
LEMMA KillsKept ==
  ASSUME Inv, NEW c \in Starts, Start(c) \/ StopPair(c)
  PROVE  InKill' = InKill
<1>1. taken' = taken /\ \A d \in Stops : pc'[d] = pc[d]
  BY CallsAssumption
  DEF Inv, TypeOK, Start, StopPair, StartSession, StartServer, AwaitEndpoint, StartWorker,
      AwaitReady, Register, StopWorker, StopServer, Goto
<1>. QED
  BY <1>1 DEF InKill

(* A start has its pair in hands from the launch of the server on.         *)
LEMMA ServerLives ==
  ASSUME Inv, Inv', NEW c \in Starts, StartServer(c) \/ AwaitEndpoint(c)
  PROVE  LifecycleKept
<1>. USE CallsAssumption DEF Inv, TypeOK, Goto, Starting
<1>1. InKill' = InKill /\ InMap' = InMap /\ survivors' = survivors
  BY KillsKept DEF Start, InMap, StartServer, AwaitEndpoint
<1>2. CASE StartServer(c) /\ pc'[c] = "endpoint"
  <2>1. c \notin Begun /\ Begun' = Begun \cup {c}
    BY <1>2 DEF StartServer, Begun, Launched
  <2>2. InStart' = InStart \cup {c} /\ Running' = Running \cup {c}
    BY <1>2 DEF StartServer, InStart, Running, Up
  <2>3. Lifecycle!Begin(c)
    BY <1>1, <2>1, <2>2 DEF Lifecycle!Begin, Begun, InStart, InMap, InKill, Running
  <2>. QED
    BY <2>3 DEF LifecycleKept, Lifecycle!Next
<1>3. CASE StartServer(c) /\ pc'[c] # "endpoint"
  <2>1. InStart' = InStart /\ Begun' = Begun /\ Running' = Running
    BY <1>3 DEF StartServer, Begun, InStart, Running, Up
  <2>. QED
    BY <1>1, <2>1, LifecycleUnchanged
<1>4. CASE AwaitEndpoint(c) /\ pc'[c] = "failed"
  <2>1. server[c] = "exited" /\ worker[c] = "none"
    BY <1>4 DEF AwaitEndpoint, Launched
  <2>2. c \in InStart /\ InStart' = InStart \ {c}
    BY <1>4 DEF AwaitEndpoint, InStart
  <2>3. Begun' = Begun /\ Running' = Running \ {c}
    BY <1>4, <2>1 DEF AwaitEndpoint, Begun, Running, Up
  <2>4. Lifecycle!Discard(c)
    BY <1>1, <2>2, <2>3
    DEF Lifecycle!Discard, Lifecycle!LetGo, Begun, InStart, InMap, InKill, Running
  <2>. QED
    BY <2>4 DEF LifecycleKept, Lifecycle!Next
<1>5. CASE AwaitEndpoint(c) /\ pc'[c] # "failed"
  <2>1. InStart' = InStart /\ Begun' = Begun /\ Running' = Running
    BY <1>5 DEF AwaitEndpoint, Begun, InStart, Running, Up
  <2>. QED
    BY <1>1, <2>1, LifecycleUnchanged
<1>. QED
  BY <1>2, <1>3, <1>4, <1>5

(* A worker that comes up after the server has ended makes the pair run    *)
(* again.                                                                  *)
LEMMA WorkerLives ==
  ASSUME Inv, Inv', NEW c \in Starts, StartWorker(c) \/ AwaitReady(c)
  PROVE  LifecycleKept
<1>. USE CallsAssumption DEF Inv, TypeOK, Goto, Starting
<1>1. InKill' = InKill /\ InMap' = InMap /\ Begun' = Begun /\ survivors' = survivors
  BY KillsKept DEF Start, InMap, Begun, StartWorker, AwaitReady
<1>2. InStart' = InStart
  BY DEF StartWorker, AwaitReady, InStart
<1>3. CASE worker' # worker
  <2>1. c \in InStart /\ Running' = Running \cup {c}
    BY <1>3 DEF StartWorker, AwaitReady, InStart, Running, Up
  <2>2. Lifecycle!Launch(c)
    BY <1>1, <1>2, <2>1 DEF Lifecycle!Launch, Begun, InStart, InMap, InKill, Running
  <2>. QED
    BY <2>2 DEF LifecycleKept, Lifecycle!Next
<1>4. CASE worker' = worker
  <2>1. Running' = Running
    BY <1>4 DEF StartWorker, AwaitReady, Running, Up
  <2>. QED
    BY <1>1, <1>2, <2>1, LifecycleUnchanged
<1>. QED
  BY <1>3, <1>4

(* The map has room for one pair of the session.                           *)
LEMMA MapLives ==
  ASSUME Inv, Inv', NEW c \in Starts, StartSession(c) \/ Register(c)
  PROVE  LifecycleKept
<1>. USE CallsAssumption DEF Inv, TypeOK, Goto, Starting
<1>1. InKill' = InKill /\ Begun' = Begun /\ Running' = Running /\ survivors' = survivors
  BY KillsKept DEF Start, Begun, Running, Up, StartSession, Register
<1>2. CASE Register(c) /\ entry = None
  <2>1. InMap = {} /\ InMap' = {c}
    BY <1>2 DEF Register, InMap
  <2>2. c \in InStart /\ InStart' = InStart \ {c}
    BY <1>2 DEF Register, InStart
  <2>3. Lifecycle!Register(c)
    BY <1>1, <2>1, <2>2 DEF Lifecycle!Register, Begun, InStart, InMap, InKill, Running
  <2>. QED
    BY <2>3 DEF LifecycleKept, Lifecycle!Next
<1>3. CASE Register(c) /\ entry # None
  <2>1. InMap' = InMap /\ InStart' = InStart
    BY <1>3 DEF Register, InMap, InStart
  <2>. QED
    BY <1>1, <2>1, LifecycleUnchanged
<1>4. CASE StartSession(c)
  <2>1. InMap' = InMap /\ InStart' = InStart
    BY <1>4 DEF StartSession, InMap, InStart
  <2>. QED
    BY <1>1, <2>1, LifecycleUnchanged
<1>. QED
  BY <1>2, <1>3, <1>4

LEMMA TakeLives ==
  ASSUME Inv, Inv', NEW d \in Stops, StopSession(d)
  PROVE  LifecycleKept
<1>. USE CallsAssumption DEF Inv, TypeOK, Goto
<1>1. InStart' = InStart /\ Begun' = Begun /\ Running' = Running /\ survivors' = survivors
  BY DEF StopSession, InStart, Begun, Running, Up
<1>2. \A e \in Stops \ {d} : pc'[e] = pc[e] /\ taken'[e] = taken[e]
  BY DEF StopSession
<1>3. pc[d] \notin Killing /\ taken'[d] = entry /\ InMap' = {}
  BY DEF StopSession, Killing, InMap
<1>4. CASE entry = None
  <2>1. pc'[d] \notin Killing /\ InMap' = InMap
    BY <1>3, <1>4 DEF StopSession, Killing, InMap
  <2>2. InKill' = InKill
    BY <1>2, <1>3, <2>1 DEF InKill
  <2>. QED
    BY <1>1, <2>1, <2>2, LifecycleUnchanged
<1>5. CASE entry # None
  <2>1. PICK b \in Starts : b = entry
    BY <1>5
  <2>2. pc'[d] \in Killing /\ b \in InMap /\ InMap' = InMap \ {b}
    BY <1>3, <1>5, <2>1 DEF StopSession, Killing, InMap
  <2>3. InKill' = InKill \cup {<<d, b>>}
    BY <1>2, <1>3, <2>1, <2>2 DEF InKill
  <2>4. Lifecycle!Take(d, b)
    BY <1>1, <2>2, <2>3 DEF Lifecycle!Take, Begun, InStart, InMap, InKill, Running
  <2>. QED
    BY <2>4 DEF LifecycleKept, Lifecycle!Next
<1>. QED
  BY <1>4, <1>5

(* The worker is stopped first; the server may have ended by then.         *)
LEMMA StopWorkerLives ==
  ASSUME Inv, Inv', NEW c \in Starts \cup Stops, StopWorker(c)
  PROVE  LifecycleKept
<1>. USE CallsAssumption DEF Inv, TypeOK, Goto
<1>1. PICK b \in Starts : b = Pair(c)
  BY DEF StopWorker, Pair, AfterWorker, Labels, Held, Starting, Killing
<1>2. InMap' = InMap /\ Begun' = Begun /\ survivors' = survivors
  BY DEF StopWorker, InMap, Begun
<1>3. InStart' = InStart
  BY DEF StopWorker, AfterWorker, InStart, Starting, Labels, Killing
<1>4. InKill' = InKill
  BY DEF StopWorker, AfterWorker, InKill, Killing, Labels, Starting
<1>5. Running' \in {Running, Running \ {b}}
  <2>1. worker' \in {worker, [worker EXCEPT ![b] = "exited"]} /\ server' = server
    BY <1>1 DEF StopWorker, End
  <2>2. \A e \in Starts \ {b} : Up(e)' <=> Up(e)
    BY <2>1 DEF Up
  <2>3. Up(b)' => Up(b)
    BY <2>1 DEF Up
  <2>. QED
    BY <2>2, <2>3 DEF Running
<1>. QED
  BY <1>2, <1>3, <1>4, <1>5, ProcessEnds

(* With the server the pair is gone, or what is left of it is a survivor.  *)
LEMMA StopServerLives ==
  ASSUME Inv, Inv', NEW c \in Starts \cup Stops, StopServer(c)
  PROVE  LifecycleKept
<1>. USE CallsAssumption DEF Inv, TypeOK, Goto
<1>1. PICK b \in Starts : b = Pair(c)
  BY DEF StopServer, Pair, AfterServer, Labels, Held, Starting, Killing
<1>2. InMap' = InMap /\ Begun' = Begun
  BY <1>1 DEF StopServer, InMap, Begun, End, ProcessStates
<1>3. \/ Running' = Running \ {b} /\ survivors' = survivors
      \/ b \in Running /\ Running' = Running /\ survivors' = survivors \cup {b}
  <2>1. worker' = worker /\ server' \in {server, End(server, b)}
    BY <1>1 DEF StopServer
  <2>2. /\ \A e \in Starts \ {b} : Up(e)' <=> Up(e)
        /\ Up(b)' => Up(b)
    BY <2>1 DEF Up, End
  <2>3. survivors' = IF Up(b)' THEN survivors \cup {b} ELSE survivors
    <3>1. Pair(c)' = b
      BY <1>1 DEF Pair, StopServer
    <3>. QED
      BY <1>1, <3>1 DEF StopServer, Up
  <2>. QED
    BY <2>2, <2>3 DEF Running
<1>4. CASE c \in Starts
  <2>1. b = c /\ c \notin Stops
    BY <1>1, <1>4 DEF Pair
  <2>2. b \in InStart /\ InStart' = InStart \ {b}
    BY <1>4, <2>1 DEF StopServer, AfterServer, InStart, Starting, Labels, Killing
  <2>3. InKill' = InKill
    BY <1>4, KillsKept DEF StopPair
  <2>4. Lifecycle!Discard(b)
    BY <1>2, <1>3, <2>2, <2>3
    DEF Lifecycle!Discard, Lifecycle!LetGo, Begun, InStart, InMap, InKill, Running
  <2>. QED
    BY <2>4 DEF LifecycleKept, Lifecycle!Next
<1>5. CASE c \in Stops
  <2>1. b = taken[c] /\ c \notin Starts
    BY <1>1, <1>5 DEF Pair
  <2>2. InStart' = InStart
    BY <2>1 DEF StopServer, InStart
  <2>3. /\ pc[c] \in Killing /\ pc'[c] \notin Killing /\ taken' = taken
        /\ \A e \in Stops \ {c} : pc'[e] = pc[e]
    BY <1>5 DEF StopServer, AfterServer, Killing, Labels, Starting
  <2>4. <<c, b>> \in InKill /\ InKill' = InKill \ {<<c, b>>}
    BY <1>5, <2>1, <2>3 DEF InKill
  <2>5. Lifecycle!End(c, b)
    BY <1>2, <1>3, <2>2, <2>4
    DEF Lifecycle!End, Lifecycle!LetGo, Begun, InStart, InMap, InKill, Running
  <2>. QED
    BY <1>5, <2>5 DEF LifecycleKept, Lifecycle!Next
<1>. QED
  BY <1>4, <1>5

LEMMA ExitLives ==
  ASSUME Inv, Inv', NEW c \in Starts, ProcessExits(c)
  PROVE  LifecycleKept
<1>. USE DEF Inv, TypeOK, ProcessExits, End
<1>1. InMap' = InMap /\ InStart' = InStart /\ InKill' = InKill /\ survivors' = survivors
  BY DEF InMap, InStart, InKill
<1>2. Begun' = Begun
  BY DEF Begun, ProcessStates
<1>3. Running' \in {Running, Running \ {c}}
  <2>1. \A e \in Starts \ {c} : Up(e)' <=> Up(e)
    BY DEF Up
  <2>2. Up(c)' => Up(c)
    BY DEF Up
  <2>. QED
    BY <2>1, <2>2 DEF Running
<1>. QED
  BY <1>1, <1>2, <1>3, ProcessEnds

LEMMA LifecycleStep == Inv /\ Inv' /\ [Next]_vars => LifecycleKept
<1>. SUFFICES ASSUME Inv, Inv', [Next]_vars PROVE LifecycleKept
  OBVIOUS
<1>1. ASSUME NEW c \in Starts, Start(c) PROVE LifecycleKept
  BY <1>1, ServerLives, WorkerLives, MapLives DEF Start
<1>2. ASSUME NEW c \in Starts \cup Stops, StopPair(c) PROVE LifecycleKept
  BY <1>2, StopWorkerLives, StopServerLives DEF StopPair
<1>3. ASSUME NEW c \in Starts, ProcessExits(c) PROVE LifecycleKept
  BY <1>3, ExitLives
<1>4. ASSUME NEW d \in Stops, StopSession(d) PROVE LifecycleKept
  BY <1>4, TakeLives
<1>5. CASE UNCHANGED vars
  <2>1. Begun' = Begun /\ InStart' = InStart /\ InMap' = InMap /\ InKill' = InKill
        /\ Running' = Running /\ survivors' = survivors
    BY <1>5 DEF vars, Begun, InStart, InMap, InKill, Running, Up
  <2>. QED
    BY <2>1, LifecycleUnchanged
<1>. QED
  BY <1>1, <1>2, <1>3, <1>4, <1>5 DEF Next

(* The two processes of a session, launched one after the other and        *)
(* exiting at any moment, are one browser to the service: begun once,      *)
(* registered or stopped by its start, and taken and stopped by one stop.  *)
THEOREM RuntimeImplementsLifecycle == Spec => ImplementsLifecycle
<1>1. Init => Lifecycle!Init
  BY CallsAssumption
  DEF Init, Lifecycle!Init, Up, Starting, Killing
<1>. QED
  BY <1>1, LifecycleStep, InvHolds, PTL
  DEF Spec, ImplementsLifecycle, Lifecycle!Spec, LifecycleKept

-----------------------------------------------------------------------------
(***************************************************************************)
(* One owner                                                               *)
(***************************************************************************)

(* A browser in somebody's hands has been begun, and is not begun again:   *)
(* so the hands stay apart.                                                *)
Owners(begun, starting, mapped, kills, running, lost) ==
    /\ starting \subseteq begun /\ mapped \subseteq begun
    /\ \A k \in kills : k[2] \in begun \ (starting \cup mapped)
    /\ \A j, k \in kills : j[2] = k[2] => j = k
    /\ starting \cap mapped = {}
    /\ \A a, b \in mapped : a = b
    /\ \A b \in running \ lost : b \in starting \cup mapped \/ \E k \in kills : k[2] = b

LifecycleInv == Owners(Begun, InStart, InMap, InKill, Running, survivors)

(* What becomes of a pair that is let go: it is gone, or a survivor.       *)
LetGo(b) ==
    \/ Running' = Running \ {b} /\ survivors' = survivors
    \/ b \in Running /\ survivors' = survivors \cup {b} /\ Running' = Running

LEMMA OwnersKept == LifecycleInv /\ LifecycleKept => LifecycleInv'
<1>. SUFFICES ASSUME LifecycleInv, LifecycleKept PROVE LifecycleInv'
  OBVIOUS
<1>1. ASSUME NEW b \in Starts, Lifecycle!Begin(b) PROVE LifecycleInv'
  <2>1. /\ b \notin Begun /\ Begun' = Begun \cup {b} /\ InStart' = InStart \cup {b}
        /\ Running' = Running \cup {b} /\ InMap' = InMap /\ InKill' = InKill
        /\ survivors' = survivors
    BY <1>1 DEF Lifecycle!Begin, Begun, InStart, InMap, InKill, Running
  <2>. QED
    BY <2>1 DEF LifecycleInv, Owners
<1>2. ASSUME NEW b \in Starts, Lifecycle!Launch(b) PROVE LifecycleInv'
  <2>1. /\ b \in InStart /\ Running' = Running \cup {b}
        /\ Begun' = Begun /\ InStart' = InStart /\ InMap' = InMap /\ InKill' = InKill
        /\ survivors' = survivors
    BY <1>2 DEF Lifecycle!Launch, Begun, InStart, InMap, InKill, Running
  <2>. QED
    BY <2>1 DEF LifecycleInv, Owners
<1>3. ASSUME NEW b \in Starts, Lifecycle!Register(b) PROVE LifecycleInv'
  <2>1. /\ b \in InStart /\ InStart' = InStart \ {b} /\ InMap' = InMap \cup {b}
        /\ Begun' = Begun /\ InKill' = InKill /\ Running' = Running
        /\ survivors' = survivors
    BY <1>3 DEF Lifecycle!Register, Begun, InStart, InMap, InKill, Running
  <2>2. InMap = {}
    <3>1. InMap \subseteq Starts
      BY DEF LifecycleInv, Owners, Begun
    <3>2. \A other \in InMap : [c \in Starts |-> "id"][other] # [c \in Starts |-> "id"][b]
      BY <1>3 DEF Lifecycle!Register, InMap
    <3>. QED
      BY <3>1, <3>2
  <2>. QED
    BY <2>1, <2>2 DEF LifecycleInv, Owners
<1>4. ASSUME NEW b \in Starts, Lifecycle!Discard(b) PROVE LifecycleInv'
  <2>1. /\ b \in InStart /\ InStart' = InStart \ {b} /\ LetGo(b)
        /\ Begun' = Begun /\ InMap' = InMap /\ InKill' = InKill
    BY <1>4
    DEF Lifecycle!Discard, Lifecycle!LetGo, LetGo, Begun, InStart, InMap, InKill, Running
  <2>. QED
    BY <2>1 DEF LifecycleInv, Owners, LetGo
<1>5. ASSUME NEW b \in Starts, Lifecycle!Exit(b) PROVE LifecycleInv'
  <2>1. /\ Running' = Running \ {b} /\ survivors' = survivors
        /\ Begun' = Begun /\ InStart' = InStart /\ InMap' = InMap /\ InKill' = InKill
    BY <1>5 DEF Lifecycle!Exit, Begun, InStart, InMap, InKill, Running
  <2>. QED
    BY <2>1 DEF LifecycleInv, Owners
<1>6. ASSUME NEW d \in Stops, NEW b \in Starts, Lifecycle!Take(d, b) PROVE LifecycleInv'
  <2>1. /\ b \in InMap /\ InMap' = InMap \ {b} /\ InKill' = InKill \cup {<<d, b>>}
        /\ Begun' = Begun /\ InStart' = InStart /\ Running' = Running
        /\ survivors' = survivors
    BY <1>6 DEF Lifecycle!Take, Begun, InStart, InMap, InKill, Running
  <2>2. b \in Begun /\ b \notin InStart /\ \A k \in InKill : k[2] # b
    BY <2>1 DEF LifecycleInv, Owners
  <2>3. \A k \in InKill' : k \in InKill \/ (k = <<d, b>> /\ k[2] = b)
    BY <2>1
  <2>4. \A k \in InKill' : k[2] \in Begun' \ (InStart' \cup InMap')
    BY <2>1, <2>2, <2>3 DEF LifecycleInv, Owners
  <2>5. \A j, k \in InKill' : j[2] = k[2] => j = k
    BY <2>2, <2>3 DEF LifecycleInv, Owners
  <2>6. \A x \in Running' \ survivors' : x \in InStart' \cup InMap' \/ \E k \in InKill' : k[2] = x
    <3>1. \E k \in InKill' : k[2] = b
      <4>1. <<d, b>> \in InKill' /\ <<d, b>>[2] = b
        BY <2>1
      <4>. QED
        BY <4>1
    <3>. QED
      BY <2>1, <3>1 DEF LifecycleInv, Owners
  <2>. QED
    BY <2>1, <2>4, <2>5, <2>6 DEF LifecycleInv, Owners
<1>7. ASSUME NEW d \in Stops, NEW b \in Starts, Lifecycle!End(d, b) PROVE LifecycleInv'
  <2>1. /\ <<d, b>> \in InKill /\ InKill' = InKill \ {<<d, b>>} /\ LetGo(b)
        /\ Begun' = Begun /\ InStart' = InStart /\ InMap' = InMap
    BY <1>7
    DEF Lifecycle!End, Lifecycle!LetGo, LetGo, Begun, InStart, InMap, InKill, Running
  <2>2. \A k \in InKill : k[2] # b => k \in InKill'
    BY <2>1
  <2>3. \A x \in Running' \ survivors' : x \in InStart' \cup InMap' \/ \E k \in InKill' : k[2] = x
    BY <2>1, <2>2 DEF LifecycleInv, Owners, LetGo
  <2>. QED
    BY <2>1, <2>3 DEF LifecycleInv, Owners
<1>8. CASE Lifecycle!Die
  <2>1. /\ InStart' = {} /\ InMap' = {} /\ InKill' = {} /\ survivors' = survivors \cup Running
        /\ Begun' = Begun /\ Running' = Running
    BY <1>8 DEF Lifecycle!Die, Begun, InStart, InMap, InKill, Running
  <2>. QED
    BY <2>1 DEF LifecycleInv, Owners
<1>9. CASE UNCHANGED Lifecycle!lifecycle
  <2>1. /\ Begun' = Begun /\ InStart' = InStart /\ InMap' = InMap /\ InKill' = InKill
        /\ Running' = Running /\ survivors' = survivors
    BY <1>9 DEF Lifecycle!lifecycle, Begun, InStart, InMap, InKill, Running
  <2>. QED
    BY <2>1 DEF LifecycleInv
<1>. QED
  BY <1>1, <1>2, <1>3, <1>4, <1>5, <1>6, <1>7, <1>8, <1>9 DEF LifecycleKept, Lifecycle!Next

(* Whoever implements the lifecycle keeps every browser in one pair of     *)
(* hands; the proof looks at the steps of the lifecycle only.              *)
THEOREM LifecycleOneOwner == Lifecycle!Spec => []Lifecycle!OneOwner
<1>1. Lifecycle!Init => LifecycleInv
  <2>1. Lifecycle!Init => /\ Begun = {} /\ InStart = {} /\ InMap = {} /\ InKill = {}
                          /\ Running = {} /\ survivors = {}
    BY DEF Lifecycle!Init, Begun, InStart, InMap, InKill, Running
  <2>. QED
    BY <2>1 DEF LifecycleInv, Owners
<1>2. LifecycleInv => Lifecycle!OneOwner
  <2>. SUFFICES ASSUME LifecycleInv PROVE Lifecycle!OneOwner
    OBVIOUS
  <2>. DEFINE Killed == {k[2] : k \in InKill}
  <2>1. /\ InStart \cap InMap = {} /\ (InStart \cup InMap) \cap Killed = {}
        /\ \A j, k \in InKill : j[2] = k[2] => j = k
        /\ \A a, b \in InMap : a = b
        /\ Running \subseteq InStart \cup InMap \cup Killed \cup survivors
    BY DEF LifecycleInv, Owners
  <2>2. Lifecycle!Killed = Killed
    BY DEF Lifecycle!Killed, InKill
  <2>. QED
    BY <2>1, <2>2 DEF Lifecycle!OneOwner, InStart, InMap, InKill, Running
<1>. QED
  BY <1>1, <1>2, OwnersKept, PTL DEF Lifecycle!Spec, LifecycleKept

(* No pair of processes is ever stopped by two stops, or by one while it   *)
(* is in the map or still being started (StopSession, Register).           *)
THEOREM PairsOneOwner == Spec => []Lifecycle!OneOwner
  BY RuntimeImplementsLifecycle, LifecycleOneOwner, PTL DEF ImplementsLifecycle
=============================================================================
