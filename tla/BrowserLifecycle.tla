-------------------------- MODULE BrowserLifecycle --------------------------
(***************************************************************************)
(* What becomes of a browser, whoever keeps it: it is begun once, by the   *)
(* start that holds it; that start enters it into the map of its session   *)
(* or ends it; from the map one call takes it, and ends it.  The browsers  *)
(* of a service that dies, and those that SIGKILL does not end in time, are*)
(* lost: they run on, and nobody touches them.                             *)
(*                                                                         *)
(* SessionService implements this with sessions for browsers, over a       *)
(* runtime whose launch is two steps; CamoufoxRuntime, which is that       *)
(* runtime, with the pairs of processes of one session.                    *)
(***************************************************************************)
CONSTANTS Browsers, SessionOf, Calls

VARIABLES
    begun,      \* browsers that have ever been begun
    starting,   \* those in the hands of their start
    mapped,     \* those in the map
    kills,      \* <<call, browser>>: taken out of the map and not ended yet
    running,    \* those with a running process
    lost        \* those that were let go while they ran

lifecycle == <<begun, starting, mapped, kills, running, lost>>

Init ==
    /\ begun = {} /\ starting = {} /\ mapped = {} /\ kills = {}
    /\ running = {} /\ lost = {}

Begin(b) ==
    /\ b \notin begun
    /\ begun' = begun \cup {b}
    /\ starting' = starting \cup {b}
    /\ running' = running \cup {b}
    /\ UNCHANGED <<mapped, kills, lost>>

(* A start launches one process after the other, a browser that has lost   *)
(* the first runs again with the second.                                   *)
Launch(b) ==
    /\ b \in starting
    /\ running' = running \cup {b}
    /\ UNCHANGED <<begun, starting, mapped, kills, lost>>

Register(b) ==
    /\ b \in starting
    /\ \A other \in mapped : SessionOf[other] # SessionOf[b]
    /\ starting' = starting \ {b}
    /\ mapped' = mapped \cup {b}
    /\ UNCHANGED <<begun, kills, running, lost>>

(* It has ended, or it outlives SIGKILL. *)
LetGo(b) ==
    \/ running' = running \ {b} /\ UNCHANGED lost
    \/ b \in running /\ lost' = lost \cup {b} /\ UNCHANGED running

(* The start failed, or another one was faster. *)
Discard(b) ==
    /\ b \in starting
    /\ starting' = starting \ {b}
    /\ LetGo(b)
    /\ UNCHANGED <<begun, mapped, kills>>

Take(c, b) ==
    /\ b \in mapped
    /\ mapped' = mapped \ {b}
    /\ kills' = kills \cup {<<c, b>>}
    /\ UNCHANGED <<begun, starting, running, lost>>

End(c, b) ==
    /\ <<c, b>> \in kills
    /\ kills' = kills \ {<<c, b>>}
    /\ LetGo(b)
    /\ UNCHANGED <<begun, starting, mapped>>

(* The last process of a browser ends, by itself or while it is stopped. *)
Exit(b) ==
    /\ running' = running \ {b}
    /\ UNCHANGED <<begun, starting, mapped, kills, lost>>

Die ==
    /\ starting' = {} /\ mapped' = {} /\ kills' = {}
    /\ lost' = lost \cup running
    /\ UNCHANGED <<begun, running>>

Next ==
    \/ \E b \in Browsers : Begin(b) \/ Launch(b) \/ Register(b) \/ Discard(b) \/ Exit(b)
    \/ \E c \in Calls, b \in Browsers : Take(c, b) \/ End(c, b)
    \/ Die

Spec == Init /\ [][Next]_lifecycle

-----------------------------------------------------------------------------
Killed == {k[2] : k \in kills}

(* A browser is in one pair of hands: with its start, in the map, or with  *)
(* the one call that took it; a session has one browser in the map; and a  *)
(* browser that runs in no hands was lost.                                 *)
OneOwner ==
    /\ starting \cap mapped = {} /\ (starting \cup mapped) \cap Killed = {}
    /\ \A j, k \in kills : j[2] = k[2] => j = k
    /\ \A a, b \in mapped : SessionOf[a] = SessionOf[b] => a = b
    /\ running \subseteq starting \cup mapped \cup Killed \cup lost
=============================================================================
