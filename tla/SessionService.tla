--------------------------- MODULE SessionService ---------------------------
(***************************************************************************)
(* The session half of internal/app/automation_service.go, running over a  *)
(* store (MemoryStore or the PostgreSQL repository) and a browser runtime. *)
(*                                                                         *)
(* Every RPC is a goroutine of its own: an element of Calls, free to serve *)
(* a new request as soon as it has answered.  The service takes no lock    *)
(* across a handler, so a handler is split at each access to the store and *)
(* to the runtime; what it does between two accesses touches only its own  *)
(* copy of the row.  A row is always written back whole: what a handler    *)
(* writes depends only on the copy it read at its start, never on what the *)
(* row has become meanwhile.                                               *)
(*                                                                         *)
(* A request with an empty request_id is given a random one that no other  *)
(* request carries (automation_service.go:58-60); here it is a request id  *)
(* that happens to be used once.  Calls that change nothing (a lookup that *)
(* fails, Get of a session that has not lapsed, Stop of a finalized        *)
(* session) are stuttering steps and have no action.                       *)
(***************************************************************************)
EXTENDS Naturals, FiniteSets, SessionStatus

CONSTANTS
    Calls,          \* handler goroutines that may be in flight together
    Sessions,       \* session ids the generator may hand out
    RequestIds,     \* request ids the clients use
    None,           \* no session, no request
    MaxFaults,      \* bound: store writes that report an error
    MaxCrashes      \* bound: deaths of the service process

ASSUME NoneAssumption == None \notin Sessions /\ None \notin RequestIds
ASSUME BoundsAssumption == MaxFaults \in Nat /\ MaxCrashes \in Nat

VARIABLES
    row,        \* the store: session id -> [status, req], "ABSENT" before insert
    pc,         \* where each call is in its handler
    req, sid,   \* the call's request id and the session it works on
    entry,      \* Runtime.sessions: ids that have a sessionRuntime in the map
    alive,      \* sessions whose browser processes are running
    lapsed,     \* sessions whose expires_at has passed
    answered,   \* history: <<request id, session id>> told to clients
    launched,   \* history: sessions a browser was ever started for
    overlapped, \* history: sessions taken from the map while still starting
    orphans,    \* history: sessions whose processes outlived the service or SIGKILL
    faults,     \* how many store writes reported an error
    crashes     \* how many times the service process died

calls   == <<pc, req, sid>>
browser == <<entry, alive, launched, overlapped, orphans>>
vars    == <<row, calls, browser, lapsed, answered, faults, crashes>>

-----------------------------------------------------------------------------
Absent == [status |-> "ABSENT", req |-> None]

Stored(s) == row[s].status # "ABSENT"

(* Mutant: neither the lookup nor the unique index finds the row. *)
BoundToNothing(r) == {s \in Sessions : FALSE}

(* The rows a request id is bound to: what GetSessionByRequestID finds and *)
(* the unique index on request_id refuses to add to.                       *)
Bound(r) == {s \in Sessions : Stored(s) /\ row[s].req = r}

(* A client can name only a session it was told about. *)
Known(s) == \E r \in RequestIds : <<r, s>> \in answered

StartingPcs == {"launch", "connect", "record_running"}
TakingPcs   == {"expire_take", "stop_take"}
KillingPcs  == {"expire_kill", "stop_kill"}

PCs == {"idle", "create", "record_failed", "record_expired",
        "record_stopping", "record_stopped", "record_stop_failed"}
         \cup StartingPcs \cup TakingPcs \cup KillingPcs

StartInFlight(s) == \E c \in Calls : sid[c] = s /\ pc[c] \in StartingPcs

Goto(c, label) == pc' = [pc EXCEPT ![c] = label] /\ UNCHANGED <<req, sid>>

Reply(c) ==
    /\ pc'  = [pc  EXCEPT ![c] = "idle"]
    /\ req' = [req EXCEPT ![c] = None]
    /\ sid' = [sid EXCEPT ![c] = None]

Told(r, s) == answered' = answered \cup {<<r, s>>}

(* UpdateSession that is stored and reports no error. *)
Update(s, status) ==
    /\ row' = [row EXCEPT ![s].status = status]
    /\ UNCHANGED faults

(* UpdateSession that reports an error: a cancelled request context, a     *)
(* statement timeout or a lost connection.  Whether the statement took     *)
(* effect is not known.                                                    *)
UpdateFails(s, status) ==
    /\ faults < MaxFaults
    /\ faults' = faults + 1
    /\ row' \in {row, [row EXCEPT ![s].status = status]}

-----------------------------------------------------------------------------
(***************************************************************************)
(* StartBrowserSession                                                     *)
(***************************************************************************)

(* The row of an earlier request with this id is returned as it is. *)
StartAgain(c, r, s) ==
    /\ pc[c] = "idle"
    /\ s \in Bound(r)
    /\ Told(r, s)
    /\ UNCHANGED <<row, calls, browser, lapsed, faults, crashes>>

(* No row yet and a ttl that is not negative. *)
StartLookup(c, r) ==
    /\ pc[c] = "idle"
    /\ Bound(r) = {}
    /\ pc'  = [pc  EXCEPT ![c] = "create"]
    /\ req' = [req EXCEPT ![c] = r]
    /\ UNCHANGED <<row, sid, browser, lapsed, answered, faults, crashes>>

(* The insert of a fresh session id; the unique index decides. *)
Create(c, s) ==
    /\ pc[c] = "create"
    /\ ~Stored(s)
    /\ Bound(req[c]) = {}
    /\ row' = [row EXCEPT ![s] = [status |-> "STARTING", req |-> req[c]]]
    /\ \/ /\ pc'  = [pc  EXCEPT ![c] = "launch"]
          /\ sid' = [sid EXCEPT ![c] = s]
          /\ UNCHANGED <<req, faults>>
       \/ /\ faults < MaxFaults          \* stored, but the call sees an error
          /\ faults' = faults + 1
          /\ Reply(c)
    /\ UNCHANGED <<browser, lapsed, answered, crashes>>

(* A duplicate request id, or an insert that failed and left nothing. *)
CreateFails(c) ==
    /\ pc[c] = "create"
    /\ \/ Bound(req[c]) # {} /\ UNCHANGED faults
       \/ faults < MaxFaults /\ faults' = faults + 1
    /\ Reply(c)
    /\ UNCHANGED <<row, browser, lapsed, answered, crashes>>

(* runtime.StartSession launches the server process. *)
Launch(c) ==
    /\ pc[c] = "launch"
    /\ alive' = alive \cup {sid[c]}
    /\ launched' = launched \cup {sid[c]}
    /\ Goto(c, "connect")
    /\ UNCHANGED <<row, entry, lapsed, answered, overlapped, orphans, faults, crashes>>

(* Mutant: the running session is not registered. *)
ConnectOnly(c) ==
    /\ pc[c] = "connect"
    /\ Goto(c, "record_running")
    /\ UNCHANGED <<row, browser, lapsed, answered, faults, crashes>>

(* Server and worker are up: the session enters the runtime's map. *)
Connect(c) ==
    /\ pc[c] = "connect"
    /\ entry' = entry \cup {sid[c]}
    /\ Goto(c, "record_running")
    /\ UNCHANGED <<row, alive, launched, lapsed, answered, overlapped, orphans, faults, crashes>>

(* stopCommand of a session's processes: they are gone; or one outlives    *)
(* SIGKILL by more than a second ("did not exit after kill") and is in     *)
(* nobody's hands from then on.                                            *)
Gone(s)     == alive' = alive \ {s} /\ UNCHANGED orphans
Outlives(s) == s \in alive /\ orphans' = orphans \cup {s} /\ UNCHANGED alive

(* Mutants: the server is left running; the failure is not recorded. *)
StartFailsUnstopped(c) ==
    /\ pc[c] \in {"launch", "connect"}
    /\ Goto(c, "record_failed")
    /\ UNCHANGED <<row, browser, lapsed, answered, faults, crashes>>

StartFailsUnrecorded(c) ==
    /\ pc[c] \in {"launch", "connect"}
    /\ alive' = alive \ {sid[c]}
    /\ Reply(c)
    /\ UNCHANGED <<row, entry, launched, lapsed, answered, overlapped, orphans, faults, crashes>>

(* Unsupported kind, failed launch, exit, timeout or cancelled context:    *)
(* what was launched is stopped before the error is returned, and what the *)
(* stop reports is ignored.                                                *)
StartFails(c) ==
    /\ pc[c] \in {"launch", "connect"}
    /\ Gone(sid[c]) \/ Outlives(sid[c])
    /\ Goto(c, "record_failed")
    /\ UNCHANGED <<row, entry, launched, lapsed, answered, overlapped, faults, crashes>>

RecordRunning(c) ==
    /\ pc[c] = "record_running"
    /\ \/ Update(sid[c], "RUNNING") /\ Told(req[c], sid[c])
       \/ UpdateFails(sid[c], "RUNNING") /\ UNCHANGED answered
    /\ Reply(c)
    /\ UNCHANGED <<browser, lapsed, crashes>>

(* The result of the update is ignored; the session is returned. *)
RecordFailed(c) ==
    /\ pc[c] = "record_failed"
    /\ Update(sid[c], "FAILED") \/ UpdateFails(sid[c], "FAILED")
    /\ Told(req[c], sid[c])
    /\ Reply(c)
    /\ UNCHANGED <<browser, lapsed, crashes>>

-----------------------------------------------------------------------------
(***************************************************************************)
(* StopBrowserSession, and GetBrowserSession with expireSessionIfNeeded    *)
(* (which StartBrowserTask and ExecuteBrowserCommands call too)            *)
(***************************************************************************)

ReadFor(c, s, label) ==
    /\ pc[c] = "idle"
    /\ Known(s)
    /\ ~SessionStatusIsFinal(row[s].status)
    /\ pc'  = [pc  EXCEPT ![c] = label]
    /\ sid' = [sid EXCEPT ![c] = s]
    /\ UNCHANGED <<row, req, browser, lapsed, answered, faults, crashes>>

StopBrowserSession(c, s) == ReadFor(c, s, "record_stopping")

GetLapsedSession(c, s) == s \in lapsed /\ ReadFor(c, s, "expire_take")

RecordStopping(c) ==
    /\ pc[c] = "record_stopping"
    /\ \/ Update(sid[c], "STOPPING") /\ Goto(c, "stop_take")
       \/ UpdateFails(sid[c], "STOPPING") /\ Reply(c)
    /\ UNCHANGED <<browser, lapsed, answered, crashes>>

(* Runtime.StopSession: read and delete the map entry under the mutex.     *)
(* With no entry there is nothing to kill.                                 *)
Take(c, left) ==
    /\ entry' = left
    /\ overlapped' = IF StartInFlight(sid[c]) THEN overlapped \cup {sid[c]} ELSE overlapped
    /\ \/ /\ pc[c] = "expire_take"
          /\ Goto(c, IF sid[c] \in entry THEN "expire_kill" ELSE "record_expired")
       \/ /\ pc[c] = "stop_take"
          /\ Goto(c, IF sid[c] \in entry THEN "stop_kill" ELSE "record_stopped")
    /\ UNCHANGED <<row, alive, launched, orphans, lapsed, answered, faults, crashes>>

(* Mutant: the entry is read but not deleted. *)
TakeEntryKept(c) == Take(c, entry)

TakeEntry(c) == Take(c, entry \ {sid[c]})

(* sessionRuntime.stop outside the mutex.  It writes a line to the worker  *)
(* first, which may wait for ever (WorkerChannel).  That a process did not *)
(* exit after SIGKILL is reported of one whose exit a call has consumed,   *)
(* too; only Stop looks at the report.                                     *)
Kill(c) ==
    /\ pc[c] \in KillingPcs
    /\ \/ /\ Gone(sid[c])
          /\ Goto(c, IF pc[c] = "expire_kill" THEN "record_expired" ELSE "record_stopped")
       \/ /\ Gone(sid[c]) \/ Outlives(sid[c])
          /\ Goto(c, IF pc[c] = "expire_kill" THEN "record_expired" ELSE "record_stop_failed")
    /\ UNCHANGED <<row, entry, launched, overlapped, lapsed, answered, faults, crashes>>

(* The last write of Stop and of an expiry; the reply follows either way. *)
RecordEnd(c) ==
    /\ \E end \in {<<"record_stopped", "STOPPED">>,
                   <<"record_stop_failed", "FAILED">>,
                   <<"record_expired", "EXPIRED">>} :
         /\ pc[c] = end[1]
         /\ Update(sid[c], end[2]) \/ UpdateFails(sid[c], end[2])
    /\ Reply(c)
    /\ UNCHANGED <<browser, lapsed, answered, crashes>>

-----------------------------------------------------------------------------
(***************************************************************************)
(* The environment                                                         *)
(***************************************************************************)

(* The clock passes a session's expires_at. *)
Lapse(s) ==
    /\ Stored(s)
    /\ s \notin lapsed
    /\ lapsed' = lapsed \cup {s}
    /\ UNCHANGED <<row, calls, browser, answered, faults, crashes>>

(* The service process dies and is started again.  The store is the        *)
(* database; the map and the handlers are lost; browser processes have     *)
(* their own process group (Setpgid) and are not signalled.                *)
Crash ==
    /\ crashes < MaxCrashes
    /\ crashes' = crashes + 1
    /\ pc'  = [c \in Calls |-> "idle"]
    /\ req' = [c \in Calls |-> None]
    /\ sid' = [c \in Calls |-> None]
    /\ entry' = {}
    /\ orphans' = orphans \cup alive
    /\ UNCHANGED <<row, alive, launched, overlapped, lapsed, answered, faults>>

-----------------------------------------------------------------------------
Init ==
    /\ row = [s \in Sessions |-> Absent]
    /\ pc  = [c \in Calls |-> "idle"]
    /\ req = [c \in Calls |-> None]
    /\ sid = [c \in Calls |-> None]
    /\ entry = {} /\ alive = {} /\ lapsed = {}
    /\ answered = {} /\ launched = {} /\ overlapped = {} /\ orphans = {}
    /\ faults = 0 /\ crashes = 0

(* What a call in flight does next without a new request from a client. *)
Step(c) ==
    \/ \E s \in Sessions : Create(c, s)
    \/ CreateFails(c)
    \/ Launch(c) \/ Connect(c) \/ StartFails(c)
    \/ RecordRunning(c) \/ RecordFailed(c)
    \/ RecordStopping(c) \/ TakeEntry(c) \/ Kill(c) \/ RecordEnd(c)

Request(c) ==
    \/ \E r \in RequestIds : StartLookup(c, r)
    \/ \E r \in RequestIds, s \in Sessions : StartAgain(c, r, s)
    \/ \E s \in Sessions : StopBrowserSession(c, s) \/ GetLapsedSession(c, s)

Next ==
    \/ \E c \in Calls : Step(c) \/ Request(c)
    \/ \E s \in Sessions : Lapse(s)
    \/ Crash

Spec == Init /\ [][Next]_vars

(* Goroutines are scheduled; a start waits for its processes under         *)
(* StartupTimeout and stops them with nothing in their pipes; a statement  *)
(* has the statement timeout, which is taken to be positive, as it is by   *)
(* default (one of zero or less is none).  A stop is not fair: the write of*)
(* its first line has no timeout.  Clients owe nothing, and nothing says   *)
(* that a failing write ever succeeds.                                     *)
FairSpec ==
    Spec /\ \A c \in Calls : WF_vars(pc[c] \notin KillingPcs /\ Step(c))

-----------------------------------------------------------------------------
(***************************************************************************)
(* Properties                                                              *)
(***************************************************************************)

TypeOK ==
    /\ row \in [Sessions -> [status : SessionStatuses \cup {"ABSENT"},
                             req : RequestIds \cup {None}]]
    /\ pc  \in [Calls -> PCs]
    /\ req \in [Calls -> RequestIds \cup {None}]
    /\ sid \in [Calls -> Sessions \cup {None}]
    /\ entry \subseteq Sessions /\ alive \subseteq Sessions
    /\ lapsed \subseteq Sessions /\ launched \subseteq Sessions
    /\ overlapped \subseteq Sessions /\ orphans \subseteq Sessions
    /\ answered \subseteq RequestIds \X Sessions
    /\ faults \in 0..MaxFaults /\ crashes \in 0..MaxCrashes

(* Every answer to the same request id, first or repeated, before or after *)
(* a failure or a restart, names the same session.                         *)
SameRequestSameSession ==
    \A p, q \in answered : p[1] = q[1] => p[2] = q[2]

(* However often and however concurrently a start request is repeated, a   *)
(* browser is launched for it at most once.                                *)
OneLaunchPerRequest ==
    [][\A c \in Calls :
         Launch(c) => \A s \in launched : row[s].req # req[c]]_vars

(* A running browser is reachable: it is in the runtime's map, or a call   *)
(* that is starting or killing it still holds it.  Only the death of the   *)
(* service, or a process that SIGKILL does not end, leaves one behind.     *)
BrowserOwned ==
    \A s \in alive \ orphans :
        \/ s \in entry
        \/ \E c \in Calls : sid[c] = s /\ pc[c] \in {"connect"} \cup KillingPcs

(* Two calls never kill the same browser, and no call kills one that is    *)
(* still in the map, however Stops and expiries of a session overlap.      *)
StoppedByOne ==
    \A c \in Calls : pc[c] \in KillingPcs =>
        /\ sid[c] \notin entry
        /\ \A d \in Calls \ {c} : pc[d] \in KillingPcs => sid[d] # sid[c]

Quiet(s) == \A c \in Calls : sid[c] # s

(* A finalized session on which no call is at work has no browser, unless  *)
(* a Stop or an expiry overtook its Start, the service died, or SIGKILL did*)
(* not end it.                                                             *)
FinalSessionReleased ==
    \A s \in Sessions \ (overlapped \cup orphans) :
        Quiet(s) /\ SessionStatusIsFinal(row[s].status) => s \notin alive

(* As long as every store write is answered and the service lives, a row   *)
(* in RUNNING has its browser in the map or a call at work taking it away, *)
(* unless a Stop or an expiry overtook its Start.                          *)
RunningHasBrowser ==
    \A s \in Sessions \ overlapped :
        faults = 0 /\ crashes = 0 /\ row[s].status = "RUNNING" =>
            s \in entry \/ ~Quiet(s)

(* Once a session is final and no call is at work on it, its status never  *)
(* changes again: every later Stop or Get is refused or reads only.        *)
QuietFinal(s, status) == row[s].status = status /\ Quiet(s)
QuietFinalIsForever ==
    [][\A s \in Sessions, status \in FinalStatuses :
          QuietFinal(s, status) => QuietFinal(s, status)']_vars

(* What "browser session already finalized" and SessionStatusIsFinal say:  *)
(* a final status is never replaced.  A Start, Stop or expiry that read    *)
(* the row earlier does replace it.                                        *)
FinalStatusStays ==
    [][\A s \in Sessions : SessionStatusIsFinal(row[s].status) =>
            row'[s].status = row[s].status]_vars

(* As long as writes are answered and the service lives, no row stays for  *)
(* ever in STARTING or STOPPING, but for one whose browser a call is still *)
(* stopping.                                                               *)
Moving(s)      == row[s].status \in {"STARTING", "STOPPING"}
BeingKilled(s) == \E c \in Calls : sid[c] = s /\ pc[c] \in KillingPcs
RowsSettle ==
    \A s \in Sessions :
        Moving(s) ~> ~Moving(s) \/ BeingKilled(s) \/ faults > 0 \/ crashes > 0
=============================================================================
