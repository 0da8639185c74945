--------------------------- MODULE WorkerChannel ---------------------------
(***************************************************************************)
(* The channel between sessionRuntime (runtime.go) and its resident worker *)
(* process (scripts/worker.py): executeTask, readLine, stop and            *)
(* stopCommand on one side, the loop of main() over stdin on the other.    *)
(*                                                                         *)
(* Requests and answers are lines in two pipes and carry no sequence       *)
(* number that anyone compares: whoever reads next gets the next line.     *)
(* Each element of Tasks is one task and the call that executes it.        *)
(* StopSession has taken the runtime out of the map, so one caller stops   *)
(* it (SessionService proves that).                                        *)
(***************************************************************************)
EXTENDS Naturals, Sequences

CONSTANTS
    Tasks,      \* tasks, each executed by a call of its own
    None,       \* no task
    PipeSize,   \* requests that fit in the worker's stdin unread
    Long        \* tasks whose request does not fit in it even alone

StopLine  == "stop"     \* {"type":"stop"}
FatalLine == "fatal"    \* the error line main() leaves when it dies

VARIABLES
    pc,         \* task -> where its executeTask is
    got,        \* task -> the line its call took for its answer, or how it failed
    holder,     \* worker.mu: the call between Lock and Unlock
    stdin,      \* requests the worker has not read
    working,    \* the task the worker is executing
    stdout,     \* answers nobody has read
    scanning,   \* scanWorkerLines reads the worker's stdout
    proc,       \* "up", "exiting" (left its loop, or killed) or "exited"
    done,       \* the one-shot channel of cmd.Wait: "empty", "full", "taken"
    stopPc      \* where sessionRuntime.stop is

worker == <<stdin, working, stdout, scanning, proc, done>>
vars   == <<pc, got, holder, worker, stopPc>>

Lines == Tasks \cup {FatalLine}
Failures == {"write failed", "closed", "exited", "timeout"}

ASSUME ChannelAssumption ==
    /\ PipeSize \in Nat \ {0}
    /\ Long \subseteq Tasks
    /\ Tasks \cap ({None, StopLine, FatalLine} \cup Failures) = {}

-----------------------------------------------------------------------------
(***************************************************************************)
(* executeTask                                                             *)
(***************************************************************************)

(* Mutant: the worker's mutex is not taken. *)
LockFree(t) ==
    /\ pc[t] = "start"
    /\ pc' = [pc EXCEPT ![t] = "write"]
    /\ UNCHANGED <<got, holder, worker, stopPc>>

Lock(t) ==
    /\ pc[t] = "start"
    /\ holder = None
    /\ holder' = t
    /\ pc' = [pc EXCEPT ![t] = "write"]
    /\ UNCHANGED <<got, worker, stopPc>>

(* stdin.Write; it waits, with no timeout, while the pipe is full or has   *)
(* another write at work on it.  What does not fit is written as the worker*)
(* reads it, and the write is over when the worker has the line.           *)
Room == Len(stdin) < PipeSize /\ \A t \in Tasks : pc[t] # "writing"

Write(t) ==
    /\ pc[t] = "write"
    /\ proc # "exited"
    /\ Room
    /\ stdin' = Append(stdin, t)
    /\ pc' = [pc EXCEPT ![t] = IF t \in Long THEN "writing" ELSE "read"]
    /\ UNCHANGED <<got, holder, working, stdout, scanning, proc, done, stopPc>>

Unread(t) == \E i \in DOMAIN stdin : stdin[i] = t

Written(t) ==
    /\ pc[t] = "writing"
    /\ ~Unread(t)
    /\ pc' = [pc EXCEPT ![t] = "read"]
    /\ UNCHANGED <<got, holder, worker, stopPc>>

Return(t, result) ==
    /\ got' = [got EXCEPT ![t] = result]
    /\ pc'  = [pc  EXCEPT ![t] = "returned"]
    /\ holder' = None

(* Nobody reads the other end of the pipe any more. *)
WriteFails(t) ==
    /\ pc[t] = "write" \/ (pc[t] = "writing" /\ Unread(t))
    /\ proc = "exited"
    /\ Return(t, "write failed")
    /\ UNCHANGED <<worker, stopPc>>

(* readLine takes the next line of stdout, whichever task it answers. *)
ReadLine(t) ==
    /\ pc[t] = "read"
    /\ stdout # <<>>
    /\ stdout' = Tail(stdout)
    /\ Return(t, Head(stdout))
    /\ UNCHANGED <<stdin, working, scanning, proc, done, stopPc>>

(* The scanner is done, and so are the lines it had read. *)
ReadClosed(t) ==
    /\ pc[t] = "read"
    /\ (proc = "exited" \/ ~scanning) /\ stdout = <<>>
    /\ Return(t, "closed")
    /\ UNCHANGED <<worker, stopPc>>

(* readLine takes the exit of the process: nobody else will see it. *)
ReadDone(t) ==
    /\ pc[t] = "read"
    /\ done = "full"
    /\ done' = "taken"
    /\ Return(t, "exited")
    /\ UNCHANGED <<stdin, working, stdout, scanning, proc, stopPc>>

(* Mutant: the mutex is not released after a timeout. *)
ReadTimesOutLocked(t) ==
    /\ pc[t] = "read"
    /\ got' = [got EXCEPT ![t] = "timeout"]
    /\ pc'  = [pc  EXCEPT ![t] = "returned"]
    /\ UNCHANGED <<holder, worker, stopPc>>

(* The task's timeout, or its context is done. *)
ReadTimesOut(t) ==
    /\ pc[t] = "read"
    /\ Return(t, "timeout")
    /\ UNCHANGED <<worker, stopPc>>

-----------------------------------------------------------------------------
(***************************************************************************)
(* The worker process                                                      *)
(***************************************************************************)

(* for line in sys.stdin *)
WorkerReads ==
    /\ proc = "up" /\ working = None
    /\ stdin # <<>>
    /\ stdin' = Tail(stdin)
    /\ IF Head(stdin) = StopLine
       THEN proc' = "exiting" /\ UNCHANGED working
       ELSE working' = Head(stdin) /\ UNCHANGED proc
    /\ UNCHANGED <<pc, got, holder, stdout, scanning, done, stopPc>>

(* Mutant: the worker may send an answer more than once. *)
WorkerAnswersAgain ==
    /\ proc = "up" /\ working # None /\ Len(stdout) < 3
    /\ stdout' = Append(stdout, working)
    /\ working' \in {working, None}
    /\ UNCHANGED <<pc, got, holder, stdin, scanning, proc, done, stopPc>>

(* write_json(execute_task(...)) *)
WorkerAnswers ==
    /\ proc = "up" /\ working # None
    /\ scanning
    /\ stdout' = Append(stdout, working)
    /\ working' = None
    /\ UNCHANGED <<pc, got, holder, stdin, scanning, proc, done, stopPc>>

(* An answer of more than 16 MiB (the html of a page) ends the scanner; the*)
(* worker is left in the write of a line that nobody reads to its end.     *)
WorkerAnswersTooLong ==
    /\ proc = "up" /\ working # None
    /\ scanning
    /\ scanning' = FALSE
    /\ UNCHANGED <<pc, got, holder, stdin, working, stdout, proc, done, stopPc>>

(* main() raises: the browser is gone, a line is not JSON. *)
WorkerFails ==
    /\ proc = "up"
    /\ scanning
    /\ proc' = "exiting"
    /\ stdout' = Append(stdout, FatalLine)
    /\ working' = None
    /\ UNCHANGED <<pc, got, holder, stdin, scanning, done, stopPc>>

(* Interrupted, killed, out of memory, or past its finally block. *)
WorkerExits ==
    /\ proc # "exited"
    /\ proc' = "exited"
    /\ working' = None
    /\ UNCHANGED <<pc, got, holder, stdin, stdout, scanning, done, stopPc>>

(* cmd.Wait sends the exit and closes the read end of stdout: lines not    *)
(* yet scanned are lost.                                                   *)
Reap ==
    /\ proc = "exited" /\ done = "empty"
    /\ done' = "full"
    /\ \E n \in 0..Len(stdout) : stdout' = SubSeq(stdout, 1, n)
    /\ UNCHANGED <<pc, got, holder, stdin, working, scanning, proc, stopPc>>

-----------------------------------------------------------------------------
(***************************************************************************)
(* workerProcess.stop and stopCommand                                      *)
(***************************************************************************)

StopGoto(label) == stopPc' = label /\ UNCHANGED <<pc, got, holder>>

StopRequested ==
    /\ stopPc = "none"
    /\ StopGoto("write")
    /\ UNCHANGED worker

(* The stop line is written without worker.mu; it too waits for room. *)
StopWrites ==
    /\ stopPc = "write"
    /\ \/ /\ proc # "exited" /\ Room
          /\ stdin' = Append(stdin, StopLine)
       \/ proc = "exited" /\ UNCHANGED stdin
    /\ StopGoto("wait")
    /\ UNCHANGED <<working, stdout, scanning, proc, done>>

Waits == {"wait", "poll", "interrupted", "killed"}

(* <-done *)
StopSeesExit ==
    /\ stopPc \in Waits
    /\ done = "full"
    /\ done' = "taken"
    /\ StopGoto("stopped")
    /\ UNCHANGED <<stdin, working, stdout, scanning, proc>>

(* Mutant: the first timeout counts as an exit. *)
StopEscalatesQuietly ==
    /\ stopPc = "wait"
    /\ StopGoto("stopped")
    /\ UNCHANGED worker

(* No exit in time: stopCommand polls once, interrupts, waits and kills.   *)
(* SIGKILL ends the process; whether Wait reports it within the second     *)
(* that follows is another matter.                                         *)
StopEscalates ==
    /\ \/ stopPc = "wait" /\ StopGoto("poll") /\ UNCHANGED proc
       \/ stopPc = "poll" /\ done # "full" /\ StopGoto("interrupted") /\ UNCHANGED proc
       \/ /\ stopPc = "interrupted"
          /\ StopGoto("killed")
          /\ proc' = IF proc = "up" THEN "exiting" ELSE proc
       \/ stopPc = "killed" /\ StopGoto("gave up") /\ UNCHANGED proc
    /\ UNCHANGED <<stdin, working, stdout, scanning, done>>

-----------------------------------------------------------------------------
Init ==
    /\ pc  = [t \in Tasks |-> "start"]
    /\ got = [t \in Tasks |-> None]
    /\ holder = None
    /\ stdin = <<>> /\ stdout = <<>> /\ working = None
    /\ scanning = TRUE
    /\ proc = "up" /\ done = "empty"
    /\ stopPc = "none"

Call(t) ==
    \/ Lock(t) \/ Write(t) \/ Written(t) \/ WriteFails(t)
    \/ ReadLine(t) \/ ReadClosed(t) \/ ReadDone(t) \/ ReadTimesOut(t)

Worker ==
    \/ WorkerReads \/ WorkerAnswers \/ WorkerAnswersTooLong
    \/ WorkerFails \/ WorkerExits

Stop == StopWrites \/ StopSeesExit \/ StopEscalates

Next ==
    \/ \E t \in Tasks : Call(t)
    \/ Worker \/ Reap
    \/ StopRequested \/ Stop

Spec == Init /\ [][Next]_vars

(* Go's goroutines run, timers fire, and the kernel ends a killed process. *)
(* Nothing is assumed of the worker's Python: a browser call may hang.     *)
FairSpec ==
    /\ Spec
    /\ \A t \in Tasks : WF_vars(Call(t))
    /\ WF_vars(Stop)
    /\ WF_vars(Reap)
    /\ WF_vars(proc = "exiting" /\ stopPc \in {"killed", "gave up"} /\ WorkerExits)

-----------------------------------------------------------------------------
(***************************************************************************)
(* Properties                                                              *)
(***************************************************************************)

TypeOK ==
    /\ pc  \in [Tasks -> {"start", "write", "writing", "read", "returned"}]
    /\ got \in [Tasks -> Lines \cup Failures \cup {None}]
    /\ holder \in Tasks \cup {None}
    /\ stdin \in Seq(Tasks \cup {StopLine}) /\ Len(stdin) <= PipeSize
    /\ working \in Tasks \cup {None}
    /\ stdout \in Seq(Lines)
    /\ scanning \in BOOLEAN
    /\ proc \in {"up", "exiting", "exited"}
    /\ done \in {"empty", "full", "taken"}
    /\ stopPc \in {"none", "write", "stopped", "gave up"} \cup Waits

(* A call that is given the answer of another task takes it from a call    *)
(* that has already returned without it; it never robs one that waits.     *)
ForeignAnswersAreStale ==
    \A t \in Tasks : got[t] \in Tasks \ {t} =>
        pc[got[t]] = "returned" /\ got[got[t]] # got[t]

(* No answer of the worker is given to two calls.                          *)
NoAnswerTwice ==
    \A t, u \in Tasks : got[t] \in Tasks /\ got[t] = got[u] => t = u

(* A stop that reports success leaves no worker process behind.            *)
StopReaps == stopPc = "stopped" => proc = "exited"

(* The response carries the task it answers ("task_id"), so the results    *)
(* of a call are those of its own task.  After a timeout or a cancelled    *)
(* context they are those of an earlier task.                              *)
OwnAnswer == \A t \in Tasks : got[t] \in Tasks => got[t] = t

(* Every executeTask returns, and so does stop, though the worker hangs or *)
(* nobody reads what it writes any more: unless it hangs with no room in   *)
(* its stdin, where a write has no timeout.                                *)
ExchangesReturn ==
    \/ <>[]~Room
    \/ /\ \A t \in Tasks : <>(pc[t] = "returned")
       /\ stopPc = "write" ~> stopPc \in {"stopped", "gave up"}
=============================================================================
