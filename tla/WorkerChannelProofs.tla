------------------------ MODULE WorkerChannelProofs ------------------------
(***************************************************************************)
(* Proofs about WorkerChannel, for any number of tasks and any size of the *)
(* pipe.                                                                   *)
(***************************************************************************)
EXTENDS WorkerChannel, TLAPS

(* A call between Lock and Unlock holds worker.mu. *)
Locked == \A t \in Tasks : pc[t] \in {"write", "writing", "read"} => holder = t

(* A call has its result when it has returned, and not before. *)
GotReturned == \A t \in Tasks : got[t] # None => pc[t] = "returned"

ExitSeen ==
    /\ done \in {"full", "taken"} => proc = "exited"
    /\ StopReaps

Control == Locked /\ GotReturned /\ ExitSeen

(* What is in the pipes, in the worker or in a call's hand was sent.       *)
Sent(t) == pc[t] \in {"writing", "read", "returned"}

LinesSent ==
    /\ \A i \in DOMAIN stdin : stdin[i] \in Tasks => Sent(stdin[i])
    /\ working \in Tasks => Sent(working)
    /\ \A i \in DOMAIN stdout : stdout[i] \in Tasks => Sent(stdout[i])
    /\ \A t \in Tasks : got[t] \in Tasks => Sent(got[t])

(* A task's line, its execution and its answer: there is one of them, and  *)
(* it is in one place.                                                     *)
StdinOnce  == \A i, j \in DOMAIN stdin : stdin[i] \in Tasks /\ stdin[i] = stdin[j] => i = j
StdoutOnce == \A i, j \in DOMAIN stdout : stdout[i] \in Tasks /\ stdout[i] = stdout[j] => i = j

Apart ==
    /\ \A i \in DOMAIN stdin, j \in DOMAIN stdout : stdin[i] \in Tasks => stdin[i] # stdout[j]
    /\ \A i \in DOMAIN stdin : working \in Tasks => stdin[i] # working
    /\ \A i \in DOMAIN stdout : working \in Tasks => stdout[i] # working
    /\ \A t \in Tasks : got[t] \in Tasks =>
         /\ \A i \in DOMAIN stdin : stdin[i] # got[t]
         /\ \A i \in DOMAIN stdout : stdout[i] # got[t]
         /\ working # got[t]

(* The call of a foreign answer has returned already. *)
Stale == \A t \in Tasks : got[t] \in Tasks \ {t} => pc[got[t]] = "returned"

InPlace == LinesSent /\ StdinOnce /\ StdoutOnce /\ Apart /\ NoAnswerTwice /\ Stale

Inv == TypeOK /\ Control /\ InPlace

-----------------------------------------------------------------------------
LEMMA InvInit == Init => Inv
<1>. SUFFICES ASSUME Init PROVE Inv
  OBVIOUS
<1>1. DOMAIN stdin = {} /\ DOMAIN stdout = {}
  BY DEF Init
<1>2. scanning \in BOOLEAN
  BY DEF Init
<1>3. stdin \in Seq(Tasks \cup {StopLine}) /\ Len(stdin) <= PipeSize /\ stdout \in Seq(Lines)
  BY ChannelAssumption DEF Init
<1>4. TypeOK
  BY <1>2, <1>3 DEF Init, TypeOK
<1>5. Control
  BY DEF Init, Control, Locked, GotReturned, ExitSeen, StopReaps
<1>6. InPlace
  BY <1>1, ChannelAssumption
  DEF Init, InPlace, LinesSent, StdinOnce, StdoutOnce, Apart, NoAnswerTwice, Stale
<1>. QED
  BY <1>4, <1>5, <1>6 DEF Inv

-----------------------------------------------------------------------------
(***************************************************************************)
(* Pipes                                                                   *)
(***************************************************************************)

(* The lines of one pipe are those of another but for the first d, and     *)
(* some at the end.                                                        *)
Within(new, old, d) == \A i \in DOMAIN new : i + d \in DOMAIN old /\ new[i] = old[i + d]

(* One line more, at position n. *)
Longer(new, old, n, line) ==
    /\ DOMAIN new = DOMAIN old \cup {n} /\ n \notin DOMAIN old
    /\ new[n] = line
    /\ \A i \in DOMAIN old : new[i] = old[i]

LEMMA AppendLonger ==
  ASSUME NEW S, NEW s \in Seq(S), NEW line \in S
  PROVE  /\ Append(s, line) \in Seq(S)
         /\ Len(Append(s, line)) = Len(s) + 1
         /\ Longer(Append(s, line), s, Len(s) + 1, line)
  BY DEF Longer

LEMMA AppendBounded ==
  ASSUME NEW S, NEW s \in Seq(S), NEW line \in S, NEW bound \in Nat, Len(s) < bound
  PROVE  Append(s, line) \in Seq(S) /\ Len(Append(s, line)) <= bound
<1>1. Len(s) \in Nat
  OBVIOUS
<1>. QED
  BY <1>1, AppendLonger

LEMMA TailBounded ==
  ASSUME NEW S, NEW s \in Seq(S), s # <<>>, NEW bound \in Nat, Len(s) <= bound
  PROVE  Tail(s) \in Seq(S) /\ Len(Tail(s)) <= bound
<1>1. Len(s) \in Nat /\ Tail(s) \in Seq(S) /\ Len(Tail(s)) = Len(s) - 1
  OBVIOUS
<1>. QED
  BY <1>1

LEMMA TailWithin ==
  ASSUME NEW S, NEW s \in Seq(S), s # <<>>
  PROVE  /\ Tail(s) \in Seq(S)
         /\ Len(Tail(s)) = Len(s) - 1
         /\ 1 \in DOMAIN s /\ Head(s) = s[1] /\ s[1] \in S
         /\ Within(Tail(s), s, 1)
         /\ \A i \in DOMAIN Tail(s) : i + 1 # 1
  BY DEF Within

LEMMA PrefixWithin ==
  ASSUME NEW S, NEW s \in Seq(S), NEW n \in 0 .. Len(s)
  PROVE  /\ SubSeq(s, 1, n) \in Seq(S)
         /\ Within(SubSeq(s, 1, n), s, 0)
  BY DEF Within

LEMMA SameWithin ==
  ASSUME NEW S, NEW s \in Seq(S)
  PROVE  Within(s, s, 0)
  BY DEF Within

(* Lines may be lost, calls may go on and return without an answer: what   *)
(* is left stays in its place.                                             *)
LEMMA LinesShrink ==
  ASSUME TypeOK, InPlace, TypeOK',
         NEW d \in {0, 1}, Within(stdin', stdin, d),
         NEW e \in {0, 1}, Within(stdout', stdout, e),
         working' \in {working, None},
         \A t \in Tasks : got'[t] \in Tasks => got'[t] = got[t],
         \A t \in Tasks : Sent(t) => Sent(t)',
         \A t \in Tasks : pc[t] = "returned" => pc'[t] = "returned"
  PROVE  InPlace'
<1>1. /\ \A i \in DOMAIN stdin' : i + d \in DOMAIN stdin /\ stdin'[i] = stdin[i + d] /\ i \in Nat
      /\ \A i \in DOMAIN stdout' : i + e \in DOMAIN stdout /\ stdout'[i] = stdout[i + e] /\ i \in Nat
  <2>1. stdin' \in Seq(Tasks \cup {StopLine}) /\ stdout' \in Seq(Lines)
    BY DEF TypeOK
  <2>2. (\A i \in DOMAIN stdin' : i \in Nat) /\ (\A i \in DOMAIN stdout' : i \in Nat)
    BY <2>1
  <2>. QED
    BY <2>2 DEF Within
<1>2. StdinOnce' /\ StdoutOnce'
  BY <1>1 DEF InPlace, StdinOnce, StdoutOnce
<1>3. LinesSent'
  BY <1>1, ChannelAssumption DEF InPlace, LinesSent
<1>4. Apart'
  BY <1>1, ChannelAssumption DEF InPlace, Apart
<1>5. NoAnswerTwice' /\ Stale'
  BY DEF InPlace, NoAnswerTwice, Stale
<1>. QED
  BY <1>2, <1>3, <1>4, <1>5 DEF InPlace

-----------------------------------------------------------------------------
(***************************************************************************)
(* Steps that move no line                                                 *)
(***************************************************************************)

(* Those of a call that take no line: it takes the lock, sees the end of a *)
(* write, or comes back with a failure.                                    *)
LEMMA FailKeeps ==
  ASSUME Inv, NEW t \in Tasks,
         Lock(t) \/ Written(t) \/ WriteFails(t) \/ ReadClosed(t) \/ ReadDone(t) \/ ReadTimesOut(t)
  PROVE  Inv'
<1>. USE ChannelAssumption, SameWithin DEF worker
<1>1. TypeOK'
  BY DEF Inv, TypeOK, Lines, Failures, Lock, Written, WriteFails, ReadClosed, ReadDone,
         ReadTimesOut, Return
<1>2. Control'
  BY DEF Inv, TypeOK, Control, Locked, GotReturned, ExitSeen, StopReaps,
         Lock, Written, WriteFails, ReadClosed, ReadDone, ReadTimesOut, Return
<1>3. UNCHANGED <<stdin, stdout, working>>
  BY DEF Lock, Written, WriteFails, ReadClosed, ReadDone, ReadTimesOut
<1>4. \A u \in Tasks : got'[u] \in Tasks => got'[u] = got[u]
  BY DEF Inv, TypeOK, Failures, Lock, Written, WriteFails, ReadClosed, ReadDone, ReadTimesOut,
         Return
<1>5. \A u \in Tasks :
        /\ pc[u] \in {"writing", "read", "returned"} => pc'[u] \in {pc[u], "read", "returned"}
        /\ pc[u] = "returned" => pc'[u] = "returned"
  BY DEF Inv, TypeOK, Lock, Written, WriteFails, ReadClosed, ReadDone, ReadTimesOut, Return
<1>6. InPlace'
  <2>1. Within(stdin', stdin, 0) /\ Within(stdout', stdout, 0)
    BY <1>3 DEF Inv, TypeOK
  <2>. QED
    BY <1>1, <1>3, <1>4, <1>5, <2>1, LinesShrink DEF Inv, Sent
<1>. QED
  BY <1>1, <1>2, <1>6 DEF Inv

(* The worker exits or hangs, its exit is reaped, and stop escalates.      *)
LEMMA ExitKeeps ==
  ASSUME Inv, WorkerAnswersTooLong \/ WorkerExits \/ Reap \/ StopRequested
              \/ StopSeesExit \/ StopEscalates \/ UNCHANGED vars
  PROVE  Inv'
<1>. USE ChannelAssumption DEF worker
<1>1. stdout' \in Seq(Lines) /\ Within(stdout', stdout, 0)
  <2>1. CASE Reap
    <3>1. PICK n \in 0 .. Len(stdout) : stdout' = SubSeq(stdout, 1, n)
      BY <2>1 DEF Reap
    <3>2. stdout \in Seq(Lines)
      BY DEF Inv, TypeOK
    <3>. QED
      BY <3>1, <3>2, PrefixWithin
  <2>2. CASE UNCHANGED stdout
    BY <2>2, SameWithin DEF Inv, TypeOK
  <2>. QED
    BY <2>1, <2>2 DEF WorkerAnswersTooLong, WorkerExits, StopRequested, StopSeesExit,
                      StopEscalates, StopGoto, vars
<1>2. UNCHANGED <<stdin, pc, got, holder>> /\ working' \in {working, None}
  BY DEF WorkerAnswersTooLong, WorkerExits, Reap, StopRequested, StopSeesExit, StopEscalates,
         StopGoto, vars
<1>3. scanning' \in BOOLEAN
  BY DEF Inv, TypeOK, WorkerAnswersTooLong, WorkerExits, Reap, StopRequested, StopSeesExit,
         StopEscalates, StopGoto, vars
<1>4. /\ proc' \in {"up", "exiting", "exited"} /\ done' \in {"empty", "full", "taken"}
      /\ stopPc' \in {"none", "write", "stopped", "gave up"} \cup Waits
  BY DEF Inv, TypeOK, Waits, WorkerAnswersTooLong, WorkerExits, Reap, StopRequested,
         StopSeesExit, StopEscalates, StopGoto, vars
<1>5. TypeOK'
  BY <1>1, <1>2, <1>3, <1>4 DEF Inv, TypeOK
<1>6. ExitSeen'
  BY DEF Inv, TypeOK, Control, ExitSeen, StopReaps, Waits, WorkerAnswersTooLong, WorkerExits,
         Reap, StopRequested, StopSeesExit, StopEscalates, StopGoto, vars
<1>7. Control'
  BY <1>2, <1>6 DEF Inv, Control, Locked, GotReturned
<1>8. InPlace'
  <2>1. Within(stdin', stdin, 0)
    BY <1>2, SameWithin DEF Inv, TypeOK
  <2>. QED
    BY <1>1, <1>2, <1>5, <2>1, LinesShrink DEF Inv, Sent
<1>. QED
  BY <1>5, <1>7, <1>8 DEF Inv

-----------------------------------------------------------------------------
(***************************************************************************)
(* Steps that move a line                                                  *)
(***************************************************************************)

(* The call's own line enters the pipe; it was nowhere before. *)
LEMMA WriteKeeps ==
  ASSUME Inv, NEW t \in Tasks, Write(t)
  PROVE  Inv'
<1>. USE ChannelAssumption
<1>1. PICK n : Longer(stdin', stdin, n, t)
  BY AppendLonger DEF Inv, TypeOK, Write
<1>2. stdin' \in Seq(Tasks \cup {StopLine}) /\ Len(stdin') <= PipeSize
  <2>1. /\ stdin \in Seq(Tasks \cup {StopLine}) /\ Len(stdin) < PipeSize
        /\ stdin' = Append(stdin, t)
    BY DEF Inv, TypeOK, Write, Room
  <2>. QED
    BY <2>1, AppendBounded
<1>3. TypeOK'
  BY <1>2 DEF Inv, TypeOK, Write
<1>4. Control'
  BY DEF Inv, TypeOK, Control, Locked, GotReturned, ExitSeen, StopReaps, Write
<1>5. /\ pc[t] = "write" /\ pc'[t] \in {"writing", "read"}
      /\ \A u \in Tasks \ {t} : pc'[u] = pc[u]
      /\ UNCHANGED <<got, stdout, working>>
  BY DEF Inv, TypeOK, Write
<1>6. /\ \A i \in DOMAIN stdin : stdin[i] # t
      /\ \A i \in DOMAIN stdout : stdout[i] # t
      /\ working # t
      /\ \A u \in Tasks : got[u] # t
  BY <1>5 DEF Inv, InPlace, LinesSent, Sent
<1>. USE <1>1, <1>5 DEF Inv, TypeOK, InPlace
<1>7. LinesSent'
  <2>1. \A u \in Tasks : Sent(u) => Sent(u)'
    BY DEF Sent
  <2>2. Sent(t)'
    BY DEF Sent
  <2>. QED
    BY <2>1, <2>2 DEF Longer, LinesSent
<1>8. StdinOnce' /\ StdoutOnce'
  <2>. HIDE DEF TypeOK
  <2>1. \A i \in DOMAIN stdin' : (i = n /\ stdin'[i] = t)
                                 \/ (i \in DOMAIN stdin /\ stdin'[i] = stdin[i])
    BY DEF Longer
  <2>. QED
    BY <1>6, <2>1 DEF StdinOnce, StdoutOnce
<1>9. Apart'
  <2>1. \A i \in DOMAIN stdin' : stdin'[i] = t \/ (i \in DOMAIN stdin /\ stdin'[i] = stdin[i])
    BY DEF Longer
  <2>2. ASSUME NEW i \in DOMAIN stdin', NEW j \in DOMAIN stdout, stdin'[i] \in Tasks
        PROVE  stdin'[i] # stdout[j]
    <3>1. CASE stdin'[i] = t
      BY <1>6, <3>1
    <3>2. CASE i \in DOMAIN stdin /\ stdin'[i] = stdin[i]
      <4>. HIDE <1>1, <1>5
      <4>. HIDE DEF TypeOK
      <4>. QED
        BY <2>2, <3>2 DEF Apart
    <3>. QED
      BY <2>1, <3>1, <3>2
  <2>3. \A i \in DOMAIN stdin' : working \in Tasks => stdin'[i] # working
    BY <1>6, <2>1 DEF Apart
  <2>4. ASSUME NEW u \in Tasks, got[u] \in Tasks, NEW i \in DOMAIN stdin'
        PROVE  stdin'[i] # got[u]
    BY <1>6, <2>1, <2>4 DEF Apart
  <2>5. ASSUME NEW u \in Tasks, got[u] \in Tasks
        PROVE  (\A i \in DOMAIN stdout : stdout[i] # got[u]) /\ working # got[u]
    BY <2>5 DEF Apart
  <2>6. \A i \in DOMAIN stdout : working \in Tasks => stdout[i] # working
    BY DEF Apart
  <2>. HIDE DEF Inv, TypeOK, InPlace
  <2>. QED
    BY <1>5, <2>2, <2>3, <2>4, <2>5, <2>6 DEF Apart
<1>10. NoAnswerTwice' /\ Stale'
  BY DEF NoAnswerTwice, Stale
<1>. QED
  BY <1>3, <1>4, <1>7, <1>8, <1>9, <1>10

(* A line leaves stdin, for execution if it is a task. *)
LEMMA ReadKeeps ==
  ASSUME Inv, WorkerReads
  PROVE  Inv'
<1>. USE ChannelAssumption
<1>1. /\ stdin' \in Seq(Tasks \cup {StopLine}) /\ Len(stdin') <= PipeSize
      /\ 1 \in DOMAIN stdin /\ Head(stdin) = stdin[1] /\ stdin[1] \in Tasks \cup {StopLine}
      /\ Within(stdin', stdin, 1)
  <2>1. stdin \in Seq(Tasks \cup {StopLine}) /\ stdin # <<>> /\ stdin' = Tail(stdin)
    BY DEF Inv, TypeOK, WorkerReads
  <2>2. Len(stdin) <= PipeSize
    BY DEF Inv, TypeOK
  <2>3. Len(stdin') <= PipeSize
    BY <2>1, <2>2, TailBounded
  <2>. QED
    BY <2>1, <2>3, TailWithin
<1>2. TypeOK'
  BY <1>1 DEF Inv, TypeOK, WorkerReads
<1>3. Control'
  BY DEF Inv, TypeOK, Control, Locked, GotReturned, ExitSeen, StopReaps, WorkerReads
<1>4. UNCHANGED <<pc, got, stdout>> /\ working = None /\ Within(stdout', stdout, 0)
  BY SameWithin DEF Inv, TypeOK, WorkerReads
<1>5. CASE working' = None
  BY <1>1, <1>2, <1>3, <1>4, <1>5, LinesShrink DEF Inv, Sent
<1>6. CASE working' = stdin[1] /\ stdin[1] \in Tasks
  <2>1. \A i \in DOMAIN stdin' : i + 1 \in DOMAIN stdin /\ stdin'[i] = stdin[i + 1] /\ i \in Nat /\ i # 0
    <3>1. \A i \in DOMAIN stdin' : i \in Nat /\ i # 0
      BY <1>1
    <3>. QED
      BY <1>1, <3>1 DEF Within
  <2>. USE <1>1, <1>4, <1>6, <2>1 DEF Inv, InPlace
  <2>2. LinesSent'
    BY DEF LinesSent, Sent
  <2>3. StdinOnce' /\ StdoutOnce'
    BY DEF StdinOnce, StdoutOnce
  <2>4. \A i \in DOMAIN stdin' : stdin'[i] # working'
    BY DEF StdinOnce
  <2>5. Apart'
    BY <2>4 DEF Apart
  <2>6. NoAnswerTwice' /\ Stale'
    BY DEF NoAnswerTwice, Stale
  <2>. QED
    BY <1>2, <1>3, <2>2, <2>3, <2>5, <2>6
<1>. QED
  BY <1>1, <1>4, <1>5, <1>6 DEF WorkerReads

(* The task that is executed becomes its answer. *)
LEMMA AnswerKeeps ==
  ASSUME Inv, WorkerAnswers
  PROVE  Inv'
<1>. USE ChannelAssumption
<1>1. working \in Tasks /\ stdout \in Seq(Lines) /\ stdout' = Append(stdout, working)
  BY DEF Inv, TypeOK, WorkerAnswers
<1>2. stdout' \in Seq(Lines)
  BY <1>1, AppendLonger DEF Lines
<1>3. PICK n : Longer(stdout', stdout, n, working)
  BY <1>1, AppendLonger DEF Lines
<1>4. working' = None /\ UNCHANGED <<pc, got, stdin>>
  BY DEF WorkerAnswers
<1>5. TypeOK'
  BY <1>2, <1>4 DEF Inv, TypeOK, WorkerAnswers
<1>6. Control'
  BY DEF Inv, Control, Locked, GotReturned, ExitSeen, StopReaps, WorkerAnswers
<1>. USE <1>1, <1>3, <1>4 DEF Inv, InPlace, Longer
<1>7. LinesSent'
  BY DEF LinesSent, Sent
<1>8. StdinOnce' /\ StdoutOnce'
  BY DEF StdinOnce, StdoutOnce, Apart
<1>9. Apart'
  BY DEF Apart
<1>10. NoAnswerTwice' /\ Stale'
  BY DEF NoAnswerTwice, Stale
<1>. QED
  BY <1>5, <1>6, <1>7, <1>8, <1>9, <1>10

(* A call takes the first answer, whoever it is for: its own call has      *)
(* returned, for it is not the one that holds the lock.                    *)
LEMMA ReadLineKeeps ==
  ASSUME Inv, NEW t \in Tasks, ReadLine(t)
  PROVE  Inv'
<1>. USE ChannelAssumption
<1>1. stdout \in Seq(Lines) /\ stdout # <<>> /\ stdout' = Tail(stdout)
  BY DEF Inv, TypeOK, ReadLine
<1>2. /\ stdout' \in Seq(Lines)
      /\ 1 \in DOMAIN stdout /\ Head(stdout) = stdout[1] /\ stdout[1] \in Lines
      /\ Within(stdout', stdout, 1)
  BY <1>1, TailWithin
<1>3. \A i \in DOMAIN stdout' : i + 1 \in DOMAIN stdout /\ stdout'[i] = stdout[i + 1] /\ i \in Nat /\ i # 0
  <2>1. \A i \in DOMAIN stdout' : i \in Nat /\ i # 0
    BY <1>2
  <2>. QED
    BY <1>2, <2>1 DEF Within
<1>4. /\ got' = [got EXCEPT ![t] = stdout[1]] /\ pc' = [pc EXCEPT ![t] = "returned"]
      /\ holder' = None /\ pc[t] = "read" /\ UNCHANGED <<stdin, working>>
  BY <1>2 DEF ReadLine, Return
<1>5. TypeOK'
  BY <1>2, <1>4 DEF Inv, TypeOK, ReadLine
<1>6. Control'
  BY <1>4 DEF Inv, TypeOK, Control, Locked, GotReturned, ExitSeen, StopReaps, ReadLine
<1>. USE <1>2, <1>3, <1>4 DEF Inv, InPlace
<1>7. LinesSent'
  BY DEF TypeOK, LinesSent, Sent
<1>8. StdinOnce' /\ StdoutOnce'
  BY DEF StdinOnce, StdoutOnce
<1>9. \A i \in DOMAIN stdout' : stdout[1] \in Tasks => stdout'[i] # stdout[1]
  BY DEF StdoutOnce
<1>10. Apart'
  <2>1. \A u \in Tasks : got'[u] = IF u = t THEN stdout[1] ELSE got[u]
    BY DEF TypeOK
  <2>2. ASSUME NEW u \in Tasks, got'[u] \in Tasks
        PROVE  /\ \A i \in DOMAIN stdin' : stdin'[i] # got'[u]
               /\ \A i \in DOMAIN stdout' : stdout'[i] # got'[u]
               /\ working' # got'[u]
    <3>1. CASE u = t
      BY <1>9, <2>1, <2>2, <3>1 DEF Apart
    <3>2. CASE u # t
      BY <2>1, <2>2, <3>2 DEF Apart
    <3>. QED
      BY <3>1, <3>2
  <2>3. \A i \in DOMAIN stdin', j \in DOMAIN stdout' : stdin'[i] \in Tasks => stdin'[i] # stdout'[j]
    BY DEF Apart
  <2>4. /\ \A i \in DOMAIN stdin' : working' \in Tasks => stdin'[i] # working'
        /\ \A i \in DOMAIN stdout' : working' \in Tasks => stdout'[i] # working'
    BY DEF Apart
  <2>. QED
    BY <2>2, <2>3, <2>4 DEF Apart
<1>11. NoAnswerTwice'
  BY DEF TypeOK, NoAnswerTwice, Apart
<1>12. Stale'
  BY DEF TypeOK, Control, Locked, Stale, LinesSent, Sent
<1>. QED
  BY <1>5, <1>6, <1>7, <1>8, <1>10, <1>11, <1>12

(* Lines that are no task's. *)
LEMMA FatalKeeps ==
  ASSUME Inv, WorkerFails
  PROVE  Inv'
<1>. USE ChannelAssumption
<1>1. stdout \in Seq(Lines) /\ stdout' = Append(stdout, FatalLine)
  BY DEF Inv, TypeOK, WorkerFails
<1>2. stdout' \in Seq(Lines)
  BY <1>1, AppendLonger DEF Lines
<1>3. PICK n : Longer(stdout', stdout, n, FatalLine)
  BY <1>1, AppendLonger DEF Lines
<1>4. working' = None /\ UNCHANGED <<pc, got, stdin>>
  BY DEF WorkerFails
<1>5. TypeOK'
  BY <1>2, <1>4 DEF Inv, TypeOK, WorkerFails
<1>6. Control'
  BY DEF Inv, Control, Locked, GotReturned, ExitSeen, StopReaps, WorkerFails
<1>. USE <1>3, <1>4 DEF Inv, InPlace, Longer
<1>7. LinesSent' /\ StdinOnce' /\ StdoutOnce'
  BY DEF LinesSent, Sent, StdinOnce, StdoutOnce
<1>8. Apart' /\ NoAnswerTwice' /\ Stale'
  BY DEF Apart, NoAnswerTwice, Stale
<1>. QED
  BY <1>5, <1>6, <1>7, <1>8

LEMMA StopLineKeeps ==
  ASSUME Inv, StopWrites
  PROVE  Inv'
<1>. USE ChannelAssumption DEF StopGoto
<1>1. UNCHANGED <<pc, got, holder, working, stdout, scanning, proc, done>> /\ stopPc' = "wait"
  BY DEF StopWrites
<1>2. Control'
  BY <1>1 DEF Inv, Control, Locked, GotReturned, ExitSeen, StopReaps
<1>3. CASE stdin' = stdin
  <2>1. TypeOK'
    BY <1>1, <1>3 DEF Inv, TypeOK, Waits
  <2>2. Within(stdin', stdin, 0) /\ Within(stdout', stdout, 0)
    BY <1>1, <1>3, SameWithin DEF Inv, TypeOK
  <2>. QED
    BY <1>1, <1>2, <2>1, <2>2, LinesShrink DEF Inv, Sent
<1>4. CASE stdin' = Append(stdin, StopLine) /\ Len(stdin) < PipeSize
  <2>0. stdin \in Seq(Tasks \cup {StopLine})
    BY DEF Inv, TypeOK
  <2>1. stdin' \in Seq(Tasks \cup {StopLine}) /\ Len(stdin') <= PipeSize
    BY <1>4, <2>0, AppendBounded
  <2>2. PICK n : Longer(stdin', stdin, n, StopLine)
    BY <1>4, <2>0, AppendLonger
  <2>3. TypeOK'
    BY <1>1, <1>4, <2>1 DEF Inv, TypeOK, Waits
  <2>. USE <1>1, <2>2 DEF Inv, InPlace, Longer
  <2>4. LinesSent' /\ StdinOnce' /\ StdoutOnce'
    BY DEF LinesSent, Sent, StdinOnce, StdoutOnce
  <2>5. Apart' /\ NoAnswerTwice' /\ Stale'
    BY DEF Apart, NoAnswerTwice, Stale
  <2>. QED
    BY <1>2, <2>3, <2>4, <2>5
<1>. QED
  BY <1>3, <1>4 DEF StopWrites, Room

LEMMA InvNext == Inv /\ [Next]_vars => Inv'
<1>. SUFFICES ASSUME Inv, [Next]_vars PROVE Inv'
  OBVIOUS
<1>1. ASSUME NEW t \in Tasks, Call(t) PROVE Inv'
  BY <1>1, FailKeeps, WriteKeeps, ReadLineKeeps DEF Call
<1>2. CASE Worker \/ Reap
  BY <1>2, ExitKeeps, ReadKeeps, AnswerKeeps, FatalKeeps DEF Worker
<1>3. CASE StopRequested \/ Stop \/ UNCHANGED vars
  BY <1>3, ExitKeeps, StopLineKeeps DEF Stop
<1>. QED
  BY <1>1, <1>2, <1>3 DEF Next

-----------------------------------------------------------------------------
(* The invariant holds in every reachable state. *)
THEOREM InvHolds == Spec => []Inv
  BY InvInit, InvNext, PTL DEF Spec

(* Calls, pipes, worker and stop keep their types; the pipe its bound.     *)
THEOREM TypeCorrect == Spec => []TypeOK
  BY InvHolds, PTL DEF Inv

(* No answer of the worker is given to two calls (readLine).               *)
THEOREM OneReader == Spec => []NoAnswerTwice
  BY InvHolds, PTL DEF Inv, InPlace

(* A foreign answer is the late one of a call that has returned without    *)
(* it: the mutex keeps answers from calls that wait (executeTask).         *)
THEOREM ForeignIsLate == Spec => []ForeignAnswersAreStale
<1>1. Inv => ForeignAnswersAreStale
  BY DEF Inv, InPlace, Stale, NoAnswerTwice, ForeignAnswersAreStale
<1>. QED
  BY <1>1, InvHolds, PTL

(* A stop that reports success leaves no worker (workerProcess.stop).      *)
THEOREM StopLeavesNothing == Spec => []StopReaps
  BY InvHolds, PTL DEF Inv, Control, ExitSeen
=============================================================================
