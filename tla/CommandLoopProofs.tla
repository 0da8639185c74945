------------------------- MODULE CommandLoopProofs -------------------------
(***************************************************************************)
(* Proofs about CommandLoop, for tasks of any length.                      *)
(***************************************************************************)
EXTENDS CommandLoop, TLAPS

Codes == DOMAIN proto_error_code

Result == {Succeeded} \cup {failed_result(code) : code \in Codes}

(* Results are those of the first commands, in order.                      *)
Typed ==
    /\ commands \in Seq(Command)
    /\ results \in Seq(Result)
    /\ Len(results) <= Len(commands)
    /\ at \in {"loop", "answered", "recorded"}

Fatal(i) == Failed(i) /\ ~commands[i].continue_on_error

(* The error of the answer is that of the last result, and there is one    *)
(* exactly when that result ended the task.                                *)
LastDecides ==
    /\ \A i \in DOMAIN results : Fatal(i) => i = Len(results) /\ error # None
    /\ error # None =>
         /\ error \in Codes
         /\ results # <<>> /\ ~commands[Len(results)].continue_on_error
         /\ results[Len(results)] = failed_result(error)
    /\ at = "loop" => error = None
    /\ at # "loop" /\ error = None => Len(results) = Len(commands)

Recorded ==
    /\ at # "recorded" => task.status = "RUNNING"
    /\ at = "recorded" =>
         /\ task.results \in {<<>>, results}
         /\ task.status = "SUCCEEDED" => error = None /\ task.results = results
         /\ task.status = "FAILED" /\ task.results # <<>> =>
              error # None /\ task.results = results /\ task.last_error = AutomationError(error)

Inv == Typed /\ LastDecides /\ Recorded

-----------------------------------------------------------------------------
(* Every failure is reported with a code that the worker can translate.    *)
LEMMA CodesKnown ==
  /\ Anything \subseteq Codes /\ "unsupported_operation" \in Codes
  /\ \A kind \in Kinds : operation_error_code(kind) \in Codes
  BY DEF Anything, Codes, proto_error_code, operation_error_code, Kinds

(* The worker's table and the service's agree where both have an entry.    *)
LEMMA TablesAgree ==
  ASSUME NEW code \in Codes
  PROVE  proto_error_code[code] = ErrorCodeToProto[code]
  BY DEF Codes, proto_error_code, ErrorCodeToProto

(* What a step can do to the results: add one for the current command or   *)
(* none.                                                                   *)
Outcome == (\E undecodable \in BOOLEAN : succeeded_result(undecodable)) \/ (\E code \in Codes : fails(code))

Underway == UNCHANGED <<commands, results, odd, error, at, task>>

LEMMA LoopSteps ==
  ASSUME Next, commands \in Seq(Command), results \in Seq(Result)
  PROVE  Answer \/ Record \/ (Executing(Kinds) /\ (Outcome \/ Underway))
<1>. USE CodesKnown DEF Executing, Kinds, Outcome, Underway
<1>1. CASE execute_command
  <2>1. Executing(Kinds) /\ operation_error_code(Current.kind) \in Codes
    BY <1>1 DEF execute_command
  <2>. QED
    BY <1>1, <2>1 DEF execute_command
<1>2. CASE mouse_button \/ click_locator
  BY <1>2 DEF mouse_button, click_locator, Anything
<1>3. CASE hold_down \/ hold_up
  BY <1>3 DEF hold_down, hold_up
<1>4. CASE evaluate_page
  BY <1>4 DEF evaluate_page, NavigationCutsOff, retry, OtherError, Anything
<1>5. CASE read_state
  BY <1>5 DEF read_state, read_part, parts_read, NavigationCutsOff, retry, OtherError, Anything
<1>6. CASE collect_page
  BY <1>6 DEF collect_page, NavigationCutsOff, retry, OtherError, Anything
<1>. QED
  BY <1>1, <1>2, <1>3, <1>4, <1>5, <1>6 DEF Next

-----------------------------------------------------------------------------
LEMMA InvInit == Init => Inv
<1>. SUFFICES ASSUME Init PROVE Inv
  OBVIOUS
<1>1. commands \in Seq(Command)
  <2>1. PICK m \in 0 .. MaxCommands : commands \in [1 .. m -> Command]
    BY DEF Init, BoundedSeq, SeqOf, Command
  <2>. QED
    BY <2>1, CommandsAssumption
<1>2. results = <<>> /\ Len(results) = 0 /\ Len(commands) \in Nat
  BY <1>1 DEF Init
<1>3. Typed
  BY <1>1, <1>2 DEF Init, Typed
<1>. QED
  BY <1>2, <1>3 DEF Init, Inv, LastDecides, Recorded, Fatal

(* A command that succeeds, or fails and lets the task go on or not.       *)
LEMMA OutcomeKeeps ==
  ASSUME Inv, Executing(Kinds), Outcome
  PROVE  Inv'
<1>1. /\ commands \in Seq(Command) /\ results \in Seq(Result) /\ Len(results) \in Nat
      /\ Len(results) < Len(commands) /\ at = "loop" /\ error = None
  BY DEF Inv, Typed, LastDecides, Executing
<1>2. PICK result \in Result :
        /\ results' = Append(results, result)
        /\ UNCHANGED <<commands, task>>
        /\ \/ result.status # "FAILED" /\ UNCHANGED <<error, at>>
           \/ Current.continue_on_error /\ UNCHANGED <<error, at>>
           \/ /\ ~Current.continue_on_error /\ error' \in Codes /\ at' = "answered"
              /\ result = failed_result(error')
  <2>1. CASE \E undecodable \in BOOLEAN : succeeded_result(undecodable)
    BY <2>1 DEF succeeded_result, Result, Succeeded
  <2>2. CASE \E code \in Codes : fails(code)
    BY <2>2 DEF fails, Result
  <2>. QED
    BY <2>1, <2>2 DEF Outcome
<1>3. /\ results' \in Seq(Result) /\ Len(results') = Len(results) + 1
      /\ results'[Len(results')] = result
      /\ \A i \in DOMAIN results' : i = Len(results') \/ (i \in DOMAIN results /\ results'[i] = results[i])
  BY <1>1, <1>2
<1>4. Typed'
  <2>1. Len(results') <= Len(commands')
    BY <1>1, <1>2, <1>3
  <2>. QED
    BY <1>1, <1>2, <1>3, <2>1 DEF Typed
<1>5. LastDecides'
  <2>1. \A i \in DOMAIN results : ~Fatal(i)
    BY <1>1 DEF Inv, LastDecides
  <2>2. Current = commands'[Len(results')]
    BY <1>2, <1>3 DEF Current
  <2>3. \A i \in DOMAIN results' : Fatal(i)' => i = Len(results')
    BY <1>2, <1>3, <2>1 DEF Fatal, Failed
  <2>4. Fatal(Len(results))' => error' # None
    <3>1. Fatal(Len(results))' => result.status = "FAILED" /\ ~Current.continue_on_error
      BY <1>3, <2>2 DEF Fatal, Failed
    <3>. QED
      BY <1>2, <3>1, NoneAssumption DEF Codes
  <2>5. results' # <<>> /\ (at' # "loop" => error' # None)
    BY <1>1, <1>2, <1>3, NoneAssumption DEF Codes
  <2>6. \A i \in DOMAIN results' : Fatal(i)' => i = Len(results') /\ error' # None
    BY <2>3, <2>4
  <2>7. ASSUME error' # None
        PROVE  /\ error' \in Codes /\ ~commands'[Len(results')].continue_on_error
               /\ results'[Len(results')] = failed_result(error')
    BY <1>1, <1>2, <1>3, <2>2, <2>7
  <2>8. (at' = "loop" => error' = None) /\ (at' # "loop" => error' # None)
    BY <1>1, <1>2, <2>5
  <2>. QED
    BY <2>5, <2>6, <2>7, <2>8 DEF LastDecides
<1>6. Recorded'
  BY <1>1, <1>2 DEF Inv, Recorded
<1>. QED
  BY <1>4, <1>5, <1>6 DEF Inv

LEMMA RecordKeeps ==
  ASSUME Inv, Record
  PROVE  Inv'
<1>1. Typed' /\ LastDecides'
  BY DEF Record, Inv, Typed, LastDecides, Fatal, Failed
<1>2. /\ task'.results = IF odd THEN <<>> ELSE results
      /\ task'.status = IF odd \/ error # None THEN "FAILED" ELSE "SUCCEEDED"
      /\ ~odd => task'.last_error = AutomationError(error)
      /\ at' = "recorded" /\ UNCHANGED <<results, error>>
  BY DEF Record
<1>3. Recorded'
  BY <1>2 DEF Recorded
<1>. QED
  BY <1>1, <1>3 DEF Inv

LEMMA InvNext == Inv /\ [Next]_vars => Inv'
<1>. SUFFICES ASSUME Inv, [Next]_vars PROVE Inv'
  OBVIOUS
<1>1. CASE Answer
  BY <1>1 DEF Answer, Inv, Typed, LastDecides, Recorded, Fatal, Failed
<1>2. CASE Underway \/ UNCHANGED vars
  BY <1>2 DEF Underway, vars, Inv, Typed, LastDecides, Recorded, Fatal, Failed
<1>. QED
  BY <1>1, <1>2, LoopSteps, OutcomeKeeps, RecordKeeps DEF Inv, Typed

(* The invariant holds throughout.                                         *)
THEOREM InvHolds == Spec => []Inv
  BY InvInit, InvNext, PTL DEF Spec

(* Nothing runs after the first fatal failure, and the task's last error   *)
(* is that of its last result (execute_task, AutomationError).             *)
THEOREM FirstFatalEnds == Spec => []StopsAtFirstFatal
<1>1. Inv => StopsAtFirstFatal
  <2>. SUFFICES ASSUME Inv PROVE StopsAtFirstFatal
    OBVIOUS
  <2>1. ASSUME task.status = "FAILED", task.results # <<>>
        PROVE  task.last_error = Last(task.results).error
    <3>1. /\ error # None /\ error \in Codes /\ task.last_error = AutomationError(error)
          /\ Last(task.results) = failed_result(error)
      BY <2>1 DEF Inv, Typed, Recorded, LastDecides, Last
    <3>. QED
      BY <3>1, TablesAgree DEF AutomationError, failed_result
  <2>. QED
    BY <2>1 DEF Inv, LastDecides, Fatal, StopsAtFirstFatal
<1>. QED
  BY <1>1, InvHolds, PTL

(* A task in SUCCEEDED has all its results, and what failed was allowed to *)
(* (ExecuteBrowserCommands).                                               *)
THEOREM SuccessComplete == Spec => []SuccessIsComplete
<1>1. Inv => SuccessIsComplete
  <2>. SUFFICES ASSUME Inv, task.status = "SUCCEEDED"
       PROVE  /\ Len(task.results) = Len(commands)
              /\ \A i \in DOMAIN commands :
                   task.results[i].status = "SUCCEEDED" \/ commands[i].continue_on_error
    BY DEF SuccessIsComplete
  <2>1. at = "recorded" /\ error = None /\ task.results = results /\ Len(results) = Len(commands)
    BY DEF Inv, Typed, Recorded, LastDecides
  <2>2. DOMAIN results = DOMAIN commands
    BY <2>1 DEF Inv, Typed
  <2>3. \A i \in DOMAIN results : results[i].status = "SUCCEEDED" \/ Failed(i)
    BY DEF Inv, Typed, Result, Succeeded, failed_result, Failed
  <2>. QED
    BY <2>1, <2>2, <2>3 DEF Inv, LastDecides, Fatal
<1>. QED
  BY <1>1, InvHolds, PTL

-----------------------------------------------------------------------------
(***************************************************************************)
(* Retries                                                                 *)
(***************************************************************************)

(* What one attempt at a page state takes at most, and the attempts that   *)
(* are over.                                                               *)
Full == Current.parts + 6

Over == IF outer = 0 THEN 0 ELSE IF outer = 1 THEN Full ELSE Full + Full

(* What a page state may have cost so far: one access for each part that   *)
(* was read, then twice up to three, and as much as an attempt can take    *)
(* for every attempt that is over.                                         *)
PageStateCost ==
    /\ phase = "read"    => part <= Current.parts /\ reads <= Over + part
    /\ phase = "inputs"  => reads <= Over + Current.parts + inner
    /\ phase = "actions" => reads <= Over + Current.parts + 3 + inner

Accesses ==
    /\ outer \in 0 .. 2 /\ inner \in 0 .. 2 /\ reads \in Nat /\ part \in 0 .. 3
    /\ Executing({"evaluate"}) => reads = outer
    /\ Executing({"get_page_state"}) => phase \in {"read", "inputs", "actions"} /\ PageStateCost

(* A page state asks for at most three parts. *)
LEMMA PartsKnown ==
  ASSUME commands \in Seq(Command), results \in Seq(Result), Executing({"get_page_state"})
  PROVE  Current.parts \in 0 .. 3
<1>1. Len(results) + 1 \in DOMAIN commands
  BY DEF Executing
<1>2. Current \in Command
  BY <1>1 DEF Current
<1>. QED
  BY <1>2 DEF Command

LEMMA OutcomeTyped ==
  ASSUME Typed, Outcome
  PROVE  commands' \in Seq(Command) /\ results' \in Seq(Result)
<1>1. PICK result \in Result : results' = Append(results, result) /\ commands' = commands
  BY DEF Outcome, succeeded_result, fails, Result
<1>. QED
  BY <1>1 DEF Typed

(* The command that comes next starts with nothing used up. *)
LEMMA OutcomeRenews ==
  ASSUME Outcome
  PROVE  outer' = 0 /\ inner' = 0 /\ phase' = "read" /\ part' = 0 /\ reads' = 0
  BY DEF Outcome, succeeded_result, fails, Fresh, Again

LEMMA AccessesStep == Typed /\ Accesses /\ [Next]_vars => Accesses'
<1>. SUFFICES ASSUME Typed, Accesses, [Next]_vars PROVE Accesses'
  OBVIOUS
<1>1. CASE Outcome
  <2>1. commands' \in Seq(Command) /\ results' \in Seq(Result)
    BY <1>1, OutcomeTyped DEF Typed
  <2>2. Executing({"get_page_state"})' => Current'.parts \in 0 .. 3
    <3>1. Executing({"get_page_state"})' => commands'[Len(results') + 1] \in Command
      BY <2>1 DEF Executing
    <3>. QED
      BY <3>1 DEF Executing, Current, Command
  <2>3. outer' = 0 /\ inner' = 0 /\ phase' = "read" /\ part' = 0 /\ reads' = 0
    BY <1>1, OutcomeRenews
  <2>4. Executing({"evaluate"})' => reads' = outer'
    BY <2>3
  <2>5. Executing({"get_page_state"})' => PageStateCost'
    BY <2>2, <2>3 DEF PageStateCost, Over
  <2>. QED
    BY <2>3, <2>4, <2>5 DEF Accesses
<1>p. Executing({"get_page_state"}) => Current.parts \in 0 .. 3
  BY PartsKnown DEF Typed
<1>. USE CodesKnown DEF Accesses, PageStateCost, Executing, Current, Outcome, Attempts, Full, Over
<1>2. CASE Answer \/ Record \/ UNCHANGED vars
  BY <1>2 DEF Answer, Record, vars, page
<1>3. CASE execute_command \/ mouse_button \/ click_locator
  <2>1. (Executing(Kinds) /\ operation_error_code(Current.kind) \in Codes)
          \/ mouse_button \/ click_locator
    BY <1>3 DEF execute_command, mouse_button, Kinds, Typed, Command
  <2>. QED
    BY <1>1, <1>3, <2>1 DEF execute_command, mouse_button, click_locator, Anything
<1>4. CASE hold_down \/ hold_up
  BY <1>1, <1>4 DEF hold_down, hold_up
<1>5. CASE evaluate_page
  BY <1>1, <1>5 DEF evaluate_page, NavigationCutsOff, retry, Again, OtherError, Anything, Kinds
<1>6. CASE read_state
  <2>1. PICK p \in 0 .. 3 : Current.parts = p
    BY <1>6, <1>p DEF read_state, read_part, parts_read
  <2>3. CASE NavigationCutsOff("get_page_state")
    BY <1>1, <1>6, <2>1, <2>3 DEF read_state, read_part, parts_read, NavigationCutsOff, retry, Again, Kinds
  <2>4. CASE OtherError("get_page_state")
    BY <1>1, <2>4 DEF OtherError, Anything, Kinds
  <2>5. CASE part < Current.parts /\ part' = part + 1 /\ reads' = reads + 1
             /\ UNCHANGED <<commands, outer, inner, phase, results, at>>
    BY <1>6, <2>1, <2>5 DEF read_state, read_part, parts_read
  <2>6. CASE parts_read
    BY <2>1, <2>6 DEF parts_read
  <2>. QED
    BY <1>6, <2>3, <2>4, <2>5, <2>6 DEF read_state, read_part
<1>7. CASE collect_page
  <2>p. PICK p \in 0 .. 3 : Current.parts = p
    BY <1>7, <1>p DEF collect_page
  <2>e. Executing({"get_page_state"}) /\ phase \in {"inputs", "actions"}
    BY <1>7 DEF collect_page
  <2>1. CASE inner = Attempts - 1 /\ NavigationCutsOff("get_page_state")
    BY <1>1, <1>7, <2>p, <2>1 DEF collect_page, NavigationCutsOff, retry, Again, Kinds
  <2>2. CASE Outcome \/ OtherError("get_page_state")
    BY <1>1, <2>2 DEF OtherError, Anything, Kinds
  <2>3. CASE phase = "inputs" /\ phase' = "actions" /\ inner' = 0 /\ reads' = reads + 1
             /\ UNCHANGED <<commands, outer, part, results, at>>
    <3>1. Current'.parts = p /\ Over' = Over /\ ~Executing({"evaluate"})'
      BY <2>e, <2>p, <2>3
    <3>2. reads <= Over + p + inner /\ Over \in Nat
      BY <2>e, <2>p, <2>3
    <3>. QED
      BY <3>1, <3>2, <2>3, <2>p
  <2>4. CASE inner < Attempts - 1 /\ inner' = inner + 1 /\ reads' = reads + 1
             /\ UNCHANGED <<commands, outer, phase, part, results, at>>
    <3>1. Current'.parts = p /\ Over' = Over /\ ~Executing({"evaluate"})'
      BY <2>e, <2>p, <2>4
    <3>2. CASE phase = "inputs"
      BY <3>1, <3>2, <2>e, <2>p, <2>4
    <3>3. CASE phase = "actions"
      BY <3>1, <3>3, <2>e, <2>p, <2>4
    <3>. QED
      BY <2>e, <3>2, <3>3
  <2>. QED
    BY <1>7, <2>1, <2>2, <2>3, <2>4 DEF collect_page
<1>. QED
  BY <1>2, <1>3, <1>4, <1>5, <1>6, <1>7 DEF Next

(* Three attempts at an expression, and at a page state, each of which     *)
(* reads its parts once and twice tries up to three times to collect       *)
(* elements (with_navigation_retry, read_state).                           *)
THEOREM RetriesEnd == Spec => []RetriesBounded
<1>1. Init => Accesses
  <2>. SUFFICES ASSUME Init PROVE Accesses
    OBVIOUS
  <2>1. Typed
    BY InvInit DEF Inv
  <2>2. Executing({"get_page_state"}) => Current.parts \in 0 .. 3
    BY <2>1, PartsKnown DEF Typed
  <2>. QED
    BY <2>2 DEF Init, Accesses, PageStateCost, Full, Over
<1>2. Typed /\ Accesses => RetriesBounded
  <2>. SUFFICES ASSUME Typed, Accesses, at = "loop", Len(results) < Len(commands)
       PROVE  /\ Current.kind = "evaluate" => reads < Attempts
              /\ Current.kind = "get_page_state" =>
                   reads < Attempts * (Current.parts + 2 * Attempts)
    BY DEF RetriesBounded
  <2>1. Executing({"get_page_state"}) => Current.parts \in 0 .. 3
    BY PartsKnown DEF Typed
  <2>2. Current.kind = "evaluate" => reads < Attempts
    BY DEF Accesses, Executing, Attempts
  <2>3. ASSUME Current.kind = "get_page_state"
        PROVE  reads < Attempts * (Current.parts + 2 * Attempts)
    <3>1. PICK p \in 0 .. 3 : Current.parts = p
      BY <2>1, <2>3 DEF Executing
    <3>. QED
      BY <2>3, <3>1 DEF Accesses, PageStateCost, Full, Over, Executing, Attempts
  <2>. QED
    BY <2>2, <2>3
<1>. QED
  BY <1>1, <1>2, InvHolds, AccessesStep, PTL DEF Spec, Inv

-----------------------------------------------------------------------------
(***************************************************************************)
(* The button of the mouse                                                 *)
(***************************************************************************)

(* Commands that leave the button down, and those that let go of it.       *)
LeftDown(i) ==
    \/ commands[i].kind = "mouse_down" /\ ~Failed(i)
    \/ commands[i].kind \in {"click", "set_checked", "hold"} /\ Failed(i)

LetsGo(i) == commands[i].kind \in {"mouse_up", "click", "hold"} /\ ~Failed(i)

Button ==
    /\ phase = "held" => Executing({"hold"})
    /\ ReleasedUnlessCut

(* The current command is done: what is said of it follows from its kind   *)
(* and its result.                                                         *)
LEMMA OneMore ==
  ASSUME Typed, Executing(Kinds), Outcome
  PROVE  LET last == Len(results) + 1 IN
         /\ commands' = commands /\ commands[last] = Current
         /\ DOMAIN results' = DOMAIN results \cup {last}
         /\ last \notin DOMAIN results /\ Len(results') = last /\ last \in Nat
         /\ \A i \in DOMAIN results : results'[i] = results[i]
         /\ (\E code \in Codes : fails(code)) => results'[last].status = "FAILED"
         /\ (\E undecodable \in BOOLEAN : succeeded_result(undecodable)) =>
              results'[last].status = "SUCCEEDED"
<1>. DEFINE last == Len(results) + 1
<1>1. results \in Seq(Result) /\ Len(results) \in Nat
  BY DEF Typed
<1>2. /\ \A code \in Codes : fails(code) => results' = Append(results, failed_result(code))
      /\ \A undecodable \in BOOLEAN :
           succeeded_result(undecodable) => results' = Append(results, Succeeded)
      /\ commands' = commands
  BY DEF Outcome, succeeded_result, fails
<1>3. /\ (\E code \in Codes : fails(code)) => results'[last].status = "FAILED"
      /\ (\E undecodable \in BOOLEAN : succeeded_result(undecodable)) =>
           results'[last].status = "SUCCEEDED"
  <2>1. ASSUME NEW result, results' = Append(results, result) PROVE results'[last] = result
    BY <1>1, <2>1
  <2>2. ASSUME NEW code \in Codes, fails(code) PROVE results'[last].status = "FAILED"
    <3>1. results'[last] = failed_result(code)
      BY <1>2, <2>1, <2>2
    <3>. QED
      BY <3>1 DEF failed_result
  <2>3. ASSUME NEW undecodable \in BOOLEAN, succeeded_result(undecodable)
        PROVE  results'[last].status = "SUCCEEDED"
    <3>1. results'[last] = Succeeded
      BY <1>2, <2>1, <2>3
    <3>. QED
      BY <3>1 DEF Succeeded
  <2>. QED
    BY <2>2, <2>3
<1>4. PICK result \in Result : results' = Append(results, result)
  BY <1>2 DEF Outcome, Result
<1>. QED
  BY <1>1, <1>2, <1>3, <1>4 DEF Current

(* The button is up, or was explained before, or the last command explains *)
(* it.                                                                     *)
LEMMA OutcomeExplains ==
  ASSUME Typed, Executing(Kinds), Outcome,
         \/ ~pressed'
         \/ LeftDown(Len(results))'
         \/ ReleasedUnlessCut /\ pressed /\ phase # "held" /\ ~LetsGo(Len(results))'
  PROVE  ReleasedUnlessCut'
<1>. DEFINE last == Len(results) + 1
<1>1. CASE ~pressed'
  BY <1>1 DEF ReleasedUnlessCut
<1>2. CASE LeftDown(Len(results))'
  <2>1. last \in DOMAIN results' /\ last \in Nat /\ Len(results') = last
    BY OneMore
  <2>2. \A j \in last + 1 .. Len(results') : FALSE
    BY <2>1
  <2>3. /\ \/ commands'[last].kind = "mouse_down" /\ results'[last].status # "FAILED"
           \/ /\ commands'[last].kind \in {"click", "set_checked", "hold"}
              /\ results'[last].status = "FAILED"
    BY <1>2, <2>1 DEF LeftDown, Failed
  <2>. QED
    BY <2>1, <2>2, <2>3 DEF ReleasedUnlessCut, Failed
<1>3. CASE ReleasedUnlessCut /\ pressed /\ phase # "held" /\ ~LetsGo(Len(results))'
  <2>1. PICK i \in DOMAIN results :
          LeftDown(i) /\ \A j \in i + 1 .. Len(results) : ~LetsGo(j)
    BY <1>3 DEF ReleasedUnlessCut, LeftDown, LetsGo
  <2>2. i \in Nat /\ Len(results) \in Nat /\ DOMAIN results = 1 .. Len(results)
    BY <2>1 DEF Typed
  <2>3. LeftDown(i)' /\ i \in DOMAIN results'
    BY <2>1, OneMore DEF LeftDown, Failed
  <2>4. \A j \in i + 1 .. Len(results') : ~LetsGo(j)'
    <3>1. ASSUME NEW j \in i + 1 .. Len(results), ~LetsGo(j) PROVE ~LetsGo(j)'
      <4>1. j \in DOMAIN results
        BY <2>1, <2>2
      <4>. QED
        BY <3>1, <4>1, OneMore DEF LetsGo, Failed
    <3>2. \A j \in i + 1 .. Len(results') : j \in i + 1 .. Len(results) \/ j = last
      BY <2>2, OneMore
    <3>3. ASSUME NEW j \in {last} PROVE ~LetsGo(j)'
      BY <1>3, OneMore DEF LetsGo, Failed
    <3>. QED
      BY <2>1, <3>1, <3>2, <3>3
  <2>. QED
    BY <2>3, <2>4 DEF ReleasedUnlessCut, LeftDown, LetsGo
<1>. QED
  BY <1>1, <1>2, <1>3

LEMMA ButtonStep == Typed /\ Button /\ [Next]_vars => Button'
<1>. SUFFICES ASSUME Typed, Button, [Next]_vars PROVE Button'
  OBVIOUS
<1>1. Answer \/ Record \/ UNCHANGED vars \/ (Executing(Kinds) /\ (Outcome \/ Underway))
  BY LoopSteps DEF Typed
<1>2. ASSUME Executing(Kinds), Outcome, phase # "held", pressed' = pressed,
             Current.kind \notin {"mouse_up", "click", "hold"} \/ \E code \in Codes : fails(code)
      PROVE  ReleasedUnlessCut'
  <2>1. ~LetsGo(Len(results))'
    BY <1>2, OneMore DEF LetsGo, Failed
  <2>. QED
    BY <1>2, <2>1, OutcomeExplains DEF Button
<1>3. CASE Answer \/ Record \/ UNCHANGED vars
  <2>1. phase # "held" \/ UNCHANGED vars
    BY <1>3 DEF Button, Executing, Answer, Record
  <2>. QED
    BY <1>3, <2>1 DEF Button, Executing, Current, ReleasedUnlessCut, Failed, Answer, Record, vars, page
<1>4. ASSUME Executing(Kinds), Underway, pressed' = pressed, phase # "held", phase' # "held"
      PROVE  Button'
  BY <1>4 DEF Button, Underway, ReleasedUnlessCut, Failed
<1>5. ASSUME Executing(Kinds), Outcome, ReleasedUnlessCut' PROVE Button'
  BY <1>5, OutcomeRenews DEF Button
<1>6. CASE execute_command
  <2>1. /\ Executing(Kinds) /\ Current.kind \notin {"mouse_up", "click", "hold"} /\ phase # "held"
        /\ pressed' = pressed
    BY <1>6 DEF execute_command, Executing, Kinds, Button
  <2>2. Outcome
    BY <1>6, <2>1, CodesKnown DEF execute_command, Executing, Outcome, Kinds
  <2>. QED
    BY <1>2, <1>5, <2>1, <2>2
<1>7. CASE mouse_button
  <2>1. Executing(Kinds) /\ Current.kind \in {"mouse_down", "mouse_up"} /\ phase # "held"
    BY <1>7 DEF mouse_button, Executing, Kinds, Button
  <2>2. CASE succeeded_result(FALSE) /\ pressed' = (Current.kind = "mouse_down")
    <3>1. Outcome
      BY <2>2 DEF Outcome
    <3>2. ~pressed' \/ LeftDown(Len(results))'
      BY <2>1, <2>2, <3>1, OneMore DEF LeftDown, Failed
    <3>. QED
      BY <1>5, <2>1, <3>1, <3>2, OutcomeExplains
  <2>3. CASE (\E code \in Anything : fails(code)) /\ UNCHANGED pressed
    <3>1. \E code \in Codes : fails(code)
      BY <2>3, CodesKnown
    <3>. QED
      BY <1>2, <1>5, <2>1, <2>3, <3>1 DEF Outcome
  <2>. QED
    BY <1>7, <2>2, <2>3 DEF mouse_button
<1>8. CASE hold_down
  <2>1. Executing(Kinds) /\ Executing({"hold"}) /\ phase # "held"
    BY <1>8 DEF hold_down, Executing, Kinds
  <2>2. CASE phase' = "held" /\ UNCHANGED <<commands, results, at>>
    BY <2>1, <2>2 DEF Button, Executing, Current, ReleasedUnlessCut
  <2>3. CASE (\E code \in Anything : fails(code)) /\ UNCHANGED pressed
    <3>1. \E code \in Codes : fails(code)
      BY <2>3, CodesKnown
    <3>. QED
      BY <1>2, <1>5, <2>1, <2>3, <3>1 DEF Outcome
  <2>. QED
    BY <1>8, <2>2, <2>3 DEF hold_down
<1>9. CASE hold_up
  <2>1. Executing(Kinds) /\ Current.kind = "hold"
    BY <1>9 DEF hold_up, Executing, Kinds
  <2>2. CASE succeeded_result(FALSE) /\ pressed' = FALSE
    BY <1>5, <2>1, <2>2, OutcomeExplains DEF Outcome
  <2>3. CASE \E code \in Anything \ {"validation_failed"} : fails(code)
    <3>1. \E code \in Codes : fails(code)
      BY <2>3, CodesKnown
    <3>2. LeftDown(Len(results))'
      BY <2>1, <3>1, OneMore DEF LeftDown, Failed, Outcome
    <3>. QED
      BY <1>5, <2>1, <3>1, <3>2, OutcomeExplains DEF Outcome
  <2>. QED
    BY <1>9, <2>2, <2>3 DEF hold_up
<1>10. CASE evaluate_page \/ read_state \/ collect_page
  <2>1. /\ Executing(Kinds) /\ Current.kind \notin {"mouse_up", "click", "hold"} /\ phase # "held"
        /\ pressed' = pressed
    BY <1>10 DEF evaluate_page, read_state, read_part, parts_read, collect_page, Executing, Kinds, Button
  <2>2. Outcome \/ (Underway /\ phase' # "held")
    <3>1. \A kind \in Kinds : OtherError(kind) => Outcome
      BY CodesKnown DEF OtherError, Anything, Outcome
    <3>2. \A kind \in Kinds : NavigationCutsOff(kind) => Outcome \/ (Underway /\ phase' # "held")
      BY CodesKnown DEF NavigationCutsOff, retry, Again, Underway, Outcome
    <3>3. CASE evaluate_page
      BY <3>1, <3>2, <3>3, CodesKnown DEF evaluate_page, Outcome, Kinds, Anything
    <3>4. CASE read_state
      BY <3>1, <3>2, <3>4 DEF read_state, read_part, parts_read, Underway, Kinds
    <3>5. CASE collect_page
      BY <3>1, <3>2, <3>5 DEF collect_page, Underway, Outcome, Kinds
    <3>. QED
      BY <1>10, <3>3, <3>4, <3>5
  <2>. QED
    BY <1>2, <1>4, <1>5, <2>1, <2>2
<1>11. CASE click_locator
  <2>1. /\ Executing(Kinds) /\ Current.kind \in {"click", "set_checked"} /\ phase # "held"
    BY <1>11 DEF click_locator, Executing, Kinds, Button
  <2>2. CASE succeeded_result(FALSE) /\ pressed' \in IF Current.kind = "set_checked" THEN {FALSE, pressed}
                                                     ELSE {FALSE}
    <3>1. Outcome
      BY <2>2 DEF Outcome
    <3>2. CASE ~pressed'
      BY <1>5, <2>1, <3>1, <3>2, OutcomeExplains
    <3>3. CASE pressed' = pressed /\ Current.kind \notin {"mouse_up", "click", "hold"}
      BY <1>2, <1>5, <2>1, <3>1, <3>3
    <3>. QED
      BY <2>1, <2>2, <3>2, <3>3
  <2>3. ASSUME NEW code \in Codes, fails(code) PROVE Button'
    <3>1. Outcome
      BY <2>3 DEF Outcome
    <3>2. LeftDown(Len(results))'
      BY <2>1, <2>3, <3>1, OneMore DEF LeftDown, Failed
    <3>. QED
      BY <1>5, <2>1, <3>1, <3>2, OutcomeExplains
  <2>. QED
    BY <1>11, <2>2, <2>3, CodesKnown DEF click_locator, Anything
<1>. QED
  BY <1>1, <1>3, <1>6, <1>7, <1>8, <1>9, <1>10, <1>11 DEF Next

(* The button stays down between commands only after a mouse_down, or a    *)
(* click or a hold that failed on its way (human_mouse_hold, drag).        *)
THEOREM ButtonReleased == Spec => []ReleasedUnlessCut
<1>1. Init => Button
  BY DEF Init, Button, ReleasedUnlessCut
<1>2. Button => ReleasedUnlessCut
  BY DEF Button
<1>. QED
  BY <1>1, <1>2, InvHolds, ButtonStep, PTL DEF Spec, Inv
=============================================================================
