----------------------------- MODULE CommandLoop -----------------------------
(***************************************************************************)
(* execute_task of the worker (scripts/worker.py): the commands of a task  *)
(* one after the other, the failures that end it and those that do not,    *)
(* with_navigation_retry around evaluate and (nested) around reading the   *)
(* page state, the mouse button between the steps of a gesture; then what  *)
(* the service makes of the answer (decodeWorkerResponse, AutomationError, *)
(* ExecuteBrowserCommands).                                                *)
(*                                                                         *)
(* Playwright decides how each access to the page ends.  The service is    *)
(* still waiting here; when it is not, see WorkerChannel and TaskService.  *)
(***************************************************************************)
EXTENDS BrowserMessages, Sequences, SequencesExt

CONSTANTS
    MaxCommands,    \* bound: commands in the task
    None            \* no error

ASSUME CommandsAssumption == MaxCommands \in Nat

VARIABLES
    commands,   \* the task's commands: [kind, continue_on_error, parts]
    outer,      \* failed attempts of with_navigation_retry, outer call
    inner,      \* failed attempts of the call inside read_state
    phase,      \* what read_state, or a gesture, does next
    part,       \* of title, text and html: those this attempt has read
    reads,      \* history: accesses to the page by the command so far
    pressed,    \* a button of the mouse is down
    results,    \* one BrowserCommandResult per command that was executed
    odd,        \* a result cannot be decoded: NaN, Infinity, half a surrogate
    error,      \* of the answer: a code of the worker
    at,         \* "loop", "answered", "recorded"
    task        \* the row: [status, results, last_error]

page == <<outer, inner, phase, part, reads>>
vars == <<commands, page, pressed, results, odd, error, at, task>>

-----------------------------------------------------------------------------
(* A click is any call in which Playwright presses and releases: click,    *)
(* mouse_click, and drag from one element to another; set_checked clicks   *)
(* only where the box is not as wished.  A hold is a click or mouse_click  *)
(* with a hold_duration, or a drag from or to a point.  One button is      *)
(* modelled.                                                               *)
Kinds == {"navigate", "evaluate", "get_page_state", "mouse_down", "mouse_up",
          "click", "set_checked", "hold", "other"}

(* parts: how many of title, text and html a page state asks for.          *)
Command ==
    {command \in [kind : Kinds, continue_on_error : BOOLEAN, parts : 0..3] :
         command.kind # "get_page_state" => command.parts = 0}

Attempts == 3

(* The worker's codes in its results; all others would be INTERNAL. *)
proto_error_code ==
    [validation_failed     |-> "VALIDATION_FAILED",
     browser_unavailable   |-> "BROWSER_UNAVAILABLE",
     navigation_failed     |-> "NAVIGATION_FAILED",
     script_failed         |-> "SCRIPT_FAILED",
     timeout               |-> "TIMEOUT",
     unsupported_operation |-> "UNSUPPORTED_OPERATION"]

ASSUME NoneAssumption == None \notin DOMAIN proto_error_code

is_retryable(code) == code \in {"browser_unavailable", "navigation_failed", "timeout"}

(* The same codes in the service, for the error of the task. *)
ErrorCodeToProto ==
    [validation_failed |-> "VALIDATION_FAILED",
     session_not_found |-> "SESSION_NOT_FOUND", task_not_found |-> "TASK_NOT_FOUND",
     artifact_not_found |-> "ARTIFACT_NOT_FOUND",
     session_already_finalized |-> "SESSION_ALREADY_FINALIZED",
     task_already_finalized |-> "TASK_ALREADY_FINALIZED",
     capacity_unavailable |-> "CAPACITY_UNAVAILABLE",
     browser_unavailable |-> "BROWSER_UNAVAILABLE", proxy_failed |-> "PROXY_FAILED",
     navigation_failed |-> "NAVIGATION_FAILED", script_failed |-> "SCRIPT_FAILED",
     timeout |-> "TIMEOUT", unsupported_operation |-> "UNSUPPORTED_OPERATION",
     internal |-> "INTERNAL"]

(* What the service records of an error: nil when there is none. *)
AutomationError(code) ==
    IF code = None THEN NoError
    ELSE [code |-> ErrorCodeToProto[code], retryable |-> is_retryable(code)]

operation_error_code(kind) ==
    CASE kind = "navigate" -> "navigation_failed"
      [] kind = "evaluate" -> "script_failed"
      [] OTHER             -> "browser_unavailable"

Current == commands[Len(results) + 1]

(* The loop has come to a command of one of these kinds. *)
Executing(kinds) ==
    /\ at = "loop"
    /\ Len(results) < Len(commands)
    /\ Current.kind \in kinds

Again == inner' = 0 /\ phase' = "read" /\ part' = 0

Fresh == outer' = 0 /\ reads' = 0 /\ Again

Succeeded == [status |-> "SUCCEEDED", error |-> NoError]

failed_result(code) ==
    [status |-> "FAILED",
     error  |-> [code |-> proto_error_code[code], retryable |-> is_retryable(code)]]

succeeded_result(undecodable) ==
    /\ results' = Append(results, Succeeded)
    /\ odd' = (odd \/ undecodable)
    /\ Fresh
    /\ UNCHANGED <<commands, error, at, task>>

(* Mutant: the command's wish to go on is not asked for. *)
fails_anyway(code) ==
    /\ results' = Append(results, failed_result(code))
    /\ at' = "loop" /\ error' = code
    /\ Fresh
    /\ UNCHANGED <<commands, odd, task>>

(* One of the except branches: a failed result, and the end of the task    *)
(* unless the command wants to go on.                                      *)
fails(code) ==
    /\ results' = Append(results, failed_result(code))
    /\ IF Current.continue_on_error THEN UNCHANGED <<error, at>>
       ELSE error' = code /\ at' = "answered"
    /\ Fresh
    /\ UNCHANGED <<commands, odd, task>>

-----------------------------------------------------------------------------
Anything == {"validation_failed", "timeout", "browser_unavailable"}

(* A command that is tried once, such as extract_text; upload_file is      *)
(* never supported.                                                        *)
execute_command ==
    /\ Executing({"navigate", "other"})
    /\ \/ succeeded_result(FALSE)
       \/ Current.kind = "other" /\ succeeded_result(TRUE)
       \/ \E code \in Anything \cup {operation_error_code(Current.kind)} : fails(code)
       \/ Current.kind = "other" /\ fails("unsupported_operation")
    /\ UNCHANGED pressed

mouse_button ==
    /\ Executing({"mouse_down", "mouse_up"})
    /\ \/ succeeded_result(FALSE) /\ pressed' = (Current.kind = "mouse_down")
       \/ (\E code \in Anything : fails(code)) /\ UNCHANGED pressed

(* One call of Playwright; when it fails, so may the release after it      *)
(* has pressed.                                                            *)
click_locator ==
    /\ Executing({"click", "set_checked"})
    /\ \/ /\ succeeded_result(FALSE)
          /\ pressed' \in IF Current.kind = "set_checked" THEN {FALSE, pressed} ELSE {FALSE}
       \/ fails("validation_failed") /\ UNCHANGED pressed
       \/ (\E code \in Anything : fails(code)) /\ pressed' \in BOOLEAN

(* human_mouse_hold, drag: the way to the place, then the button. *)
hold_down ==
    /\ Executing({"hold"})
    /\ phase = "read"
    /\ \/ /\ phase' = "held" /\ pressed' = TRUE
          /\ UNCHANGED <<commands, outer, inner, part, reads, results, odd, error, at, task>>
       \/ (\E code \in Anything : fails(code)) /\ UNCHANGED pressed

(* Mutant: nobody lets go. *)
hold_on ==
    /\ Executing({"hold"})
    /\ phase = "held"
    /\ \/ succeeded_result(FALSE)
       \/ \E code \in Anything \ {"validation_failed"} : fails(code)
    /\ UNCHANGED pressed

(* Moves and waits with the button down, any of which may fail. *)
hold_up ==
    /\ Executing({"hold"})
    /\ phase = "held"
    /\ \/ succeeded_result(FALSE) /\ pressed' = FALSE
       \/ /\ \E code \in Anything \ {"validation_failed"} : fails(code)
          /\ UNCHANGED pressed

(* Mutant: a fourth attempt. *)
retry_once_more ==
    /\ outer < Attempts
    /\ outer' = outer + 1 /\ Again
    /\ UNCHANGED <<commands, results, odd, error, at, task>>

(* The outer attempt was cut off by a navigation and is not the last one. *)
retry ==
    /\ outer < Attempts - 1
    /\ outer' = outer + 1 /\ Again
    /\ UNCHANGED <<commands, results, odd, error, at, task>>

NavigationCutsOff(kind) ==
    \/ retry /\ reads' = reads + 1
    \/ outer >= Attempts - 1 /\ fails(operation_error_code(kind))

OtherError(kind) ==
    \E code \in {"timeout", "browser_unavailable", operation_error_code(kind)} : fails(code)

evaluate_page ==
    /\ Executing({"evaluate"})
    /\ \/ \E undecodable \in BOOLEAN : succeeded_result(undecodable)
       \/ NavigationCutsOff("evaluate")
       \/ OtherError("evaluate")
       \/ fails("validation_failed") /\ reads = 0
    /\ UNCHANGED pressed

(* read_state: title, text and html, each an access of its own. *)
read_part ==
    /\ Executing({"get_page_state"})
    /\ phase = "read" /\ part < Current.parts
    /\ \/ /\ part' = part + 1
          /\ reads' = reads + 1
          /\ UNCHANGED <<commands, outer, inner, phase, results, odd, error, at, task>>
       \/ NavigationCutsOff("get_page_state")
       \/ OtherError("get_page_state")
    /\ UNCHANGED pressed

parts_read ==
    /\ Executing({"get_page_state"})
    /\ phase = "read" /\ part = Current.parts
    /\ phase' = "inputs"
    /\ UNCHANGED <<commands, outer, inner, part, reads, pressed, results, odd, error, at, task>>

read_state == read_part \/ parts_read

(* collect_page_inputs and collect_page_actions retry by themselves; only  *)
(* when they give up does read_state start again.                          *)
collect_page ==
    /\ Executing({"get_page_state"})
    /\ phase \in {"inputs", "actions"}
    /\ \/ /\ phase = "inputs"
          /\ phase' = "actions" /\ inner' = 0
          /\ reads' = reads + 1
          /\ UNCHANGED <<commands, outer, part, results, odd, error, at, task>>
       \/ phase = "actions" /\ \E undecodable \in BOOLEAN : succeeded_result(undecodable)
       \/ /\ inner < Attempts - 1
          /\ inner' = inner + 1
          /\ reads' = reads + 1
          /\ UNCHANGED <<commands, outer, phase, part, results, odd, error, at, task>>
       \/ inner = Attempts - 1 /\ NavigationCutsOff("get_page_state")
       \/ OtherError("get_page_state")
    /\ UNCHANGED pressed

(* The end of the loop. *)
Answer ==
    /\ at = "loop"
    /\ Len(results) = Len(commands)
    /\ at' = "answered"
    /\ UNCHANGED <<commands, page, pressed, results, odd, error, task>>

(* Mutant: an answer that cannot be decoded counts as one without error. *)
RecordUndecoded ==
    /\ at = "answered"
    /\ at' = "recorded"
    /\ task' = [status     |-> IF error = None THEN "SUCCEEDED" ELSE "FAILED",
                results    |-> IF odd THEN <<>> ELSE results,
                last_error |-> AutomationError(error)]
    /\ UNCHANGED <<commands, page, pressed, results, odd, error>>

(* The service: one result that cannot be decoded spoils the answer. *)
Record ==
    /\ at = "answered"
    /\ at' = "recorded"
    /\ task' = [status     |-> IF odd \/ error # None THEN "FAILED" ELSE "SUCCEEDED",
                results    |-> IF odd THEN <<>> ELSE results,
                last_error |-> AutomationError(IF odd THEN "browser_unavailable" ELSE error)]
    /\ UNCHANGED <<commands, page, pressed, results, odd, error>>

-----------------------------------------------------------------------------
Init ==
    /\ commands \in BoundedSeq(Command, MaxCommands)
    /\ outer = 0 /\ inner = 0 /\ phase = "read" /\ part = 0 /\ reads = 0
    /\ pressed = FALSE
    /\ results = <<>>
    /\ odd = FALSE
    /\ error = None
    /\ at = "loop"
    /\ task = [status |-> "RUNNING", results |-> <<>>, last_error |-> NoError]

Next ==
    \/ execute_command \/ mouse_button \/ click_locator \/ hold_down \/ hold_up
    \/ evaluate_page \/ read_state \/ collect_page
    \/ Answer \/ Record

Spec == Init /\ [][Next]_vars

-----------------------------------------------------------------------------
(***************************************************************************)
(* Properties                                                              *)
(***************************************************************************)

Failed(i) == results[i].status = "FAILED"

(* Nothing is executed after the first failure that ends the task, and the *)
(* last error of the task is that of exactly that command, the last one in *)
(* it, although each of the two is translated by a table of its own; an    *)
(* answer that cannot be decoded has no results.                           *)
StopsAtFirstFatal ==
    /\ \A i \in DOMAIN results :
         Failed(i) /\ ~commands[i].continue_on_error => i = Len(results) /\ error # None
    /\ error # None => results # <<>> /\ ~commands[Len(results)].continue_on_error
    /\ task.status = "FAILED" /\ task.results # <<>> =>
         task.last_error = Last(task.results).error

(* A task in SUCCEEDED has a result for every one of its commands, and the *)
(* failed ones among them were allowed to fail.                            *)
SuccessIsComplete ==
    task.status = "SUCCEEDED" =>
        /\ Len(task.results) = Len(commands)
        /\ \A i \in DOMAIN commands :
             task.results[i].status = "SUCCEEDED" \/ commands[i].continue_on_error

(* However often the page navigates, an expression is evaluated at most    *)
(* three times, and a page state with p of title, text and html takes at   *)
(* most 3 * (p + 3 + 3) accesses, the last of which ends the command.  The *)
(* waits for the page to settle come on top, one for each retry.           *)
RetriesBounded ==
    at = "loop" /\ Len(results) < Len(commands) =>
        /\ Current.kind = "evaluate" => reads < Attempts
        /\ Current.kind = "get_page_state" => reads < Attempts * (Current.parts + 2 * Attempts)

(* Between commands the button is down only after a mouse_down, or after a *)
(* click, a hold or a drag that failed on its way, with nothing since that *)
(* lets go: the commands that go on after such a failure, and the next     *)
(* task, find it down.                                                     *)
ReleasedUnlessCut ==
    pressed /\ phase # "held" =>
        \E i \in DOMAIN results :
            /\ \/ commands[i].kind = "mouse_down" /\ ~Failed(i)
               \/ commands[i].kind \in {"click", "set_checked", "hold"} /\ Failed(i)
            /\ \A j \in i + 1 .. Len(results) :
                 commands[j].kind \in {"mouse_up", "click", "hold"} => Failed(j)
=============================================================================
