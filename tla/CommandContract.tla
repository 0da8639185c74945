--------------------------- MODULE CommandContract ---------------------------
(***************************************************************************)
(* One command of a task on its way from the client to the page: checked   *)
(* by validateCommands (automation_service.go), written as JSON            *)
(* (protojson with UseProtoNames), and checked again and read by the       *)
(* worker (scripts/worker.py).  The two checks are written in two          *)
(* languages over two representations, and only the first one is made      *)
(* before a task is stored.  A task is accepted when all its commands are. *)
(*                                                                         *)
(* What the page then does with a command is not modelled.                 *)
(***************************************************************************)
EXTENDS BrowserMessages

CONSTANT MaxFields      \* bound: fields set in one command

ASSUME FieldsAssumption == MaxFields \in Nat

VARIABLES
    command,    \* what the client sends
    stage       \* how far it has come

commandVars == <<command, stage>>

Commands == BrowserCommand(MaxFields)

-----------------------------------------------------------------------------
(***************************************************************************)
(* The service                                                             *)
(***************************************************************************)

SelectorIsRequired ==
    {"click", "fill", "set_checked", "clear", "focus", "blur", "hover", "wait_for_selector",
     "extract_text", "count_elements", "get_attribute", "extract_element", "upload_file",
     "select_option", "submit_form"}

TextIsRequired ==
    [navigate |-> "url", type_text |-> "text", press |-> "key", wait_for_text |-> "text",
     wait_for_url |-> "url_pattern", get_attribute |-> "name", evaluate |-> "expression"]

HasValue(selector) == selector \in BrowserSelectorKind

(* Mutant: any selector will do, with a value or not. *)
hasAnySelector(selector, group) == selector # "absent" \/ group # "absent"

hasSelector(selector, group) == HasValue(selector) \/ group = "named"

validCommand(op, p) ==
    /\ op # "none"
    /\ op \in SelectorIsRequired => hasSelector(p.selector, p.selector_group)
    /\ op \in DOMAIN TextIsRequired => p[TextIsRequired[op]] # "empty"
    /\ op = "mouse_move"  => p.point # "absent" \/ p.path # "empty"
    /\ op = "mouse_click" => p.point # "absent"
    /\ op = "drag" =>
         /\ hasSelector(p.source_selector, p.source_selector_group) \/ p.source_point # "absent"
         /\ hasSelector(p.target_selector, p.target_selector_group) \/ p.target_point # "absent"
    /\ op = "scroll" =>
         hasSelector(p.selector, p.selector_group) \/ p.delta_x # "zero" \/ p.delta_y # "zero"
    /\ op = "upload_file"   => p.file_secret_refs # "empty"
    /\ op = "select_option" => "listed" \in {p.values, p.labels, p.indexes}
    /\ op = "wait_for_timeout" => p.duration = "positive"
    /\ op = "wait_for_network_request" => p.timeout # "negative"
    /\ op = "get_network_requests" => p.limit # "negative"

(* protojson leaves a field out when it is a scalar at zero, an empty list *)
(* or a nil message; a message that is there is written, empty or not.     *)
toWire(payload) == [f \in SetFields(payload) |-> payload[f]]

-----------------------------------------------------------------------------
(***************************************************************************)
(* The worker: what it reads                                               *)
(***************************************************************************)

Nothing == "nothing"

(* Mutant: one name of an enumeration forgotten. *)
selector_state_without_hidden == {"ATTACHED", "DETACHED", "VISIBLE"}

wait_until_value     == {"LOAD", "DOM_CONTENT_LOADED", "NETWORK_IDLE", "COMMIT"}
load_state_value     == {"LOAD", "DOM_CONTENT_LOADED", "NETWORK_IDLE"}
mouse_button_value   == {"LEFT", "RIGHT", "MIDDLE"}
selector_state_value == {"ATTACHED", "DETACHED", "VISIBLE", "HIDDEN"}

(* Kinds with a locator of their own; the others are CSS. *)
locator_for_selector(selector) ==
    IF selector \in {"blank", "TEXT", "ROLE", "LABEL", "PLACEHOLDER", "TEST_ID", "XPATH"}
    THEN selector ELSE "CSS"

(* Whatever is empty in JSON is false in Python: a point at the origin is  *)
(* {}, and as good as none.                                                *)
point_value(point) == IF point = "origin" THEN Nothing ELSE point

(* payload.get(f), converted. *)
get(op, w, f) ==
    IF f \notin DOMAIN w
    THEN IF f \in {"include_cookies", "include_origins"} THEN "true" ELSE Nothing
    ELSE CASE f \in {"selector", "source_selector", "target_selector"} ->
                locator_for_selector(w[f])
           [] f \in {"point", "position", "source_point", "target_point"} ->
                point_value(w[f])
           [] f = "path" -> IF w[f] = "origins" THEN Nothing ELSE w[f]
           [] f = "wait_until" -> IF w[f] \in wait_until_value THEN w[f] ELSE Nothing
           [] f = "button" -> IF w[f] \in mouse_button_value THEN w[f] ELSE Nothing
           [] f = "state"  ->
                IF w[f] \in (IF op = "wait_for_selector" THEN selector_state_value
                                                         ELSE load_state_value)
                THEN w[f] ELSE Nothing
           [] OTHER -> w[f]

-----------------------------------------------------------------------------
(***************************************************************************)
(* The worker: whether it gets as far as the page                          *)
(***************************************************************************)

LocatorOps ==
    {"click", "fill", "set_checked", "clear", "focus", "blur", "hover", "wait_for_selector",
     "extract_text", "count_elements", "get_attribute", "extract_element",
     "select_option", "submit_form"}
MaybeLocatorOps == {"type_text", "press", "scroll", "screenshot"}

required ==
    [navigate |-> "url", type_text |-> "text", press |-> "key", wait_for_text |-> "text",
     wait_for_url |-> "url_pattern", get_attribute |-> "name", evaluate |-> "expression"]

(* A group that has selectors hides the selector; it is refused when none  *)
(* of them has a value.                                                    *)
resolves(op, w, selector, group) ==
    IF get(op, w, group) # Nothing
    THEN get(op, w, group) = "named"
    ELSE HasValue(get(op, w, selector))

has_command_locator(op, w) ==
    HasValue(get(op, w, "selector")) \/ get(op, w, "selector_group") = "named"

(* mouse_move: the points of the path, or else the one point. *)
moves(op, w) ==
    IF "path" \in DOMAIN w THEN get(op, w, "path") # Nothing ELSE get(op, w, "point") # Nothing

(* One end of a drag. *)
has_selector(op, w, selector, group) ==
    HasValue(get(op, w, selector)) \/ get(op, w, group) # Nothing

drag_end(op, w, selector, group, point) ==
    IF has_selector(op, w, selector, group)
    THEN resolves(op, w, selector, group)
    ELSE get(op, w, point) # Nothing

attempts(op, w) ==
    /\ op \notin {"none", "upload_file"}
    /\ op \in LocatorOps => resolves(op, w, "selector", "selector_group")
    /\ op \in MaybeLocatorOps /\ has_command_locator(op, w) =>
         resolves(op, w, "selector", "selector_group")
    /\ op \in DOMAIN required => get(op, w, required[op]) # Nothing
    /\ op = "mouse_move"  => moves(op, w)
    /\ op = "mouse_click" => get(op, w, "point") # Nothing
    /\ op = "drag" =>
         /\ drag_end(op, w, "source_selector", "source_selector_group", "source_point")
         /\ drag_end(op, w, "target_selector", "target_selector_group", "target_point")
    /\ op = "wait_for_timeout" => get(op, w, "duration") = "positive"

-----------------------------------------------------------------------------
(***************************************************************************)
(* The worker: what it uses of a command that it attempts                  *)
(***************************************************************************)

group_of ==
    [selector |-> "selector_group", source_selector |-> "source_selector_group",
     target_selector |-> "target_selector_group"]
selector_of == [source_point |-> "source_selector", target_point |-> "target_selector"]

held(op, w) == op \in {"click", "mouse_click"} /\ get(op, w, "hold_duration") = "positive"

(* Fields that the branches taken for this command never come to, or come  *)
(* to and do nothing with.                                                 *)
passes_over(op, w, f) ==
    \/ op \in {"evaluate", "blur"} /\ f = "timeout"
    \/ /\ f \in DOMAIN group_of
       /\ get(op, w, group_of[f]) # Nothing \/ get(op, w, f) = "blank"
    \/ f \in DOMAIN group_of \cup {"selector_group"}
         /\ op \in MaybeLocatorOps /\ ~has_command_locator(op, w)
    \/ op \in {"type_text", "press", "scroll"} /\ f \in {"timeout", "clear_before"}
         /\ ~has_command_locator(op, w)
    \/ op = "screenshot" /\ f = "full_page" /\ has_command_locator(op, w)
    \/ held(op, w) /\ f \in {"click_count", "force", "delay"}
    \/ ~held(op, w) /\ f = "hold_duration"
    \/ op = "mouse_move" /\ f = "point" /\ "path" \in DOMAIN w
    \/ op = "mouse_move" /\ f = "duration" /\ get(op, w, f) = "0s"
    \/ /\ f \in DOMAIN selector_of
       /\ has_selector(op, w, selector_of[f], group_of[selector_of[f]])
    \/ /\ op = "drag" /\ f = "timeout"
       /\ \A p \in DOMAIN selector_of :
            ~has_selector(op, w, selector_of[p], group_of[selector_of[p]])

heard(op, w, f) == IF passes_over(op, w, f) THEN Nothing ELSE get(op, w, f)

-----------------------------------------------------------------------------
CommandInit ==
    /\ command \in Commands
    /\ stage = "client"

validateCommands ==
    /\ stage = "client"
    /\ stage' = IF validCommand(command.op, command.payload) THEN "accepted" ELSE "rejected"
    /\ UNCHANGED command

(* The task is sent to the worker, and the worker comes to the command. *)
execute_command ==
    /\ stage = "accepted"
    /\ stage' = IF attempts(command.op, toWire(command.payload)) THEN "attempted" ELSE "invalid"
    /\ UNCHANGED command

CommandNext == validateCommands \/ execute_command

-----------------------------------------------------------------------------
(***************************************************************************)
(* Properties                                                              *)
(***************************************************************************)

(* Where the two sides are known to differ (README.md, section 6).         *)
AtOrigin(f) == command.payload[f] \in {"origin", "origins"}
UsesOrigin  == \E f \in DOMAIN command.payload : AtOrigin(f)
BlankGroup  ==
    \E f \in {"selector_group", "source_selector_group", "target_selector_group"}
                \cap DOMAIN command.payload : command.payload[f] = "blank"

(* What the service accepts, the worker does not find invalid: apart from  *)
(* points at the origin, groups with blank selectors only and upload_file, *)
(* no task is stored and sent to a browser only to be refused for its form.*)
AcceptedIsAttempted ==
    stage = "invalid" => UsesOrigin \/ BlankGroup \/ command.op = "upload_file"

(* What the client wrote, by its own account, besides something that takes *)
(* its place or without what it needs: a selector beside a group, a whole  *)
(* page or a point beside an element, the count and delay of a click that  *)
(* is held, the timeout of a wait for an element that is not named, and    *)
(* selectors and durations of nothing.                                     *)
Given(s) == hasSelector(command.payload[s], command.payload[group_of[s]])

Displaced(f) ==
    LET op == command.op
        p  == command.payload
    IN  \/ f \in DOMAIN group_of /\ (p[group_of[f]] # "absent" \/ p[f] = "blank")
        \/ f = "selector_group" /\ p[f] = "blank"
        \/ op = "screenshot" /\ f = "full_page" /\ Given("selector")
        \/ op = "mouse_move" /\ f = "point" /\ p.path # "empty"
        \/ f \in DOMAIN selector_of /\ Given(selector_of[f])
        \/ op \in {"click", "mouse_click"} /\ f \in {"click_count", "force", "delay"}
             /\ p.hold_duration = "positive"
        \/ op \in {"type_text", "press", "scroll"} /\ f \in {"timeout", "clear_before"}
             /\ ~Given("selector")
        \/ op = "drag" /\ f = "timeout"
             /\ ~Given("source_selector") /\ ~Given("target_selector")
        \/ f = "hold_duration" /\ p[f] # "positive"
        \/ op = "mouse_move" /\ f = "duration" /\ p[f] = "0s"

(* What the worker uses of a command is what the client wrote, and nothing *)
(* where the client wrote nothing (protojson leaves out what is false or   *)
(* zero, and the worker has defaults of its own); and it leaves aside only *)
(* what the client has displaced.  The exceptions, with nothing in the     *)
(* command to explain them: include_cookies and include_origins, points at *)
(* the origin, and the timeouts of evaluate and blur.                      *)
ReadAsSent ==
    stage = "attempted" =>
        \A f \in DOMAIN command.payload :
            LET sent == command.payload[f]
                used == heard(command.op, toWire(command.payload), f)
            IN  \/ sent \in Unset /\ used = Nothing
                \/ sent = used
                \/ Displaced(f) /\ used = Nothing
                \/ AtOrigin(f)
                \/ f \in {"include_cookies", "include_origins"}
                \/ f = "timeout" /\ command.op \in {"evaluate", "blur"}
=============================================================================
