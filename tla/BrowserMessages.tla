--------------------------- MODULE BrowserMessages ---------------------------
(***************************************************************************)
(* The messages a client sends and receives in the commands of a task      *)
(* (browser_automation.proto, read as the structs and getters protoc made  *)
(* of it): one record set per message, one set of names per enumeration.   *)
(*                                                                         *)
(* A field holds what the service and the worker tell apart.  The first    *)
(* value of every domain is the one a field has when nobody set it.        *)
(***************************************************************************)
EXTENDS Naturals, FiniteSets

-----------------------------------------------------------------------------
(***************************************************************************)
(* Scalars and enumerations                                                *)
(***************************************************************************)

Bool     == {"false", "true"}
Number   == {"zero", "positive", "negative"}
Text     == {"empty", "text"}
List     == {"empty", "listed"}
Struct   == {"absent", "struct"}
Duration == {"absent", "0s", "positive", "negative"}

BrowserSelectorKind ==
    {"UNSPECIFIED", "CSS", "TEXT", "ROLE", "LABEL", "PLACEHOLDER", "TEST_ID", "XPATH"}
BrowserSelectorState == {"UNSPECIFIED", "ATTACHED", "DETACHED", "VISIBLE", "HIDDEN"}
BrowserNavigationWaitUntil ==
    {"UNSPECIFIED", "LOAD", "DOM_CONTENT_LOADED", "NETWORK_IDLE", "COMMIT"}
BrowserLoadState   == {"UNSPECIFIED", "LOAD", "DOM_CONTENT_LOADED", "NETWORK_IDLE"}
BrowserMouseButton == {"UNSPECIFIED", "LEFT", "RIGHT", "MIDDLE"}

BrowserCommandStatus == {"UNSPECIFIED", "SUCCEEDED", "FAILED", "TIMEOUT", "SKIPPED"}

BrowserAutomationErrorCode ==
    {"UNSPECIFIED", "VALIDATION_FAILED", "SESSION_NOT_FOUND", "TASK_NOT_FOUND",
     "ARTIFACT_NOT_FOUND", "SESSION_ALREADY_FINALIZED", "TASK_ALREADY_FINALIZED",
     "CAPACITY_UNAVAILABLE", "BROWSER_UNAVAILABLE", "PROXY_FAILED", "NAVIGATION_FAILED",
     "SCRIPT_FAILED", "TIMEOUT", "UNSUPPORTED_OPERATION", "INTERNAL"}

-----------------------------------------------------------------------------
(***************************************************************************)
(* Parts of commands                                                       *)
(***************************************************************************)

(* A selector with a value is told by its kind; without one it is CSS.     *)
BrowserSelector == {"absent", "blank"} \cup (BrowserSelectorKind \ {"UNSPECIFIED"})

(* Whether one of the selectors has a value; a group without selectors is  *)
(* as good as none on both sides.                                          *)
BrowserSelectorGroup == {"absent", "blank", "named"}

BrowserPoint == {"absent", "origin", "elsewhere"}
Path         == {"empty", "origins", "points"}

BrowserNetworkRequestFilter == {"absent", "filter"}

-----------------------------------------------------------------------------
(***************************************************************************)
(* Commands                                                                *)
(***************************************************************************)

NavigateCommand == [url : Text, wait_until : BrowserNavigationWaitUntil, timeout : Duration]
ReloadCommand    == [wait_until : BrowserNavigationWaitUntil, timeout : Duration]
GoBackCommand    == [wait_until : BrowserNavigationWaitUntil, timeout : Duration]
GoForwardCommand == [wait_until : BrowserNavigationWaitUntil, timeout : Duration]

ClickCommand ==
    [selector : BrowserSelector, selector_group : BrowserSelectorGroup,
     click_count : Number, force : Bool, button : BrowserMouseButton,
     position : BrowserPoint, delay : Duration, hold_duration : Duration, timeout : Duration]
FillCommand ==
    [selector : BrowserSelector, selector_group : BrowserSelectorGroup,
     value : Text, timeout : Duration]
SetCheckedCommand ==
    [selector : BrowserSelector, selector_group : BrowserSelectorGroup,
     checked : Bool, force : Bool, timeout : Duration]
TypeTextCommand ==
    [selector : BrowserSelector, selector_group : BrowserSelectorGroup,
     text : Text, clear_before : Bool, delay : Duration, timeout : Duration]
ClearCommand ==
    [selector : BrowserSelector, selector_group : BrowserSelectorGroup, timeout : Duration]
PressCommand ==
    [selector : BrowserSelector, selector_group : BrowserSelectorGroup,
     key : Text, timeout : Duration]
FocusCommand ==
    [selector : BrowserSelector, selector_group : BrowserSelectorGroup, timeout : Duration]
BlurCommand ==
    [selector : BrowserSelector, selector_group : BrowserSelectorGroup, timeout : Duration]
HoverCommand ==
    [selector : BrowserSelector, selector_group : BrowserSelectorGroup,
     position : BrowserPoint, timeout : Duration]

MouseMoveCommand == [point : BrowserPoint, path : Path, duration : Duration]
MouseClickCommand ==
    [point : BrowserPoint, button : BrowserMouseButton, click_count : Number,
     delay : Duration, hold_duration : Duration]
MouseDownCommand == [button : BrowserMouseButton]
MouseUpCommand   == [button : BrowserMouseButton]
DragCommand ==
    [source_selector : BrowserSelector, source_selector_group : BrowserSelectorGroup,
     source_point : BrowserPoint,
     target_selector : BrowserSelector, target_selector_group : BrowserSelectorGroup,
     target_point : BrowserPoint, timeout : Duration]
ScrollCommand ==
    [selector : BrowserSelector, selector_group : BrowserSelectorGroup,
     delta_x : Number, delta_y : Number, timeout : Duration]

WaitForSelectorCommand ==
    [selector : BrowserSelector, selector_group : BrowserSelectorGroup,
     state : BrowserSelectorState, timeout : Duration]
WaitForTextCommand      == [text : Text, exact : Bool, timeout : Duration]
WaitForURLCommand       == [url_pattern : Text, exact : Bool, timeout : Duration]
WaitForLoadStateCommand == [state : BrowserLoadState, timeout : Duration]
WaitForTimeoutCommand   == [duration : Duration]

GetPageStateCommand == [include_title : Bool, include_text : Bool, include_html : Bool]
ExtractTextCommand ==
    [selector : BrowserSelector, selector_group : BrowserSelectorGroup,
     all_matches : Bool, timeout : Duration]
GetAttributeCommand ==
    [selector : BrowserSelector, selector_group : BrowserSelectorGroup,
     name : Text, all_matches : Bool, timeout : Duration]
CountElementsCommand ==
    [selector : BrowserSelector, selector_group : BrowserSelectorGroup, timeout : Duration]
ExtractElementCommand ==
    [selector : BrowserSelector, selector_group : BrowserSelectorGroup, all_matches : Bool,
     include_text : Bool, include_html : Bool, include_attributes : Bool,
     attribute_names : List, include_bounding_box : Bool, include_visibility : Bool,
     timeout : Duration]
ScreenshotCommand ==
    [selector : BrowserSelector, selector_group : BrowserSelectorGroup,
     full_page : Bool, artifact_key : Text, timeout : Duration]
UploadFileCommand ==
    [selector : BrowserSelector, selector_group : BrowserSelectorGroup,
     file_secret_refs : List, timeout : Duration]
SelectOptionCommand ==
    [selector : BrowserSelector, selector_group : BrowserSelectorGroup,
     values : List, labels : List, indexes : List, timeout : Duration]
SubmitFormCommand ==
    [selector : BrowserSelector, selector_group : BrowserSelectorGroup, timeout : Duration]
EvaluateCommand        == [expression : Text, args : Struct, timeout : Duration]
GetCookiesCommand      == [urls : List]
GetStorageStateCommand == [include_cookies : Bool, include_origins : Bool]
WaitForNetworkRequestCommand ==
    [filter : BrowserNetworkRequestFilter, timeout : Duration, require_response : Bool]
GetNetworkRequestsCommand == [filter : BrowserNetworkRequestFilter, limit : Number]

-----------------------------------------------------------------------------
(***************************************************************************)
(* Profiles                                                                *)
(***************************************************************************)

BrowserKind == {"UNSPECIFIED", "CHROMIUM", "FIREFOX", "WEBKIT"}

(* No viewport is as good as one without size; "mobile" is never read.     *)
BrowserViewport == [width : Number, height : Number, device_scale_factor : Number]

(* Of the labels, camoufox.headless stands for the boolean ones; the       *)
(* fields that are copied as they are are left out, but for the locale.    *)
BrowserProfile(proxy_refs, labels) ==
    [browser_kind : BrowserKind, locale : Text, viewport : BrowserViewport,
     proxy_ref : proxy_refs, headless : labels]

-----------------------------------------------------------------------------
(***************************************************************************)
(* Any command                                                             *)
(***************************************************************************)

(* The oneof "operation": its members by the names they have in JSON, and  *)
(* the command that has none.                                              *)
Operation ==
    [navigate |-> NavigateCommand, reload |-> ReloadCommand, go_back |-> GoBackCommand,
     go_forward |-> GoForwardCommand, click |-> ClickCommand, fill |-> FillCommand,
     set_checked |-> SetCheckedCommand, type_text |-> TypeTextCommand,
     clear |-> ClearCommand, press |-> PressCommand, focus |-> FocusCommand,
     blur |-> BlurCommand, hover |-> HoverCommand, mouse_move |-> MouseMoveCommand,
     mouse_click |-> MouseClickCommand, mouse_down |-> MouseDownCommand,
     mouse_up |-> MouseUpCommand, drag |-> DragCommand, scroll |-> ScrollCommand,
     wait_for_selector |-> WaitForSelectorCommand, wait_for_text |-> WaitForTextCommand,
     wait_for_url |-> WaitForURLCommand, wait_for_load_state |-> WaitForLoadStateCommand,
     wait_for_timeout |-> WaitForTimeoutCommand, get_page_state |-> GetPageStateCommand,
     extract_text |-> ExtractTextCommand, get_attribute |-> GetAttributeCommand,
     count_elements |-> CountElementsCommand, extract_element |-> ExtractElementCommand,
     screenshot |-> ScreenshotCommand, upload_file |-> UploadFileCommand,
     select_option |-> SelectOptionCommand, submit_form |-> SubmitFormCommand,
     evaluate |-> EvaluateCommand, get_cookies |-> GetCookiesCommand,
     get_storage_state |-> GetStorageStateCommand,
     wait_for_network_request |-> WaitForNetworkRequestCommand,
     get_network_requests |-> GetNetworkRequestsCommand,
     none |-> {<<>>}]

(* What a field holds when nobody set it. *)
Unset == {"absent", "false", "zero", "empty", "UNSPECIFIED"}

SetFields(payload) == {f \in DOMAIN payload : payload[f] \notin Unset}

(* Commands with at most so many fields set; what all commands have (ids,  *)
(* labels, continue_on_error, a timeout for those without one of their own)*)
(* is left out.                                                            *)
BrowserCommand(fields) ==
    UNION {[op : {o},
            payload : {p \in Operation[o] : Cardinality(SetFields(p)) <= fields}] :
           o \in DOMAIN Operation}

-----------------------------------------------------------------------------
(***************************************************************************)
(* Results                                                                 *)
(***************************************************************************)

BrowserAutomationError == [code : BrowserAutomationErrorCode, retryable : BOOLEAN]

(* The error of a command that succeeded. *)
NoError == [code |-> "UNSPECIFIED", retryable |-> FALSE]

BrowserCommandResult == [status : BrowserCommandStatus, error : BrowserAutomationError]
=============================================================================
