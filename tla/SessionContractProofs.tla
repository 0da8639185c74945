------------------------ MODULE SessionContractProofs ------------------------
(***************************************************************************)
(* Proofs about SessionContract: what a browser is launched with, for any  *)
(* widths of the integers and any numbers in the environment; and what the *)
(* worker makes of a command, however many of its fields are set.          *)
(***************************************************************************)
EXTENDS SessionContract, FiniteSetTheorems, TLAPS

-----------------------------------------------------------------------------
(***************************************************************************)
(* Numbers of the environment                                              *)
(***************************************************************************)

(* A set of n elements has 2^n subsets. *)
LEMMA PowersPositive == \A n \in Nat : 2^n \in Nat \ {0}
<1>1. TAKE n \in Nat
<1>2. IsFiniteSet(1..n) /\ Cardinality(1..n) = n
  BY FS_Interval
<1>3. IsFiniteSet(SUBSET (1..n)) /\ Cardinality(SUBSET (1..n)) = 2^n
  BY <1>2, FS_SUBSET
<1>4. SUBSET (1..n) # {}
  OBVIOUS
<1>. QED
  BY <1>3, <1>4, FS_CardinalityType, FS_EmptySet

LEMMA WrapIsInteger ==
  ASSUME NEW n \in Int, NEW bits \in Nat \ {0}
  PROVE  Wrap(n, bits) \in Int
<1>1. bits - 1 \in Nat
  OBVIOUS
<1>2. 2^(bits - 1) \in Nat /\ 2^bits \in Nat \ {0}
  BY <1>1, PowersPositive
<1>. DEFINE half == 2^(bits - 1)  all == 2^bits
<1>. HIDE DEF half, all
<1>3. ((n + half) % all) - half \in Int
  BY <1>2 DEF half, all
<1>. QED
  BY <1>3 DEF Wrap, half, all

Setting == {{}} \cup {{n} : n \in Int}

Settings ==
    /\ env.max_conns \in Setting /\ env.port \in Setting /\ env.headless \in BOOLEAN
    /\ \A t \in Timeouts : env.timeouts[t] \in Setting

LEMMA SettingsHold == LaunchInit => Settings
<1>1. Vars \subseteq Setting
  BY WidthAssumption DEF Vars, Setting
<1>. QED
  BY <1>1 DEF LaunchInit, PlainEnv, Settings, Setting, Timeouts

LEMMA IntegersRead ==
  ASSUME Settings
  PROVE  /\ envInt(env.max_conns, DefaultConns) \in Int
         /\ envInt(env.port, 0) \in Int
         /\ \A t \in Timeouts : envDurationSeconds(env.timeouts[t], DefaultTimeout) \in Int
<1>1. ASSUME NEW var \in Setting, var # {} PROVE Only(var) \in Int
  <2>1. PICK n \in Int : var = {n}
    BY <1>1 DEF Setting
  <2>2. \E m \in var : TRUE
    BY <2>1
  <2>. QED
    BY <2>1, <2>2 DEF Only
<1>2. DefaultConns \in Int /\ DefaultTimeout \in Int
  BY DefaultsAssumption
<1>3. ASSUME NEW t \in Timeouts
      PROVE  envDurationSeconds(env.timeouts[t], DefaultTimeout) \in Int
  BY <1>1, <1>2, WrapIsInteger, WidthAssumption DEF Settings, envDurationSeconds
<1>. QED
  BY <1>1, <1>2, <1>3 DEF Settings, envInt

-----------------------------------------------------------------------------
(***************************************************************************)
(* Startup and launch                                                      *)
(***************************************************************************)

Configs ==
    [conns : Int, proxy_refs : Trimmed(env.proxy_refs), port : Int, headless : BOOLEAN,
     timeouts : [Timeouts -> Int]]

LaunchInv ==
    /\ Settings
    /\ launch \in {"env", "exited", "configured", "serving", "launched", "failed"}
    /\ launch \in {"configured", "serving", "launched", "failed"} =>
         config \in Configs /\ config.conns >= 1
    /\ launch \in {"serving", "launched", "failed"} =>
         \A t \in Timeouts : config.timeouts[t] > 0
    /\ launch = "launched" => options.server.proxy \in ProxyOption(config)

LEMMA LaunchInvInit == Init => LaunchInv
<1>1. LaunchInit => launch = "env"
  BY DEF LaunchInit
<1>. QED
  BY <1>1, SettingsHold DEF Init, LaunchInv

(* The numbers are checked after they have been converted. *)
LEMMA LoadConfigKeepsLaunchInv == LaunchInv /\ loadConfig => LaunchInv'
<1>. SUFFICES ASSUME LaunchInv, loadConfig PROVE LaunchInv'
  OBVIOUS
<1>. DEFINE conns == Wrap(envInt(env.max_conns, DefaultConns), ConnsBits)
<1>1. Settings /\ Settings'
  BY DEF LaunchInv, loadConfig, Settings
<1>2. conns \in Int
  BY <1>1, IntegersRead, WrapIsInteger, WidthAssumption
<1>3. [t \in Timeouts |-> envDurationSeconds(env.timeouts[t], DefaultTimeout)]
        \in [Timeouts -> Int]
  BY <1>1, IntegersRead
<1>. HIDE DEF conns
<1>4. CASE launch' = "exited"
  BY <1>1, <1>4 DEF LaunchInv
<1>5. CASE launch' # "exited"
  <2>1. ~(conns < 1) /\ launch' = "configured"
    BY <1>5 DEF loadConfig, conns
  <2>2. PICK refs \in Trimmed(env.proxy_refs) :
          config' = [conns |-> conns, proxy_refs |-> refs,
                     port |-> envInt(env.port, 0), headless |-> env.headless,
                     timeouts |-> [t \in Timeouts |->
                         envDurationSeconds(env.timeouts[t], DefaultTimeout)]]
    BY <1>5 DEF loadConfig, conns
  <2>3. envInt(env.port, 0) \in Int /\ env.headless \in BOOLEAN
    BY <1>1, IntegersRead DEF Settings
  <2>4. config' \in Configs /\ config'.conns >= 1
    BY <1>2, <1>3, <2>1, <2>2, <2>3 DEF Configs
  <2>5. Configs' = Configs
    BY DEF Configs, loadConfig
  <2>. QED
    BY <1>1, <2>1, <2>4, <2>5 DEF LaunchInv
<1>. QED
  BY <1>4, <1>5

(* A zero becomes the default, and what is below zero ends the process. *)
LEMMA NewRuntimeKeepsLaunchInv == LaunchInv /\ newRuntime => LaunchInv'
<1>. SUFFICES ASSUME LaunchInv, newRuntime PROVE LaunchInv'
  OBVIOUS
<1>1. Settings' /\ Configs' = Configs
  BY DEF LaunchInv, newRuntime, Settings, Configs
<1>2. config \in Configs /\ config.conns >= 1
  BY DEF LaunchInv, newRuntime
<1>3. DefaultTimeout \in Int /\ DefaultTimeout > 0
  <2>1. DurationBits - 1 \in Nat
    BY WidthAssumption
  <2>2. 2^(DurationBits - 1) \in Nat
    BY <2>1, PowersPositive
  <2>. QED
    BY <2>2, DefaultsAssumption
<1>4. /\ config' = normalize(config)
      /\ config' \in Configs /\ config'.conns = config.conns
      /\ \A t \in Timeouts : config'.timeouts[t] # 0
  BY <1>2, <1>3 DEF newRuntime, normalize, Configs
<1>5. CASE launch' = "exited"
  BY <1>1, <1>5 DEF LaunchInv
<1>6. CASE launch' # "exited"
  <2>1. launch' = "serving" /\ \A t \in Timeouts : ~(config'.timeouts[t] < 0)
    BY <1>6 DEF newRuntime
  <2>2. \A t \in Timeouts : config'.timeouts[t] > 0
    BY <1>4, <2>1 DEF Configs
  <2>. QED
    BY <1>1, <1>2, <1>4, <2>1, <2>2 DEF LaunchInv
<1>. QED
  BY <1>5, <1>6

LEMMA StartServerKeepsLaunchInv == LaunchInv /\ startServer => LaunchInv'
<1>. SUFFICES ASSUME LaunchInv, startServer PROVE LaunchInv'
  OBVIOUS
<1>1. /\ Settings' /\ Configs' = Configs /\ config' = config
      /\ ProxyOption(config)' = ProxyOption(config)
  BY DEF LaunchInv, startServer, Settings, Configs, ProxyOption
<1>2. /\ config \in Configs /\ config.conns >= 1
      /\ \A t \in Timeouts : config.timeouts[t] > 0
  BY DEF LaunchInv, startServer
<1>3. launch' \in {"failed", "launched"}
  BY DEF startServer
<1>4. launch' = "launched" => options'.server.proxy \in ProxyOption(config)
  BY DEF startServer, serverOptions
<1>. QED
  BY <1>1, <1>2, <1>3, <1>4 DEF LaunchInv

LEMMA LaunchInvHolds == Spec => []LaunchInv
<1>1. LaunchInv /\ UNCHANGED launchVars => LaunchInv'
  BY DEF LaunchInv, launchVars, Settings, Configs, ProxyOption
<1>2. LaunchInv /\ [Next]_vars => LaunchInv'
  <2>1. [Next]_vars => loadConfig \/ newRuntime \/ startServer \/ UNCHANGED launchVars
    BY DEF Next, LaunchNext, Check, Execute, vars, launchVars
  <2>. QED
    BY <1>1, <2>1, LoadConfigKeepsLaunchInv, NewRuntimeKeepsLaunchInv,
       StartServerKeepsLaunchInv
<1>. QED
  BY <1>2, LaunchInvInit, PTL DEF Spec

(* Whatever the numbers in the environment and the widths of the integers  *)
(* they are converted to, a service that serves has at least one           *)
(* connection and timeouts above zero (loadConfig, normalize).             *)
THEOREM LimitsPositive == Spec => []LimitsHold
<1>1. LaunchInv => LimitsHold
  BY DEF LaunchInv, LimitsHold
<1>. QED
  BY <1>1, LaunchInvHolds, PTL

(* A browser whose profile names a proxy is launched with one configured   *)
(* under that name, whichever of the names that differ in blanks only the  *)
(* trimming of the map has kept (loadConfig, serverOptions).               *)
THEOREM ProxyKept == Spec => []ProxyOrNothing
<1>1. LaunchInv => ProxyOrNothing
  <2>. SUFFICES ASSUME LaunchInv, launch = "launched", TrimSpace(profile.proxy_ref) # ""
                PROVE  \E name \in DOMAIN env.proxy_refs :
                         /\ TrimSpace(name) = TrimSpace(profile.proxy_ref)
                         /\ options.server.proxy = TrimSpace(env.proxy_refs[name])
    BY DEF ProxyOrNothing
  <2>. DEFINE ref == TrimSpace(profile.proxy_ref)
  <2>1. ref \in DOMAIN config.proxy_refs /\ options.server.proxy = config.proxy_refs[ref]
    BY DEF LaunchInv, ProxyOption
  <2>2. config.proxy_refs \in Trimmed(env.proxy_refs)
    BY DEF LaunchInv, Configs
  <2>. HIDE DEF ref
  <2>3. PICK name \in DOMAIN env.proxy_refs :
          /\ TrimSpace(name) = ref
          /\ config.proxy_refs[ref] = TrimSpace(env.proxy_refs[name])
    <3>1. \A r \in DOMAIN config.proxy_refs :
            \E name \in DOMAIN env.proxy_refs :
              TrimSpace(name) = r /\ config.proxy_refs[r] = TrimSpace(env.proxy_refs[name])
      BY <2>2 DEF Trimmed
    <3>. QED
      BY <2>1, <3>1
  <2>. QED
    BY <2>1, <2>3 DEF ref
<1>. QED
  BY <1>1, LaunchInvHolds, PTL
-----------------------------------------------------------------------------
(***************************************************************************)
(* Commands                                                                *)
(***************************************************************************)

SelectorFields == {"selector", "source_selector", "target_selector"}
GroupFields    == {"selector_group", "source_selector_group", "target_selector_group"}
PointFields    == {"point", "position", "source_point", "target_point"}
TextFields     == {"url", "text", "key", "url_pattern", "name", "expression"}

(* What every payload of an operation holds, whatever the operation. *)
FieldsTyped(op, p) ==
    \A f \in DOMAIN p :
        /\ f \in SelectorFields => p[f] \in BrowserSelector
        /\ f \in GroupFields    => p[f] \in BrowserSelectorGroup
        /\ f \in PointFields    => p[f] \in BrowserPoint
        /\ f \in TextFields     => p[f] \in Text
        /\ f = "path"           => p[f] \in Path
        /\ f = "wait_until"     => p[f] \in BrowserNavigationWaitUntil
        /\ f = "button"         => p[f] \in BrowserMouseButton
        /\ f = "duration"       => p[f] \in Duration
        /\ f = "state" =>
             p[f] \in IF op = "wait_for_selector" THEN BrowserSelectorState
                                                  ELSE BrowserLoadState

(* The fields that the two checks of a command read. *)
FieldsPresent(op, p) ==
    /\ op \in LocatorOps \cup MaybeLocatorOps =>
         {"selector", "selector_group"} \subseteq DOMAIN p
    /\ op \in DOMAIN required => required[op] \in DOMAIN p
    /\ op = "mouse_move"  => {"point", "path"} \subseteq DOMAIN p
    /\ op = "mouse_click" => "point" \in DOMAIN p
    /\ op = "drag" =>
         /\ {"source_selector", "source_selector_group", "source_point"} \subseteq DOMAIN p
         /\ {"target_selector", "target_selector_group", "target_point"} \subseteq DOMAIN p
    /\ op = "wait_for_timeout" => "duration" \in DOMAIN p
    /\ op \in {"click", "mouse_click"} <=> "hold_duration" \in DOMAIN p
    /\ DOMAIN p \cap {"source_point", "target_point", "source_selector", "target_selector"} # {}
         => op = "drag"

LEMMA PayloadsTyped ==
  ASSUME NEW op \in DOMAIN Operation, NEW p \in Operation[op]
  PROVE  FieldsTyped(op, p) /\ FieldsPresent(op, p)
<1>. USE DEF FieldsTyped, SelectorFields, GroupFields, PointFields, TextFields,
             FieldsPresent, LocatorOps, MaybeLocatorOps, required
<1>1. CASE op = "navigate"
  BY <1>1 DEF Operation, NavigateCommand
<1>2. CASE op = "reload"
  BY <1>2 DEF Operation, ReloadCommand
<1>3. CASE op = "go_back"
  BY <1>3 DEF Operation, GoBackCommand
<1>4. CASE op = "go_forward"
  BY <1>4 DEF Operation, GoForwardCommand
<1>5. CASE op = "click"
  BY <1>5 DEF Operation, ClickCommand
<1>6. CASE op = "fill"
  BY <1>6 DEF Operation, FillCommand
<1>7. CASE op = "set_checked"
  BY <1>7 DEF Operation, SetCheckedCommand
<1>8. CASE op = "type_text"
  BY <1>8 DEF Operation, TypeTextCommand
<1>9. CASE op = "clear"
  BY <1>9 DEF Operation, ClearCommand
<1>10. CASE op = "press"
  BY <1>10 DEF Operation, PressCommand
<1>11. CASE op = "focus"
  BY <1>11 DEF Operation, FocusCommand
<1>12. CASE op = "blur"
  BY <1>12 DEF Operation, BlurCommand
<1>13. CASE op = "hover"
  BY <1>13 DEF Operation, HoverCommand
<1>14. CASE op = "mouse_move"
  BY <1>14 DEF Operation, MouseMoveCommand
<1>15. CASE op = "mouse_click"
  BY <1>15 DEF Operation, MouseClickCommand
<1>16. CASE op = "mouse_down"
  BY <1>16 DEF Operation, MouseDownCommand
<1>17. CASE op = "mouse_up"
  BY <1>17 DEF Operation, MouseUpCommand
<1>18. CASE op = "drag"
  BY <1>18 DEF Operation, DragCommand
<1>19. CASE op = "scroll"
  BY <1>19 DEF Operation, ScrollCommand
<1>20. CASE op = "wait_for_selector"
  BY <1>20 DEF Operation, WaitForSelectorCommand
<1>21. CASE op = "wait_for_text"
  BY <1>21 DEF Operation, WaitForTextCommand
<1>22. CASE op = "wait_for_url"
  BY <1>22 DEF Operation, WaitForURLCommand
<1>23. CASE op = "wait_for_load_state"
  BY <1>23 DEF Operation, WaitForLoadStateCommand
<1>24. CASE op = "wait_for_timeout"
  BY <1>24 DEF Operation, WaitForTimeoutCommand
<1>25. CASE op = "get_page_state"
  BY <1>25 DEF Operation, GetPageStateCommand
<1>26. CASE op = "extract_text"
  BY <1>26 DEF Operation, ExtractTextCommand
<1>27. CASE op = "get_attribute"
  BY <1>27 DEF Operation, GetAttributeCommand
<1>28. CASE op = "count_elements"
  BY <1>28 DEF Operation, CountElementsCommand
<1>29. CASE op = "extract_element"
  BY <1>29 DEF Operation, ExtractElementCommand
<1>30. CASE op = "screenshot"
  BY <1>30 DEF Operation, ScreenshotCommand
<1>31. CASE op = "upload_file"
  BY <1>31 DEF Operation, UploadFileCommand
<1>32. CASE op = "select_option"
  BY <1>32 DEF Operation, SelectOptionCommand
<1>33. CASE op = "submit_form"
  BY <1>33 DEF Operation, SubmitFormCommand
<1>34. CASE op = "evaluate"
  BY <1>34 DEF Operation, EvaluateCommand
<1>35. CASE op = "get_cookies"
  BY <1>35 DEF Operation, GetCookiesCommand
<1>36. CASE op = "get_storage_state"
  BY <1>36 DEF Operation, GetStorageStateCommand
<1>37. CASE op = "wait_for_network_request"
  BY <1>37 DEF Operation, WaitForNetworkRequestCommand
<1>38. CASE op = "get_network_requests"
  BY <1>38 DEF Operation, GetNetworkRequestsCommand
<1>39. CASE op = "none"
  BY <1>39 DEF Operation
<1>. QED
  BY <1>1, <1>2, <1>3, <1>4, <1>5, <1>6, <1>7, <1>8, <1>9, <1>10, <1>11, <1>12,
     <1>13, <1>14, <1>15, <1>16, <1>17, <1>18, <1>19, <1>20, <1>21, <1>22,
     <1>23, <1>24, <1>25, <1>26, <1>27, <1>28, <1>29, <1>30, <1>31, <1>32,
     <1>33, <1>34, <1>35, <1>36, <1>37, <1>38, <1>39 DEF Operation

-----------------------------------------------------------------------------
(***************************************************************************)
(* What the worker hears of a field                                        *)
(***************************************************************************)

LEMMA OnTheWire ==
  ASSUME NEW p, NEW f \in DOMAIN p
  PROVE  /\ f \in DOMAIN toWire(p) <=> p[f] \notin Unset
         /\ p[f] \notin Unset => toWire(p)[f] = p[f]
BY DEF toWire, SetFields

LEMMA UnsetHeard ==
  ASSUME NEW op, NEW p, NEW f \in DOMAIN p, p[f] \in Unset,
         f \notin {"include_cookies", "include_origins"}
  PROVE  get(op, toWire(p), f) = Nothing
<1>1. f \notin DOMAIN toWire(p)
  BY OnTheWire
<1>. QED
  BY <1>1 DEF get

LEMMA SelectorHeard ==
  ASSUME NEW op, NEW p, FieldsTyped(op, p), NEW f \in DOMAIN p \cap SelectorFields
  PROVE  /\ p[f] = "absent" => get(op, toWire(p), f) = Nothing
         /\ p[f] # "absent" => get(op, toWire(p), f) = p[f]
<1>1. p[f] \in BrowserSelector
  BY DEF FieldsTyped
<1>2. locator_for_selector(p[f]) = IF p[f] = "absent" THEN "CSS" ELSE p[f]
  BY <1>1 DEF locator_for_selector, BrowserSelector, BrowserSelectorKind
<1>3. p[f] \in Unset <=> p[f] = "absent"
  BY <1>1 DEF BrowserSelector, BrowserSelectorKind, Unset
<1>. QED
  BY <1>2, <1>3, OnTheWire, UnsetHeard DEF get, SelectorFields

LEMMA GroupHeard ==
  ASSUME NEW op, NEW p, FieldsTyped(op, p), NEW f \in DOMAIN p \cap GroupFields
  PROVE  get(op, toWire(p), f) = IF p[f] = "absent" THEN Nothing ELSE p[f]
<1>1. p[f] \in BrowserSelectorGroup
  BY DEF FieldsTyped
<1>. QED
  BY <1>1, OnTheWire DEF get, GroupFields, BrowserSelectorGroup, Unset

LEMMA PointHeard ==
  ASSUME NEW op, NEW p, FieldsTyped(op, p), NEW f \in DOMAIN p \cap PointFields
  PROVE  get(op, toWire(p), f) = IF p[f] = "elsewhere" THEN p[f] ELSE Nothing
<1>1. p[f] \in BrowserPoint
  BY DEF FieldsTyped
<1>. QED
  BY <1>1, OnTheWire, UnsetHeard
  DEF get, PointFields, BrowserPoint, point_value, Unset

LEMMA TextHeard ==
  ASSUME NEW op, NEW p, FieldsTyped(op, p), NEW f \in DOMAIN p \cap TextFields
  PROVE  get(op, toWire(p), f) = IF p[f] = "text" THEN p[f] ELSE Nothing
<1>1. p[f] \in Text
  BY DEF FieldsTyped
<1>. QED
  BY <1>1, OnTheWire DEF get, TextFields, Text, Unset

LEMMA PathHeard ==
  ASSUME NEW op, NEW p, FieldsTyped(op, p), "path" \in DOMAIN p
  PROVE  get(op, toWire(p), "path") = IF p["path"] = "points" THEN "points" ELSE Nothing
<1>1. p["path"] \in Path
  BY DEF FieldsTyped
<1>. QED
  BY <1>1, OnTheWire, UnsetHeard DEF get, Path, Unset

(* The other fields, the enumerations among them, come as they were sent:  *)
(* each side knows the names of the other.                                 *)
LEMMA FieldHeard ==
  ASSUME NEW op, NEW p, FieldsTyped(op, p), NEW f \in DOMAIN p,
         f \notin {"include_cookies", "include_origins"}
  PROVE  LET value == get(op, toWire(p), f)
         IN  \/ p[f] \in Unset /\ value = Nothing
             \/ p[f] = value
             \/ p[f] \in {"origin", "origins"}
<1>1. CASE p[f] \in Unset
  BY <1>1, UnsetHeard
<1>2. CASE p[f] \notin Unset
  <2>1. CASE f \in SelectorFields
    BY <1>2, <2>1, SelectorHeard DEF Unset
  <2>2. CASE f \in PointFields
    <3>1. p[f] \in {"origin", "elsewhere"}
      BY <1>2, <2>2 DEF FieldsTyped, BrowserPoint, Unset
    <3>. QED
      BY <2>2, <3>1, PointHeard
  <2>3. CASE f = "path"
    <3>1. p[f] \in {"origins", "points"}
      BY <1>2, <2>3 DEF FieldsTyped, Path, Unset
    <3>. QED
      BY <2>3, <3>1, PathHeard
  <2>4. CASE f = "wait_until"
    <3>1. p[f] \in wait_until_value
      BY <1>2, <2>4 DEF FieldsTyped, BrowserNavigationWaitUntil, Unset, wait_until_value
    <3>. QED
      BY <1>2, <2>4, <3>1, OnTheWire DEF get
  <2>5. CASE f = "button"
    <3>1. p[f] \in mouse_button_value
      BY <1>2, <2>5 DEF FieldsTyped, BrowserMouseButton, Unset, mouse_button_value
    <3>. QED
      BY <1>2, <2>5, <3>1, OnTheWire DEF get
  <2>6. CASE f = "state"
    <3>1. p[f] \in IF op = "wait_for_selector" THEN selector_state_value
                                               ELSE load_state_value
      BY <1>2, <2>6 DEF FieldsTyped, BrowserSelectorState, BrowserLoadState, Unset,
                        selector_state_value, load_state_value
    <3>. QED
      BY <1>2, <2>6, <3>1, OnTheWire DEF get
  <2>7. CASE f \notin SelectorFields \cup PointFields
                        \cup {"path", "wait_until", "button", "state"}
    BY <1>2, <2>7, OnTheWire DEF get, SelectorFields, PointFields
  <2>. QED
    BY <2>1, <2>2, <2>3, <2>4, <2>5, <2>6, <2>7
<1>. QED
  BY <1>1, <1>2

-----------------------------------------------------------------------------
(***************************************************************************)
(* The two checks of a command                                             *)
(***************************************************************************)

(* A group with a selector that has a value hides the selector for both; a *)
(* blank one hides it for the worker only.                                 *)
LEMMA SelectorResolves ==
  ASSUME NEW op, NEW p, FieldsTyped(op, p),
         NEW s \in DOMAIN p \cap SelectorFields, NEW g \in DOMAIN p \cap GroupFields,
         p[g] # "blank"
  PROVE  /\ resolves(op, toWire(p), s, g) <=> hasSelector(p[s], p[g])
         /\ HasValue(get(op, toWire(p), s)) <=> HasValue(p[s])
         /\ get(op, toWire(p), g) \in {"named", Nothing}
         /\ get(op, toWire(p), g) = "named" <=> p[g] = "named"
<1>1. p[g] \in {"absent", "named"}
  BY DEF FieldsTyped, BrowserSelectorGroup
<1>2. get(op, toWire(p), g) = IF p[g] = "absent" THEN Nothing ELSE "named"
  BY <1>1, GroupHeard
<1>3. HasValue(get(op, toWire(p), s)) <=> HasValue(p[s])
  BY SelectorHeard DEF HasValue, BrowserSelectorKind, Nothing
<1>. QED
  BY <1>1, <1>2, <1>3 DEF resolves, hasSelector, Nothing

LEMMA DragEndResolves ==
  ASSUME NEW op, NEW p, FieldsTyped(op, p),
         NEW s \in DOMAIN p \cap SelectorFields, NEW g \in DOMAIN p \cap GroupFields,
         NEW at \in DOMAIN p \cap PointFields,
         p[g] # "blank", p[at] # "origin",
         hasSelector(p[s], p[g]) \/ p[at] # "absent"
  PROVE  drag_end(op, toWire(p), s, g, at)
<1>1. p[at] \in {"absent", "elsewhere"}
  BY DEF FieldsTyped, BrowserPoint
<1>2. CASE HasValue(get(op, toWire(p), s)) \/ get(op, toWire(p), g) # Nothing
  BY <1>2, SelectorResolves DEF drag_end, has_selector, hasSelector
<1>3. CASE ~(HasValue(get(op, toWire(p), s)) \/ get(op, toWire(p), g) # Nothing)
  <2>1. ~hasSelector(p[s], p[g])
    BY <1>3, SelectorResolves DEF hasSelector, Nothing
  <2>2. get(op, toWire(p), at) # Nothing
    BY <1>1, <2>1, PointHeard DEF Nothing
  <2>. QED
    BY <1>3, <2>2 DEF drag_end, has_selector
<1>. QED
  BY <1>2, <1>3

LEMMA ValidAttempts ==
  ASSUME NEW op \in DOMAIN Operation, NEW p \in Operation[op],
         validCommand(op, p), op # "upload_file",
         \A f \in DOMAIN p : p[f] \notin {"origin", "origins"},
         \A f \in DOMAIN p \cap GroupFields : p[f] # "blank"
  PROVE  attempts(op, toWire(p))
<1>. DEFINE w == toWire(p)
<1>1. FieldsTyped(op, p) /\ FieldsPresent(op, p)
  BY PayloadsTyped
<1>2. op # "none"
  BY DEF validCommand
<1>. HIDE DEF w
<1>3. op \in LocatorOps => resolves(op, w, "selector", "selector_group")
  <2>. SUFFICES ASSUME op \in LocatorOps
                PROVE  resolves(op, w, "selector", "selector_group")
    OBVIOUS
  <2>1. hasSelector(p["selector"], p["selector_group"])
    BY DEF validCommand, LocatorOps, SelectorIsRequired
  <2>. QED
    BY <1>1, <2>1, SelectorResolves DEF FieldsPresent, SelectorFields, GroupFields, w
<1>4. op \in MaybeLocatorOps /\ has_command_locator(op, w) =>
        resolves(op, w, "selector", "selector_group")
  <2>. SUFFICES ASSUME op \in MaybeLocatorOps, has_command_locator(op, w)
                PROVE  resolves(op, w, "selector", "selector_group")
    OBVIOUS
  <2>. QED
    BY <1>1, SelectorResolves
    DEF FieldsPresent, SelectorFields, GroupFields, has_command_locator, hasSelector, w
<1>5. op \in DOMAIN required => get(op, w, required[op]) # Nothing
  <2>. SUFFICES ASSUME op \in DOMAIN required PROVE get(op, w, required[op]) # Nothing
    OBVIOUS
  <2>1. required[op] \in DOMAIN p \cap TextFields
    BY <1>1 DEF FieldsPresent, required, TextFields
  <2>2. p[required[op]] # "empty"
    BY DEF validCommand, TextIsRequired, required
  <2>3. p[required[op]] = "text"
    BY <1>1, <2>1, <2>2 DEF FieldsTyped, Text
  <2>. QED
    BY <1>1, <2>1, <2>3, TextHeard DEF Nothing, w
<1>6. op = "mouse_move" => moves(op, w)
  <2>. SUFFICES ASSUME op = "mouse_move" PROVE moves(op, w)
    OBVIOUS
  <2>1. "path" \in DOMAIN p /\ "point" \in DOMAIN p \cap PointFields
    BY <1>1 DEF FieldsPresent, PointFields
  <2>2. p["path"] \in {"empty", "points"} /\ p["point"] \in {"absent", "elsewhere"}
    BY <1>1, <2>1 DEF FieldsTyped, Path, BrowserPoint, PointFields
  <2>3. p["point"] # "absent" \/ p["path"] # "empty"
    BY DEF validCommand
  <2>4. "path" \in DOMAIN w <=> p["path"] = "points"
    BY <2>1, <2>2, OnTheWire DEF Unset, w
  <2>. QED
    BY <1>1, <2>1, <2>2, <2>3, <2>4, PathHeard, PointHeard DEF moves, Nothing, w
<1>7. op = "mouse_click" => get(op, w, "point") # Nothing
  <2>. SUFFICES ASSUME op = "mouse_click" PROVE get(op, w, "point") # Nothing
    OBVIOUS
  <2>1. "point" \in DOMAIN p \cap PointFields /\ p["point"] # "absent"
    BY <1>1 DEF FieldsPresent, PointFields, validCommand
  <2>2. p["point"] = "elsewhere"
    BY <1>1, <2>1 DEF FieldsTyped, BrowserPoint
  <2>. QED
    BY <1>1, <2>1, <2>2, PointHeard DEF Nothing, w
<1>8. op = "drag" =>
        /\ drag_end(op, w, "source_selector", "source_selector_group", "source_point")
        /\ drag_end(op, w, "target_selector", "target_selector_group", "target_point")
  <2>. SUFFICES ASSUME op = "drag"
       PROVE  /\ drag_end(op, w, "source_selector", "source_selector_group", "source_point")
              /\ drag_end(op, w, "target_selector", "target_selector_group", "target_point")
    OBVIOUS
  <2>1. /\ {"source_selector", "target_selector"} \subseteq DOMAIN p \cap SelectorFields
        /\ {"source_selector_group", "target_selector_group"} \subseteq
             DOMAIN p \cap GroupFields
        /\ {"source_point", "target_point"} \subseteq DOMAIN p \cap PointFields
    BY <1>1 DEF FieldsPresent, SelectorFields, GroupFields, PointFields
  <2>2. /\ hasSelector(p["source_selector"], p["source_selector_group"])
             \/ p["source_point"] # "absent"
        /\ hasSelector(p["target_selector"], p["target_selector_group"])
             \/ p["target_point"] # "absent"
    BY DEF validCommand
  <2>. QED
    BY <1>1, <2>1, <2>2, DragEndResolves DEF w
<1>9. op = "wait_for_timeout" => get(op, w, "duration") = "positive"
  <2>. SUFFICES ASSUME op = "wait_for_timeout" PROVE get(op, w, "duration") = "positive"
    OBVIOUS
  <2>1. "duration" \in DOMAIN p /\ p["duration"] = "positive"
    BY <1>1 DEF FieldsPresent, validCommand
  <2>. QED
    BY <2>1, OnTheWire DEF get, Unset, w
<1>. QED
  BY <1>2, <1>3, <1>4, <1>5, <1>6, <1>7, <1>8, <1>9 DEF attempts, w

-----------------------------------------------------------------------------
(***************************************************************************)
(* Commands on their way                                                   *)
(***************************************************************************)

CommandInv ==
    /\ command.op \in DOMAIN Operation /\ command.payload \in Operation[command.op]
    /\ stage \in {"client", "rejected", "accepted", "attempted", "invalid"}
    /\ stage \in {"accepted", "attempted", "invalid"} =>
         validCommand(command.op, command.payload)
    /\ stage = "attempted" => attempts(command.op, toWire(command.payload))
    /\ stage = "invalid" => ~attempts(command.op, toWire(command.payload))

LEMMA CommandInvHolds == Spec => []CommandInv
<1>1. Init => CommandInv
  <2>1. \A c \in Commands : c.op \in DOMAIN Operation /\ c.payload \in Operation[c.op]
    BY DEF Commands, BrowserCommand
  <2>. QED
    BY <2>1 DEF Init, CommandInit, CommandInv
<1>2. CommandInv /\ [Next]_vars => CommandInv'
  <2>. SUFFICES ASSUME CommandInv, [Next]_vars PROVE CommandInv'
    OBVIOUS
  <2>1. command' = command
    BY DEF Next, Check, Execute, validateCommands, execute_command, commandVars, vars
  <2>2. CASE validateCommands
    BY <2>1, <2>2 DEF CommandInv, validateCommands
  <2>3. CASE execute_command
    BY <2>1, <2>3 DEF CommandInv, execute_command
  <2>4. CASE UNCHANGED commandVars
    BY <2>1, <2>4 DEF CommandInv, commandVars
  <2>. QED
    BY <2>2, <2>3, <2>4 DEF Next, Check, Execute, vars, commandVars
<1>. QED
  BY <1>1, <1>2, PTL DEF Spec

(* Of any command, however many of its fields are set: what                *)
(* validateCommands accepts, execute_command gets to the page with, but    *)
(* for points at the origin, groups of blank selectors and upload_file.    *)
THEOREM AcceptedAttempted == Spec => []AcceptedIsAttempted
<1>1. CommandInv => AcceptedIsAttempted
  <2>. SUFFICES ASSUME CommandInv, stage = "invalid",
                       ~UsesOrigin, ~BlankGroup, command.op # "upload_file"
                PROVE  FALSE
    BY DEF AcceptedIsAttempted
  <2>1. /\ command.op \in DOMAIN Operation /\ command.payload \in Operation[command.op]
        /\ validCommand(command.op, command.payload)
        /\ ~attempts(command.op, toWire(command.payload))
    BY DEF CommandInv
  <2>2. \A f \in DOMAIN command.payload : command.payload[f] \notin {"origin", "origins"}
    BY DEF UsesOrigin, AtOrigin
  <2>3. \A f \in DOMAIN command.payload \cap GroupFields : command.payload[f] # "blank"
    BY DEF BlankGroup, GroupFields
  <2>. QED
    BY <2>1, <2>2, <2>3, ValidAttempts
<1>. QED
  BY <1>1, CommandInvHolds, PTL

(* What the worker leaves aside, the client has displaced. *)
LEMMA PassedOverDisplaced ==
  ASSUME CommandInv, stage = "attempted", NEW f \in DOMAIN command.payload,
         passes_over(command.op, toWire(command.payload), f)
  PROVE  \/ Displaced(f)
         \/ command.payload[f] = "absent"
         \/ f = "timeout" /\ command.op \in {"evaluate", "blur"}
<1>. DEFINE op == command.op  p == command.payload  w == toWire(command.payload)
<1>1. /\ op \in DOMAIN Operation /\ p \in Operation[op]
      /\ attempts(op, w)
  BY DEF CommandInv
<1>2. FieldsTyped(op, p) /\ FieldsPresent(op, p)
  BY <1>1, PayloadsTyped
<1>. HIDE DEF op, p
<1>3. ASSUME NEW s \in DOMAIN p \cap SelectorFields
      PROVE  /\ get(op, w, s) = IF p[s] = "absent" THEN Nothing ELSE p[s]
             /\ HasValue(get(op, w, s)) <=> HasValue(p[s])
  BY <1>2, <1>3, SelectorHeard DEF HasValue, BrowserSelectorKind, Nothing, p
<1>4. ASSUME NEW g \in DOMAIN p \cap GroupFields
      PROVE  get(op, w, g) = IF p[g] = "absent" THEN Nothing ELSE p[g]
  BY <1>2, <1>4, GroupHeard DEF p
<1>5. op \in LocatorOps \cup MaybeLocatorOps =>
        /\ "selector" \in DOMAIN p /\ "selector_group" \in DOMAIN p
        /\ has_command_locator(op, w) <=> hasSelector(p["selector"], p["selector_group"])
  <2>1. op \in LocatorOps \cup MaybeLocatorOps =>
          {"selector", "selector_group"} \subseteq DOMAIN p
    BY <1>2 DEF FieldsPresent
  <2>. QED
    BY <2>1, <1>3, <1>4
    DEF has_command_locator, hasSelector, SelectorFields, GroupFields, Nothing
<1>6. op = "drag" => \A at \in DOMAIN selector_of :
        /\ selector_of[at] \in DOMAIN p /\ group_of[selector_of[at]] \in DOMAIN p
        /\ LET s == selector_of[at]  g == group_of[selector_of[at]]
           IN  has_selector(op, w, s, g) <=> hasSelector(p[s], p[g])
  <2>. SUFFICES ASSUME op = "drag", NEW at \in DOMAIN selector_of
       PROVE  /\ selector_of[at] \in DOMAIN p /\ group_of[selector_of[at]] \in DOMAIN p
              /\ LET s == selector_of[at]  g == group_of[selector_of[at]]
                 IN  has_selector(op, w, s, g) <=> hasSelector(p[s], p[g])
    OBVIOUS
  <2>1. PICK s, g, pt : /\ s = selector_of[at] /\ g = group_of[s] /\ pt = at
                        /\ s \in DOMAIN p \cap SelectorFields
                        /\ g \in DOMAIN p \cap GroupFields
                        /\ drag_end(op, w, s, g, pt)
    BY <1>1, <1>2
    DEF attempts, FieldsPresent, selector_of, group_of, SelectorFields, GroupFields
  <2>2. p[g] \in {"absent", "blank", "named"}
    BY <1>2, <2>1 DEF FieldsTyped, BrowserSelectorGroup
  <2>3. has_selector(op, w, s, g) <=> hasSelector(p[s], p[g])
    BY <1>3, <1>4, <2>1, <2>2
    DEF has_selector, hasSelector, drag_end, resolves, HasValue, BrowserSelectorKind, Nothing
  <2>. QED
    BY <2>1, <2>3
<1>7. held(op, w) => p["hold_duration"] = "positive"
  <2>1. held(op, w) => "hold_duration" \in DOMAIN p
    BY <1>2 DEF held, FieldsPresent
  <2>2. held(op, w) => "hold_duration" \in DOMAIN w /\ w["hold_duration"] = "positive"
    BY DEF held, get, Nothing
  <2>. QED
    BY <2>1, <2>2, OnTheWire DEF w, p
<1>8. CASE op \in {"evaluate", "blur"} /\ f = "timeout"
  BY <1>8 DEF op
<1>9. CASE /\ f \in DOMAIN group_of
           /\ get(op, w, group_of[f]) # Nothing \/ get(op, w, f) = "blank"
  <2>1. f \in DOMAIN p \cap SelectorFields
    BY <1>9 DEF group_of, SelectorFields, p
  <2>2. CASE get(op, w, f) = "blank"
    BY <1>3, <1>9, <2>1, <2>2 DEF Displaced, Nothing, p
  <2>3. CASE get(op, w, group_of[f]) # Nothing
    <3>1. group_of[f] \in GroupFields
      BY <1>9 DEF group_of, GroupFields
    <3>2. group_of[f] \in DOMAIN w
      BY <2>3, <3>1 DEF get, GroupFields
    <3>3. group_of[f] \in DOMAIN p
      BY <3>2 DEF toWire, SetFields, p
    <3>4. p[group_of[f]] # "absent"
      BY <1>4, <2>3, <3>1, <3>3
    <3>. QED
      BY <1>9, <3>4 DEF Displaced, p
  <2>. QED
    BY <1>9, <2>2, <2>3
<1>10. CASE /\ f \in DOMAIN group_of \cup {"selector_group"}
            /\ op \in MaybeLocatorOps /\ ~has_command_locator(op, w)
  <2>1. CASE f = "selector_group"
    <3>1. p[f] \in {"absent", "blank"}
      BY <1>2, <1>5, <1>10, <2>1
      DEF FieldsTyped, GroupFields, BrowserSelectorGroup, hasSelector
    <3>. QED
      BY <2>1, <3>1 DEF Displaced, p
  <2>2. CASE f \in DOMAIN group_of
    <3>1. f = "selector"
      BY <1>2, <1>10, <2>2 DEF FieldsPresent, group_of, MaybeLocatorOps, p
    <3>2. p[f] \in {"absent", "blank"}
      BY <1>2, <1>5, <1>10, <3>1
      DEF FieldsTyped, SelectorFields, BrowserSelector, hasSelector, HasValue
    <3>. QED
      BY <2>2, <3>2 DEF Displaced, p
  <2>. QED
    BY <1>10, <2>1, <2>2
<1>11. CASE /\ op \in {"type_text", "press", "scroll"} /\ f \in {"timeout", "clear_before"}
            /\ ~has_command_locator(op, w)
  BY <1>5, <1>11 DEF MaybeLocatorOps, Displaced, Given, group_of, op, p
<1>12. CASE op = "screenshot" /\ f = "full_page" /\ has_command_locator(op, w)
  BY <1>5, <1>12 DEF MaybeLocatorOps, Displaced, Given, group_of, op, p
<1>13. CASE held(op, w) /\ f \in {"click_count", "force", "delay"}
  BY <1>7, <1>13 DEF held, Displaced, op, p
<1>14. CASE ~held(op, w) /\ f = "hold_duration"
  <2>1. op \in {"click", "mouse_click"}
    BY <1>2, <1>14 DEF FieldsPresent, p
  <2>2. p[f] # "positive"
    BY <1>14, <2>1, OnTheWire DEF held, get, Unset, w, p
  <2>. QED
    BY <1>14, <2>2 DEF Displaced, p
<1>15. CASE op = "mouse_move" /\ f = "point" /\ "path" \in DOMAIN w
  BY <1>15 DEF toWire, SetFields, Unset, Displaced, op, p
<1>16. CASE op = "mouse_move" /\ f = "duration" /\ get(op, w, f) = "0s"
  BY <1>16, OnTheWire DEF get, Nothing, Displaced, toWire, op, p
<1>17. CASE /\ f \in DOMAIN selector_of
            /\ has_selector(op, w, selector_of[f], group_of[selector_of[f]])
  <2>1. op = "drag"
    BY <1>2, <1>17 DEF FieldsPresent, selector_of, p
  <2>. QED
    BY <1>6, <1>17, <2>1 DEF Displaced, Given, p
<1>18. CASE /\ op = "drag" /\ f = "timeout"
            /\ \A at \in DOMAIN selector_of :
                 ~has_selector(op, w, selector_of[at], group_of[selector_of[at]])
  <2>1. /\ "source_point" \in DOMAIN selector_of /\ selector_of["source_point"] = "source_selector"
        /\ "target_point" \in DOMAIN selector_of /\ selector_of["target_point"] = "target_selector"
    BY DEF selector_of
  <2>2. ~Given("source_selector") /\ ~Given("target_selector")
    BY <1>6, <1>18, <2>1 DEF Given, p
  <2>. QED
    BY <1>18, <2>2 DEF Displaced, op
<1>. QED
  BY <1>8, <1>9, <1>10, <1>11, <1>12, <1>13, <1>14, <1>15, <1>16, <1>17, <1>18
  DEF passes_over, op, p

(* Of any command that is attempted, the worker uses of every field what   *)
(* the client wrote, or leaves it aside because the client has displaced   *)
(* it; the fields excepted are those ReadAsSent names (toWire, heard).     *)
THEOREM HeardAsSent == Spec => []ReadAsSent
<1>1. CommandInv => ReadAsSent
  <2>. SUFFICES ASSUME CommandInv, NEW f \in DOMAIN command.payload,
                       stage = "attempted",
                       f \notin {"include_cookies", "include_origins"},
                       ~(f = "timeout" /\ command.op \in {"evaluate", "blur"})
       PROVE  LET sent == command.payload[f]
                  used == heard(command.op, toWire(command.payload), f)
              IN  \/ sent \in Unset /\ used = Nothing
                  \/ sent = used
                  \/ Displaced(f) /\ used = Nothing
                  \/ AtOrigin(f)
    BY DEF ReadAsSent
  <2>1. FieldsTyped(command.op, command.payload)
    BY PayloadsTyped DEF CommandInv
  <2>2. CASE passes_over(command.op, toWire(command.payload), f)
    BY <2>2, PassedOverDisplaced DEF heard, Unset
  <2>3. CASE ~passes_over(command.op, toWire(command.payload), f)
    BY <2>1, <2>3, FieldHeard DEF heard, AtOrigin
  <2>. QED
    BY <2>2, <2>3
<1>. QED
  BY <1>1, CommandInvHolds, PTL
=============================================================================
