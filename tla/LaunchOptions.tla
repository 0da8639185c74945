---------------------------- MODULE LaunchOptions ----------------------------
(***************************************************************************)
(* From the environment of the service to the options a browser is         *)
(* launched with: loadConfig (main.go), NewPool (pool.go), the runtime's   *)
(* normalize (config.go), then serverOptions and workerOptions             *)
(* (options.go) for the profile of one session.                            *)
(*                                                                         *)
(* Integers have the widths below instead of 64 and 32 bits, and a second  *)
(* has Second units instead of 10^9.  A variable that is not set and one   *)
(* that is not a number are the same, {}; a number n is {n}.               *)
(***************************************************************************)
EXTENDS BrowserMessages, Integers

CONSTANTS
    DurationBits, ConnsBits,    \* widths of time.Duration and int32
    Second,                     \* time.Second
    DefaultConns, DefaultTimeout,
    Numbers                     \* bound: numbers in the environment

ASSUME WidthAssumption ==
    /\ DurationBits \in Nat \ {0} /\ ConnsBits \in Nat \ {0}
    /\ Second \in Nat \ {0} /\ Numbers \subseteq Int
ASSUME DefaultsAssumption ==
    /\ DefaultConns \in 1 .. 2^(ConnsBits - 1) - 1
    /\ DefaultTimeout \in 1 .. 2^(DurationBits - 1) - 1

VARIABLES
    env,        \* the environment
    profile,    \* of the session that will be started
    config,     \* config, then the runtime's Config
    options,    \* what server.py and worker.py are given
    launch      \* how far the service, then the session, has come

launchVars == <<env, profile, config, options, launch>>

-----------------------------------------------------------------------------
(***************************************************************************)
(* Strings and numbers                                                     *)
(***************************************************************************)

TrimSpace(s) ==
    CASE s = " " -> "" [] s = " p" -> "p" [] s = " http://b " -> "http://b" [] OTHER -> s

(* parseProxyOption: scheme, host, and nothing behind them. *)
ValidProxies == {"socks5://a", "http://b"}

(* Two's complement: what a conversion or a product keeps of n. *)
Wrap(n, bits) == ((n + 2^(bits - 1)) % 2^bits) - 2^(bits - 1)

Only(set) == CHOOSE n \in set : TRUE

envInt(var, fallback) == IF var = {} THEN fallback ELSE Only(var)

envDurationSeconds(var, fallback) ==
    IF var = {} THEN fallback ELSE Wrap(Only(var) * Second, DurationBits)

HasBlank(object) ==
    \E name \in DOMAIN object : TrimSpace(name) = "" \/ TrimSpace(object[name]) = ""

(* Names that differ in blanks only collide: the map's iteration order     *)
(* says whose value stays.                                                 *)
Trimmed(object) ==
    LET names == {TrimSpace(n) : n \in DOMAIN object}
    IN  {refs \in [names -> {TrimSpace(object[n]) : n \in DOMAIN object}] :
            \A name \in names :
                \E n \in DOMAIN object :
                    TrimSpace(n) = name /\ refs[name] = TrimSpace(object[n])}

-----------------------------------------------------------------------------
(***************************************************************************)
(* Startup                                                                 *)
(***************************************************************************)

Timeouts == {"startup", "shutdown", "task"}

loadConfig ==
    /\ launch = "env"
    /\ LET conns == Wrap(envInt(env.max_conns, DefaultConns), ConnsBits)
       IN  IF HasBlank(env.proxy_refs) \/ env.dsn = "" \/ conns < 1 \/ env.runtime # "camoufox"
           THEN launch' = "exited" /\ UNCHANGED config
           ELSE /\ launch' = "configured"
                /\ \E refs \in Trimmed(env.proxy_refs) :
                     config' = [conns |-> conns, proxy_refs |-> refs,
                                port |-> envInt(env.port, 0), headless |-> env.headless,
                                timeouts |-> [t \in Timeouts |->
                                    envDurationSeconds(env.timeouts[t], DefaultTimeout)]]
    /\ UNCHANGED <<env, profile, options>>

(* Mutant: one of the timeouts has no default. *)
normalizeTwo(c) ==
    [c EXCEPT !.timeouts = [t \in Timeouts |->
                                IF @[t] = 0 /\ t # "task" THEN DefaultTimeout ELSE @[t]]]

(* The defaults of the runtime are those of main.go. *)
normalize(c) ==
    [c EXCEPT !.timeouts = [t \in Timeouts |-> IF @[t] = 0 THEN DefaultTimeout ELSE @[t]]]

(* newRuntime; the pool of connections was opened before it. *)
newRuntime ==
    /\ launch = "configured"
    /\ config' = normalize(config)
    /\ IF \E t \in Timeouts : config'.timeouts[t] < 0 \/ config.port < 0
       THEN launch' = "exited"
       ELSE launch' = "serving"
    /\ UNCHANGED <<env, profile, options>>

-----------------------------------------------------------------------------
(***************************************************************************)
(* The launch of a session                                                 *)
(***************************************************************************)

(* StartBrowserSession: a profile that names no kind is for Firefox. *)
BrowserKindOf(p) == IF p.browser_kind = "UNSPECIFIED" THEN "FIREFOX" ELSE p.browser_kind

(* parseBoolLabel: what is not a boolean is as good as no label. *)
parseBoolLabel(label, default) ==
    CASE label \in {"1", "t", "true"}  -> TRUE
      [] label \in {"0", "f", "false"} -> FALSE
      [] OTHER                         -> default

(* Mutant: a reference that is not configured is no reference. *)
ProxyOrDirect(c) ==
    LET ref == TrimSpace(profile.proxy_ref)
    IN  IF ref \in DOMAIN c.proxy_refs THEN {c.proxy_refs[ref]} \cap ValidProxies
        ELSE {"direct"}

(* The proxy to launch with, {} when the launch fails: the reference is    *)
(* not configured, or its value is not the address of a proxy.             *)
ProxyOption(c) ==
    LET ref == TrimSpace(profile.proxy_ref)
    IN  IF ref = "" THEN {"direct"}
        ELSE {c.proxy_refs[r] : r \in DOMAIN c.proxy_refs \cap {ref}} \cap ValidProxies

Sized(viewport) == viewport.width = "positive" /\ viewport.height = "positive"

serverOptions(c, proxy) ==
    [proxy    |-> proxy,
     port     |-> c.port,
     headless |-> parseBoolLabel(profile.headless, c.headless),
     locale   |-> profile.locale,
     window   |-> Sized(profile.viewport)]

workerOptions ==
    [locale   |-> profile.locale,
     viewport |-> Sized(profile.viewport),
     scale    |-> Sized(profile.viewport) /\ profile.viewport.device_scale_factor = "positive"]

startServer ==
    /\ launch = "serving"
    /\ IF BrowserKindOf(profile) # "FIREFOX" \/ ProxyOption(config) = {}
       THEN launch' = "failed" /\ UNCHANGED options
       ELSE /\ launch' = "launched"
            /\ \E proxy \in ProxyOption(config) :
                 options' = [server |-> serverOptions(config, proxy), worker |-> workerOptions]
    /\ UNCHANGED <<env, profile, config>>

-----------------------------------------------------------------------------
PlainEnv ==
    [dsn |-> "dsn", runtime |-> "camoufox", headless |-> TRUE, proxy_refs |-> <<>>,
     max_conns |-> {}, port |-> {}, timeouts |-> [t \in Timeouts |-> {}]]

PlainProfile ==
    [browser_kind |-> "UNSPECIFIED", locale |-> "empty", proxy_ref |-> "", headless |-> "",
     viewport |-> [f \in {"width", "height", "device_scale_factor"} |-> "zero"]]

(* Names and addresses with and without blanks around them. *)
RefObjects ==
    UNION {[names -> {"socks5://a", " http://b ", "b", " "}] : names \in SUBSET {"p", " p", " "}}

Vars == {{}} \cup {{n} : n \in Numbers}

ProxyRefs == {"", " ", "p", " p", "q"}
Labels    == {"", "1", "f", "yes"}

(* Environments with any limits, with any proxies, and any profiles.       *)
LaunchInit ==
    /\ launch = "env"
    /\ config = <<>> /\ options = <<>>
    /\ \/ /\ \E conns \in Vars, port \in Vars, timeouts \in [Timeouts -> Vars] :
               env = [PlainEnv EXCEPT !.max_conns = conns, !.port = port, !.timeouts = timeouts]
          /\ profile = PlainProfile
       \/ /\ \E refs \in RefObjects : env = [PlainEnv EXCEPT !.proxy_refs = refs]
          /\ \E ref \in ProxyRefs : profile = [PlainProfile EXCEPT !.proxy_ref = ref]
       \/ /\ \E dsn \in {"", "dsn"}, runtime \in {"camoufox", "other"}, headless \in BOOLEAN :
               env = [PlainEnv EXCEPT !.dsn = dsn, !.runtime = runtime, !.headless = headless]
          /\ profile \in BrowserProfile({"", " "}, Labels)

LaunchNext == loadConfig \/ newRuntime \/ startServer

-----------------------------------------------------------------------------
(***************************************************************************)
(* Properties                                                              *)
(***************************************************************************)

(* Whatever the environment says, a service that serves has connections to *)
(* its database and waits for starts, stops and tasks, neither for ever    *)
(* nor not at all: numbers are checked after they have been converted, and *)
(* a zero that comes out of a conversion is the default.                   *)
LimitsHold ==
    launch \in {"serving", "launched", "failed"} =>
        /\ config.conns >= 1
        /\ \A t \in Timeouts : config.timeouts[t] > 0

(* A browser whose profile names a proxy goes through a proxy that was     *)
(* configured under that name, or is not launched at all; it never goes    *)
(* direct.                                                                 *)
ProxyOrNothing ==
    launch = "launched" /\ TrimSpace(profile.proxy_ref) # "" =>
        \E name \in DOMAIN env.proxy_refs :
            /\ TrimSpace(name) = TrimSpace(profile.proxy_ref)
            /\ options.server.proxy = TrimSpace(env.proxy_refs[name])
=============================================================================
