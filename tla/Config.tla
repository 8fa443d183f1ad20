------------------------------- MODULE Config -------------------------------
(***************************************************************************)
(* Starting redis-sentinel-proxy: the options of the flags, environment    *)
(* and YAML file are merged with the defaults (src/pkg/config/flags.go,    *)
(* env.go, config.go), checked, turned into TLS configurations (tls.go)    *)
(* and handed to the constructors of the resolver and the proxy            *)
(* (runProxying of src/main.go).                                           *)
(*                                                                         *)
(* A Config is a function from the options that are set: an option outside *)
(* its domain is a nil pointer.  A value is a string; an explicitly empty  *)
(* one is set.  "bad" stands for a value that does not parse, an address   *)
(* that does not resolve, or a file that is not what it should be; a YAML  *)
(* file with an unknown key counts as one that cannot be read.             *)
(***************************************************************************)
CONSTANT
  Given  \* the inputs: what flags, env and file set, and the -config path

TopOption ==
  {"Listen", "ReplicaListen", "ReplicaFallback", "Sentinel", "Master", "Username",
   "Password", "MasterUsername", "MasterPassword", "Router", "ResolveRetries",
   "MaxConnections", "IdleTimeout", "Debug"}
BackendTLS ==
  {"Enabled", "CAFile", "CertFile", "KeyFile", "ServerName", "SkipVerify", "Passthrough"}
ListenTLS == {"Enabled", "CertFile", "KeyFile", "ClientCAFile"}

Top(o) == <<"top", o>>
Sentinel(o) == <<"SentinelTLS", o>>
Listener(o) == <<"ListenTLS", o>>
Master(o) == <<"MasterTLS", o>>
Option ==
  {Top(o) : o \in TopOption} \cup {Sentinel(o) : o \in BackendTLS}
    \cup {Listener(o) : o \in ListenTLS} \cup {Master(o) : o \in BackendTLS}

\* The boolean options, and all whose text is parsed: those, two numbers and a
\* duration.
Switch ==
  {Top(o) : o \in {"Router", "Debug"}}
    \cup {<<s, o>> : s \in {"SentinelTLS", "ListenTLS", "MasterTLS"},
                     o \in {"Enabled", "SkipVerify", "Passthrough"}}
Parsed == Switch \cup {Top(o) : o \in {"ResolveRetries", "MaxConnections", "IdleTimeout"}}

\* There is neither a flag nor a variable for the passthrough of sentinel.
Settable(source) == IF source = "file" THEN Option ELSE Option \ {Sentinel("Passthrough")}

ASSUME ConfigAssumption ==
  \A g \in Given :
    /\ \A s \in {"flags", "env", "file"} :
         /\ DOMAIN g[s] \subseteq Settable(s)
         /\ \A o \in DOMAIN g[s] : g[s][o] # "unset"
    /\ g.path \in {"none", "good", "unreadable"}
    /\ g.path # "good" => DOMAIN g.file = {}

VARIABLES
  given,     \* the input of this start
  pc,        \* the next step, or "running" or "fatal"
  cfg,       \* the Config that Load builds
  tls,       \* Config.tls
  resolver,  \* what NewRedisMasterResolver takes from the Config
  proxy      \* what NewRedisSentinelProxy takes from it

vars == <<given, pc, cfg, tls, resolver, proxy>>

Empty == [o \in {} |-> ""]
NoTLS == Empty  \* a nil *tls.Config
NoResolver == [username |-> "", password |-> "", masterUsername |-> "",
               masterPassword |-> "", trackReplicas |-> FALSE]
NoProxy == [local |-> "", replica |-> "", fallbackMaster |-> FALSE, router |-> FALSE]

Init ==
  /\ given \in Given
  /\ pc = "BindFlags"
  /\ cfg = Empty
  /\ tls = [c \in {"sentinel", "listen", "master", "masterProbe"} |-> NoTLS]
  /\ resolver = NoResolver
  /\ proxy = NoProxy

-----------------------------------------------------------------------------
(***************************************************************************)
(* The sources and their merge.                                            *)
(***************************************************************************)
Credential == {Top(o) : o \in {"Username", "Password", "MasterUsername", "MasterPassword"}}

NorRetries == Credential \cup {Sentinel("Passthrough"), Top("ResolveRetries")}

\* What Default() leaves nil.
NoDefault == Credential \cup {Sentinel("Passthrough")}

\* Default(): "default" stands for a value that is neither empty nor false.
Default ==
  [o \in Option \ NoDefault |->
     CASE o = Top("ReplicaFallback") -> "master"
       [] o \in {Top(t) : t \in {"Sentinel", "Master", "ResolveRetries",
                                 "MaxConnections", "IdleTimeout"}} -> "default"
       [] o \in Switch -> "false"
       [] OTHER -> ""]

LastWins(c, other, o) == IF o \in DOMAIN other THEN other[o] ELSE c[o]

\* fill: only what is nil is taken from the other Config.
fill(c, other, o) == IF o \in DOMAIN c THEN c[o] ELSE other[o]

\* Merge has no line for the passthrough of sentinel.
Merge(c, other) ==
  [o \in DOMAIN c \cup (DOMAIN other \ {Sentinel("Passthrough")}) |-> fill(c, other, o)]

Garbled(source) == \E o \in DOMAIN source \cap Parsed : source[o] = "bad"

Goto(step) == pc' = step /\ UNCHANGED <<given, tls, resolver, proxy>>

Fatal == Goto("fatal") /\ UNCHANGED cfg

\* flag.Parse exits on a bad value; only visited flags are copied.
BindFlags ==
  /\ pc = "BindFlags"
  /\ \/ Garbled(given.flags) /\ Fatal
     \/ ~Garbled(given.flags) /\ cfg' = given.flags /\ Goto("FromEnv")

\* A bad variable fails the start even if a flag overrides it.
FromEnv ==
  /\ pc = "FromEnv"
  /\ \/ Garbled(given.env) /\ Fatal
     \/ ~Garbled(given.env) /\ cfg' = Merge(cfg, given.env) /\ Goto("loadFile")

loadFile ==
  /\ pc = "loadFile"
  /\ \/ given.path = "none" /\ UNCHANGED cfg /\ Goto("Default")
     \/ (given.path = "unreadable" \/ Garbled(given.file)) /\ Fatal
     \/ /\ given.path = "good" /\ ~Garbled(given.file)
        /\ cfg' = Merge(cfg, given.file)
        /\ Goto("Default")

MergeDefault ==
  /\ pc = "Default"
  /\ cfg' = Merge(cfg, Default)
  /\ Goto("check")

-----------------------------------------------------------------------------
(***************************************************************************)
(* The checks and the TLS configurations.                                  *)
(***************************************************************************)
strSet(o) == o \in DOMAIN cfg /\ cfg[o] # ""
boolSet(o) == o \in DOMAIN cfg /\ cfg[o] = "true"

Check ==
  /\ pc = "check"
  /\ IF \/ cfg[Top("ReplicaFallback")] \notin {"master", "reject"}
        \/ cfg[Top("Router")] = "true" /\ boolSet(Master("Passthrough"))
       THEN Fatal
       ELSE Goto("sentinelTLS") /\ UNCHANGED cfg

TLSOption(section) ==
  {<<section, o>> : o \in {"CAFile", "CertFile", "KeyFile", "ServerName"}}

\* Some option of the section asks for TLS.
AnyOption(section) ==
  (\E o \in TLSOption(section) : strSet(o)) \/ boolSet(<<section, "SkipVerify">>)

\* loadCertPool fails, the certificate and the key do not come together, or
\* LoadX509KeyPair fails.
BadFiles(section) ==
  LET file(o) == IF strSet(<<section, o>>) THEN cfg[<<section, o>>] ELSE ""
  IN \/ file("CAFile") = "bad"
     \/ (file("CertFile") = "") # (file("KeyFile") = "")
     \/ "bad" \in {file("CertFile"), file("KeyFile")}

\* The settings a backend's tls.Config is built from.
BackendConfig(section) ==
  [o \in {"ServerName", "SkipVerify", "CAFile", "CertFile"} |-> cfg[<<section, o>>]]

Set(name, conf, step) ==
  /\ tls' = [tls EXCEPT ![name] = conf]
  /\ pc' = step
  /\ UNCHANGED <<given, cfg, resolver, proxy>>

FilesOnly ==
  /\ ~boolSet(Sentinel("Enabled"))
  /\ \E o \in {"CAFile", "CertFile", "KeyFile", "ServerName"} : strSet(Sentinel(o))

\* Options of a connection that is not to use TLS.
StrayOption == ~boolSet(Sentinel("Enabled")) /\ AnyOption("SentinelTLS")

sentinelTLSConfig ==
  /\ pc = "sentinelTLS"
  /\ IF \/ boolSet(Sentinel("Passthrough")) \/ StrayOption
        \/ boolSet(Sentinel("Enabled")) /\ BadFiles("SentinelTLS")
       THEN Fatal
       ELSE Set("sentinel", IF boolSet(Sentinel("Enabled"))
                              THEN BackendConfig("SentinelTLS") ELSE NoTLS, "listenTLS")

listenTLSConfig ==
  /\ pc = "listenTLS"
  /\ LET on == boolSet(Listener("Enabled"))
         file(o) == IF strSet(Listener(o)) THEN cfg[Listener(o)] ELSE ""
     IN IF \/ ~on /\ \E o \in ListenTLS \ {"Enabled"} : file(o) # ""
           \/ on /\ ("" \in {file("CertFile"), file("KeyFile")}
                     \/ "bad" \in {file(o) : o \in ListenTLS \ {"Enabled"}})
          THEN Fatal
          ELSE Set("listen", IF on THEN [o \in {"CertFile", "ClientCAFile"} |-> file(o)]
                             ELSE NoTLS, "masterTLS")

\* With passthrough the data connection stays as the client made it.
ProbeAndDial(conf, passthrough) ==
  [probe |-> conf, dial |-> IF passthrough THEN NoTLS ELSE conf]

\* Any option implies Enabled.
masterTLSConfig ==
  /\ pc = "masterTLS"
  /\ LET passthrough == boolSet(Master("Passthrough"))
         on == boolSet(Master("Enabled")) \/ AnyOption("MasterTLS")
         both == ProbeAndDial(BackendConfig("MasterTLS"), passthrough)
     IN \/ /\ \/ passthrough /\ boolSet(Master("Enabled"))
              \/ (on \/ passthrough) /\ BadFiles("MasterTLS")
           /\ Fatal
        \/ /\ ~on /\ ~passthrough
           /\ UNCHANGED <<cfg, tls>> /\ Goto("endpoints")
        \/ /\ on \/ passthrough
           /\ ~(passthrough /\ boolSet(Master("Enabled"))) /\ ~BadFiles("MasterTLS")
           /\ tls' = [tls EXCEPT !["masterProbe"] = both.probe, !["master"] = both.dial]
           /\ pc' = "endpoints"
           /\ UNCHANGED <<given, cfg, resolver, proxy>>

Blank(c, o) == o \notin DOMAIN c \/ c[o] = ""

AsGiven(c) == c

\* The default of Listen, which depends on ReplicaListen.
WithListen(c) ==
  IF Blank(c, Top("Listen")) /\ Blank(c, Top("ReplicaListen"))
    THEN [o \in DOMAIN c \cup {Top("Listen")} |-> IF o = Top("Listen") THEN "default" ELSE c[o]]
    ELSE c

\* An empty ReplicaListen is made nil, and its fallback with it.
WithoutReplica(c) ==
  IF Top("ReplicaListen") \in DOMAIN c /\ c[Top("ReplicaListen")] = ""
    THEN [o \in DOMAIN c \ {Top("ReplicaListen"), Top("ReplicaFallback")} |-> c[o]]
    ELSE c

\* The end of Load.
Endpoints ==
  /\ pc = "endpoints"
  /\ cfg' = WithoutReplica(WithListen(cfg))
  /\ Goto("NewRedisMasterResolver")

-----------------------------------------------------------------------------
(***************************************************************************)
(* runProxying.                                                            *)
(***************************************************************************)
Value(o) == IF o \in DOMAIN cfg THEN cfg[o] ELSE ""

\* Credentials of the probe: an option that is set counts, even if empty.
Unless(o, other) == IF o \in DOMAIN cfg THEN cfg[o] ELSE other

NewRedisMasterResolver ==
  /\ pc = "NewRedisMasterResolver"
  /\ resolver' =
       [username |-> Value(Top("Username")), password |-> Value(Top("Password")),
        masterUsername |-> Unless(Top("MasterUsername"), Value(Top("Username"))),
        masterPassword |-> Unless(Top("MasterPassword"), Value(Top("Password"))),
        trackReplicas |-> strSet(Top("ReplicaListen"))]
  /\ pc' = "NewRedisSentinelProxy"
  /\ UNCHANGED <<given, cfg, tls, proxy>>

RouterAnywhere == FALSE

\* router mode requires the master endpoint
RouterWithoutListen == boolSet(Top("Router")) /\ ~strSet(Top("Listen"))

NewRedisSentinelProxy ==
  /\ pc = "NewRedisSentinelProxy"
  /\ IF \/ "bad" \in {Value(Top("Listen")), Value(Top("ReplicaListen"))}
        \/ ~strSet(Top("Listen")) /\ ~strSet(Top("ReplicaListen"))
        \/ RouterWithoutListen
       THEN Fatal
       ELSE /\ proxy' = [local |-> Value(Top("Listen")),
                         replica |-> Value(Top("ReplicaListen")),
                         fallbackMaster |-> strSet(Top("ReplicaListen"))
                                            /\ cfg[Top("ReplicaFallback")] = "master",
                         router |-> boolSet(Top("Router"))]
            /\ pc' = "running"
            /\ UNCHANGED <<given, cfg, tls, resolver>>

\* The options that the code at a step dereferences without a nil check.
Dereferenced(step) ==
  CASE step = "check" -> {Top("ReplicaFallback"), Top("Router")}
    [] step = "sentinelTLS" /\ boolSet(Sentinel("Enabled")) ->
         {Sentinel("ServerName"), Sentinel("SkipVerify")}
    [] step = "masterTLS" /\ (\/ boolSet(Master("Enabled")) \/ boolSet(Master("Passthrough"))
                              \/ AnyOption("MasterTLS")) ->
         {Master("ServerName"), Master("SkipVerify")}
    [] step = "NewRedisMasterResolver" ->
         {Top("Master"), Top("Sentinel"), Top("ResolveRetries")}
    [] step = "NewRedisSentinelProxy" ->
         {Top("MaxConnections"), Top("IdleTimeout"), Top("Debug")}
           \cup (IF strSet(Top("ReplicaListen")) THEN {Top("ReplicaFallback")} ELSE {})
    [] OTHER -> {}

-----------------------------------------------------------------------------
Next ==
  \/ BindFlags \/ FromEnv \/ loadFile \/ MergeDefault \/ Check
  \/ sentinelTLSConfig \/ listenTLSConfig \/ masterTLSConfig \/ Endpoints
  \/ NewRedisMasterResolver \/ NewRedisSentinelProxy

Spec == Init /\ [][Next]_vars

-----------------------------------------------------------------------------
(***************************************************************************)
(* Properties.                                                             *)
(***************************************************************************)
\* What the documentation says an option is: the flag, else the variable, else
\* the file, else the default; "unset" if none has it.
Effective(o) ==
  IF o \in DOMAIN given.flags THEN given.flags[o]
  ELSE IF o \in DOMAIN given.env THEN given.env[o]
  ELSE IF o \in DOMAIN given.file THEN given.file[o]
  ELSE IF o \in DOMAIN Default THEN Default[o]
  ELSE "unset"

Asked(o) ==
  IF o \in Switch THEN Effective(o) = "true" ELSE Effective(o) \notin {"", "unset"}

\* CLI flag > environment variable > config file > built-in default, option by
\* option, also inside the TLS sections and for values that are explicitly
\* empty or false.  Not so for the passthrough of sentinel: see PassthroughRefused.
FirstSourceWins ==
  pc \in {"check", "sentinelTLS", "listenTLS", "masterTLS", "endpoints"} =>
    \A o \in Option \ {Sentinel("Passthrough")} :
      Effective(o) = IF o \in DOMAIN cfg THEN cfg[o] ELSE "unset"

\* A merged config can be dereferenced without nil checks, also after Load has
\* set ReplicaListen and ReplicaFallback back to nil.
NilSafe == Dereferenced(pc) \subseteq DOMAIN cfg

\* Every TLS option that is in force has its effect: a process that starts uses it
\* for the connection it is about.  The one option this is not said of, the
\* passthrough of sentinel, has no effect to have: see PassthroughRefused.
OptionsApplied ==
  pc = "running" =>
    /\ \A o \in BackendTLS \ {"Enabled", "Passthrough", "KeyFile"} :
         /\ Asked(Sentinel(o)) => tls["sentinel"] # NoTLS
                                  /\ tls["sentinel"][o] = Effective(Sentinel(o))
         /\ Asked(Master(o)) => tls["masterProbe"] # NoTLS
                                /\ tls["masterProbe"][o] = Effective(Master(o))
    /\ \A o \in ListenTLS \ {"Enabled", "KeyFile"} :
         Asked(Listener(o)) => tls["listen"] # NoTLS
                               /\ tls["listen"][o] = Effective(Listener(o))
    /\ Asked(Sentinel("Enabled")) => tls["sentinel"] # NoTLS
    /\ Asked(Listener("Enabled")) => tls["listen"] # NoTLS
    /\ Asked(Master("Enabled")) => tls["master"] # NoTLS

\* The probe and the clients reach the same master: both with the same TLS, or,
\* with passthrough, the probe with TLS and the clients with what they send
\* themselves, and then nothing has to be read from their bytes.
ProbeAndDataAgree ==
  pc = "running" =>
    /\ tls["master"] # NoTLS => tls["master"] = tls["masterProbe"]
    /\ Asked(Master("Passthrough")) =>
         tls["masterProbe"] # NoTLS /\ tls["master"] = NoTLS /\ ~proxy.router
    /\ ~Asked(Master("Passthrough")) => tls["master"] = tls["masterProbe"]

\* TLS is what was asked for: apart from the passthrough of sentinel (see
\* PassthroughRefused) no option that selects it or shapes it is silently ignored,
\* and the role probe and the data connections agree on how they reach the master.
TLSAsConfigured == OptionsApplied /\ ProbeAndDataAgree

\* "passthrough is only supported for master_tls": a start that asks for the
\* passthrough of sentinel is refused.  The code has the refusal (sentinelTLSConfig)
\* but the file, the only source of the option, is merged without it.
PassthroughRefused == pc = "running" => ~Asked(Sentinel("Passthrough"))

\* The resolver and the proxy agree on what is served: some endpoint is, the
\* router has the master endpoint it sits on, and replicas are tracked when there
\* is an endpoint for them.
EndpointsAgree ==
  pc = "running" =>
    /\ proxy.local # "" \/ proxy.replica # ""
    /\ proxy.router => proxy.local # ""
    /\ proxy.replica # "" => resolver.trackReplicas
    /\ Asked(Top("Listen")) => proxy.local = Effective(Top("Listen"))
    /\ Effective(Top("ReplicaListen")) = proxy.replica
    /\ proxy.fallbackMaster =>
         proxy.replica # "" /\ Effective(Top("ReplicaFallback")) = "master"

\* The first of two options that is set.
OneOf(own, shared) ==
  IF Effective(own) # "unset" THEN Effective(own)
  ELSE IF Effective(shared) # "unset" THEN Effective(shared) ELSE ""

\* The role probe uses the sentinel credentials unless there are dedicated ones;
\* an explicitly empty password is dedicated (probe without AUTH).
ProbeCredentials ==
  pc = "running" =>
    /\ resolver.masterUsername = OneOf(Top("MasterUsername"), Top("Username"))
    /\ resolver.masterPassword = OneOf(Top("MasterPassword"), Top("Password"))

\* The parts are set up as configured: the endpoints, and the probe's credentials.
WiredAsConfigured == EndpointsAgree /\ ProbeCredentials

\* The reasons the documentation gives for a start that fails: a value that is
\* not valid somewhere, or options that contradict each other.
FaultyInput ==
  \/ given.path = "unreadable"
  \/ \E s \in {"flags", "env", "file"} : Garbled(given[s])
  \/ \E o \in Option : Effective(o) = "bad"
  \/ Effective(Top("ReplicaFallback")) \notin {"master", "reject"}
  \/ Asked(Top("Router")) /\ Asked(Master("Passthrough"))
  \/ Asked(Master("Enabled")) /\ Asked(Master("Passthrough"))
  \/ Asked(Top("Router")) /\ ~Asked(Top("Listen")) /\ Asked(Top("ReplicaListen"))
  \/ ~Asked(Sentinel("Enabled"))
     /\ \E o \in BackendTLS \ {"Passthrough"} : Asked(Sentinel(o))
  \/ ~Asked(Listener("Enabled")) /\ \E o \in ListenTLS : Asked(Listener(o))
  \/ Asked(Listener("Enabled")) /\ ~(Asked(Listener("CertFile")) /\ Asked(Listener("KeyFile")))
  \/ \E s \in {"SentinelTLS", "MasterTLS"} :
       ~(Asked(<<s, "CertFile">>) <=> Asked(<<s, "KeyFile">>))

\* A start fails only for a documented reason.  In particular no default gets
\* into the way of an option, and an empty configuration starts.
FatalJustified == pc = "fatal" => FaultyInput
=============================================================================
