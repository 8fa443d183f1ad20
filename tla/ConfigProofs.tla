---------------------------- MODULE ConfigProofs ----------------------------
(***************************************************************************)
(* Theorems about Config, for every input that meets its assumption: the   *)
(* documented precedence, and that nothing nil is dereferenced.            *)
(***************************************************************************)
EXTENDS Config, TLAPS

\* The steps between the last merge and the end of Load.
Checked == {"check", "sentinelTLS", "listenTLS", "masterTLS", "endpoints"}

FlagsAndEnv == Merge(given.flags, given.env)

\* cfg after the file, which is not read without a path.
AllSources ==
  IF given.path = "none" THEN FlagsAndEnv ELSE Merge(FlagsAndEnv, given.file)

\* What cfg is at each step of the merge chain.
ChainInv ==
  /\ given \in Given
  /\ pc = "FromEnv" => cfg = given.flags
  /\ pc = "loadFile" => cfg = FlagsAndEnv
  /\ pc = "Default" => cfg = AllSources
  /\ pc \in Checked => cfg = Merge(AllSources, Default)

\* The chain of merges starts with nothing.
LEMMA ChainInit == Init => ChainInv
BY DEF Init, ChainInv, Checked

\* Every step of the start keeps to the chain.
LEMMA ChainStep == ChainInv /\ [Next]_vars => ChainInv'
<1> SUFFICES ASSUME ChainInv, [Next]_vars PROVE ChainInv'
  OBVIOUS
<1> USE DEF ChainInv, Checked, FlagsAndEnv, AllSources, Goto, Fatal, Set
<1>1. CASE BindFlags
  BY <1>1 DEF BindFlags
<1>2. CASE FromEnv
  BY <1>2 DEF FromEnv
<1>3. CASE loadFile
  BY <1>3 DEF loadFile
<1>4. CASE MergeDefault
  BY <1>4 DEF MergeDefault
<1>5. CASE Check
  BY <1>5 DEF Check
<1>6. CASE sentinelTLSConfig
  BY <1>6 DEF sentinelTLSConfig
<1>7. CASE listenTLSConfig
  BY <1>7, Zenon DEF listenTLSConfig
<1>8. CASE masterTLSConfig
  BY <1>8 DEF masterTLSConfig
<1>9. CASE Endpoints
  BY <1>9 DEF Endpoints
<1>10. CASE NewRedisMasterResolver
  BY <1>10 DEF NewRedisMasterResolver
<1>11. CASE NewRedisSentinelProxy
  BY <1>11 DEF NewRedisSentinelProxy
<1>12. CASE UNCHANGED vars
  BY <1>12 DEF vars
<1> QED
  BY <1>1, <1>2, <1>3, <1>4, <1>5, <1>6, <1>7, <1>8, <1>9, <1>10, <1>11, <1>12 DEF Next

\* A merge has the options of both sides, and the left side's value where both
\* have one.
LEMMA MergeFills ==
  ASSUME NEW c, NEW other, NEW o, o # Sentinel("Passthrough")
  PROVE  /\ o \in DOMAIN Merge(c, other) <=> o \in DOMAIN c \/ o \in DOMAIN other
         /\ o \in DOMAIN c => Merge(c, other)[o] = c[o]
         /\ o \notin DOMAIN c /\ o \in DOMAIN other => Merge(c, other)[o] = other[o]
BY DEF Merge, fill

\* Merging in sequence implements the precedence of the sources.
LEMMA ChainPrecedence == ChainInv => FirstSourceWins
<1> SUFFICES ASSUME ChainInv, pc \in Checked,
                    NEW o \in Option \ {Sentinel("Passthrough")}
             PROVE  Effective(o) = IF o \in DOMAIN cfg THEN cfg[o] ELSE "unset"
  BY DEF FirstSourceWins, Checked
<1> DEFINE fe == FlagsAndEnv  all == AllSources
<1>1. cfg = Merge(all, Default) /\ given \in Given
  BY DEF ChainInv
<1>2. given.path = "none" => o \notin DOMAIN given.file
  BY <1>1, ConfigAssumption
<1>3. /\ o \in DOMAIN fe <=> o \in DOMAIN given.flags \/ o \in DOMAIN given.env
      /\ o \in DOMAIN given.flags => fe[o] = given.flags[o]
      /\ o \notin DOMAIN given.flags /\ o \in DOMAIN given.env => fe[o] = given.env[o]
  BY MergeFills DEF FlagsAndEnv
<1>4. /\ o \in DOMAIN all <=> o \in DOMAIN fe \/ o \in DOMAIN given.file
      /\ o \in DOMAIN fe => all[o] = fe[o]
      /\ o \notin DOMAIN fe /\ o \in DOMAIN given.file => all[o] = given.file[o]
  BY <1>2, MergeFills DEF AllSources
<1>5. /\ o \in DOMAIN cfg <=> o \in DOMAIN all \/ o \in DOMAIN Default
      /\ o \in DOMAIN all => cfg[o] = all[o]
      /\ o \notin DOMAIN all /\ o \in DOMAIN Default => cfg[o] = Default[o]
  BY <1>1, MergeFills
<1> HIDE DEF fe, all
<1> QED
  BY <1>3, <1>4, <1>5 DEF Effective

\* CLI flag > environment variable > config file > default, for every input.
THEOREM Precedence == Spec => []FirstSourceWins
BY ChainInit, ChainStep, ChainPrecedence, PTL DEF Spec

-----------------------------------------------------------------------------
(***************************************************************************)
(* What is set after the merges.                                           *)
(***************************************************************************)
ReplicaOptions == {Top("ReplicaListen"), Top("ReplicaFallback")}

\* Load leaves everything set that has a default, except for the two options of
\* the replica endpoint, which become nil together.
NilInv ==
  /\ pc \in Checked => DOMAIN Default \subseteq DOMAIN cfg
  /\ pc \in {"NewRedisMasterResolver", "NewRedisSentinelProxy"} =>
       /\ DOMAIN Default \ ReplicaOptions \subseteq DOMAIN cfg
       /\ Top("ReplicaListen") \in DOMAIN cfg => Top("ReplicaFallback") \in DOMAIN cfg

\* Default() has a value for all that is dereferenced.
LEMMA DefaultsCover ==
  /\ {Top("ReplicaListen"), Top("ReplicaFallback"), Top("Router"), Top("Master"),
      Top("Sentinel"), Top("ResolveRetries"), Top("MaxConnections"),
      Top("IdleTimeout"), Top("Debug"), Sentinel("ServerName"), Sentinel("SkipVerify"),
      Master("ServerName"), Master("SkipVerify")} \subseteq DOMAIN Default
  /\ Sentinel("Passthrough") \notin DOMAIN Default
<1>1. DOMAIN Default = Option \ NoDefault
  BY DEF Default
<1>2. \A t \in {"ReplicaListen", "ReplicaFallback", "Router", "Master", "Sentinel",
                "ResolveRetries", "MaxConnections", "IdleTimeout", "Debug"} :
        Top(t) \in Option \ NoDefault
  BY DEF Option, NoDefault, Credential, Top, Sentinel, TopOption
<1>3. \A t \in {"ServerName", "SkipVerify"} :
        /\ Sentinel(t) \in Option \ NoDefault
        /\ Master(t) \in Option \ NoDefault
  BY DEF Option, NoDefault, Credential, Top, Sentinel, Master, BackendTLS
<1>4. Sentinel("Passthrough") \in NoDefault
  BY DEF NoDefault
<1> QED
  BY <1>1, <1>2, <1>3, <1>4

\* Options outside the replica endpoint.
LEMMA OthersStay ==
  /\ Top("Router") \notin ReplicaOptions /\ Top("Master") \notin ReplicaOptions
  /\ Top("Sentinel") \notin ReplicaOptions /\ Top("ResolveRetries") \notin ReplicaOptions
  /\ Top("MaxConnections") \notin ReplicaOptions /\ Top("IdleTimeout") \notin ReplicaOptions
  /\ Top("Debug") \notin ReplicaOptions
BY DEF ReplicaOptions, Top

\* Nothing is set, and nothing needed, at the start.
LEMMA NilInit == Init => NilInv
BY DEF Init, NilInv, Checked

\* The last merge establishes the invariant, the end of Load keeps what the
\* constructors need of it.
LEMMA NilStep == NilInv /\ [Next]_vars => NilInv'
<1> SUFFICES ASSUME NilInv, [Next]_vars PROVE NilInv'
  OBVIOUS
<1> USE DEF NilInv, Checked, Goto, Fatal, Set
<1>1. CASE BindFlags \/ FromEnv \/ loadFile
  BY <1>1 DEF BindFlags, FromEnv, loadFile
<1>2. CASE MergeDefault
  <2>1. DOMAIN Default \subseteq DOMAIN Merge(cfg, Default)
    BY DefaultsCover DEF Merge
  <2> QED
    BY <1>2, <2>1 DEF MergeDefault
<1>3. CASE Check
  BY <1>3 DEF Check
<1>4. CASE sentinelTLSConfig
  BY <1>4 DEF sentinelTLSConfig
<1>5. CASE listenTLSConfig
  BY <1>5, Zenon DEF listenTLSConfig
<1>6. CASE masterTLSConfig
  BY <1>6 DEF masterTLSConfig
<1>7. CASE Endpoints
  <2> DEFINE c == WithListen(cfg)
  <2>1. DOMAIN Default \subseteq DOMAIN c
    BY <1>7 DEF Endpoints, WithListen
  <2>2. cfg' = WithoutReplica(c) /\ pc' = "NewRedisMasterResolver"
    BY <1>7 DEF Endpoints
  <2> HIDE DEF c
  <2>3. CASE Top("ReplicaListen") \in DOMAIN c /\ c[Top("ReplicaListen")] = ""
    <3>1. DOMAIN cfg' = DOMAIN c \ ReplicaOptions
      BY <2>2, <2>3, Zenon DEF WithoutReplica, ReplicaOptions
    <3>2. Top("ReplicaListen") \notin DOMAIN cfg'
      BY <3>1 DEF ReplicaOptions
    <3> QED
      BY <2>1, <2>2, <3>1, <3>2
  <2>4. CASE ~(Top("ReplicaListen") \in DOMAIN c /\ c[Top("ReplicaListen")] = "")
    <3>1. cfg' = c
      BY <2>2, <2>4, Zenon DEF WithoutReplica
    <3> QED
      BY <2>1, <2>2, <3>1, DefaultsCover
  <2> QED
    BY <2>3, <2>4, Zenon
<1>8. CASE NewRedisMasterResolver
  BY <1>8 DEF NewRedisMasterResolver
<1>9. CASE NewRedisSentinelProxy
  BY <1>9 DEF NewRedisSentinelProxy
<1>10. CASE UNCHANGED vars
  BY <1>10 DEF vars
<1> QED
  BY <1>1, <1>2, <1>3, <1>4, <1>5, <1>6, <1>7, <1>8, <1>9, <1>10 DEF Next

\* What a step dereferences is set.
LEMMA NilInvSafe == NilInv => NilSafe
<1> SUFFICES ASSUME NilInv PROVE Dereferenced(pc) \subseteq DOMAIN cfg
  BY DEF NilSafe
<1>1. CASE pc \in Checked
  <2>1. Dereferenced(pc) \subseteq DOMAIN Default
    BY <1>1, DefaultsCover DEF Dereferenced, Checked
  <2> QED
    BY <1>1, <2>1 DEF NilInv
<1>2. CASE pc = "NewRedisMasterResolver"
  BY <1>2, DefaultsCover, OthersStay DEF Dereferenced, NilInv
<1>3. CASE pc = "NewRedisSentinelProxy"
  BY <1>3, DefaultsCover, OthersStay, Zenon DEF Dereferenced, NilInv, strSet
<1>4. CASE pc \notin Checked \cup {"NewRedisMasterResolver", "NewRedisSentinelProxy"}
  BY <1>4 DEF Dereferenced, Checked
<1> QED
  BY <1>1, <1>2, <1>3, <1>4

\* A merge chain ending with Default() can be dereferenced without nil checks,
\* and so can what Load makes of it.
THEOREM NoNilDereference == Spec => []NilSafe
BY NilInit, NilStep, NilInvSafe, PTL DEF Spec

-----------------------------------------------------------------------------
(***************************************************************************)
(* What the configuration becomes, said in terms of the documented values. *)
(***************************************************************************)
\* The steps after the checks of Load, after each TLS configuration, after Load.
AfterLoad == {"NewRedisMasterResolver", "NewRedisSentinelProxy", "running"}
AfterMaster == {"endpoints"} \cup AfterLoad
AfterListen == {"masterTLS"} \cup AfterMaster
AfterSentinel == {"listenTLS"} \cup AfterListen
AfterCheck == {"sentinelTLS"} \cup AfterSentinel

TLSText == {"CAFile", "CertFile", "KeyFile", "ServerName"}
Used == {"ServerName", "SkipVerify", "CAFile", "CertFile"}

SentinelConf == [o \in Used |-> Effective(Sentinel(o))]
MasterConf == [o \in Used |-> Effective(Master(o))]
ListenConf == [o \in {"CertFile", "ClientCAFile"} |-> Effective(Listener(o))]

\* Some option asks for TLS to the master.
MasterOn ==
  \/ Asked(Master("Enabled")) \/ Asked(Master("SkipVerify"))
  \/ \E o \in TLSText : Asked(Master(o))

\* The TLS configurations that are built so far, and what the start has passed.
TLSInv ==
  /\ DOMAIN tls = {"sentinel", "listen", "master", "masterProbe"}
  /\ pc \in AfterCheck => ~(Asked(Top("Router")) /\ Asked(Master("Passthrough")))
  /\ pc \in AfterSentinel =>
       /\ tls["sentinel"] = IF Asked(Sentinel("Enabled")) THEN SentinelConf ELSE NoTLS
       /\ ~Asked(Sentinel("Enabled")) =>
            \A o \in TLSText \cup {"SkipVerify"} : ~Asked(Sentinel(o))
  /\ pc \in AfterListen =>
       /\ tls["listen"] = IF Asked(Listener("Enabled")) THEN ListenConf ELSE NoTLS
       /\ ~Asked(Listener("Enabled")) => \A o \in ListenTLS : ~Asked(Listener(o))
  /\ pc \notin AfterMaster \cup {"fatal"} =>
       tls["master"] = NoTLS /\ tls["masterProbe"] = NoTLS
  /\ pc \in AfterMaster =>
       /\ tls["masterProbe"] =
            IF MasterOn \/ Asked(Master("Passthrough")) THEN MasterConf ELSE NoTLS
       /\ tls["master"] =
            IF MasterOn /\ ~Asked(Master("Passthrough")) THEN MasterConf ELSE NoTLS
       /\ ~(Asked(Master("Enabled")) /\ Asked(Master("Passthrough")))

\* The options of the endpoints, which the end of Load changes.
EndpointOption == {Top("Listen")} \cup ReplicaOptions

\* cfg after Load: as documented but for the endpoints.
LoadedInv ==
  pc \in AfterLoad =>
    /\ \A o \in Option \ (EndpointOption \cup {Sentinel("Passthrough")}) :
         /\ Effective(o) = IF o \in DOMAIN cfg THEN cfg[o] ELSE "unset"
         /\ o \in DOMAIN cfg => Effective(o) # "unset"
    /\ Top("Listen") \in DOMAIN cfg
    /\ cfg[Top("Listen")] =
         IF Effective(Top("Listen")) = "" /\ Effective(Top("ReplicaListen")) = ""
           THEN "default" ELSE Effective(Top("Listen"))
    /\ IF Effective(Top("ReplicaListen")) = ""
         THEN Top("ReplicaListen") \notin DOMAIN cfg
         ELSE \A o \in ReplicaOptions : o \in DOMAIN cfg /\ cfg[o] = Effective(o)

\* What the constructors have taken from it.
WiredInv ==
  /\ pc \in {"NewRedisSentinelProxy", "running"} =>
       /\ resolver.masterUsername = OneOf(Top("MasterUsername"), Top("Username"))
       /\ resolver.masterPassword = OneOf(Top("MasterPassword"), Top("Password"))
       /\ resolver.trackReplicas <=> Effective(Top("ReplicaListen")) # ""
  /\ pc = "running" =>
       /\ proxy.local = cfg[Top("Listen")]
       /\ proxy.replica = Effective(Top("ReplicaListen"))
       /\ proxy.router <=> Asked(Top("Router"))
       /\ proxy.router => proxy.local # ""
       /\ proxy.fallbackMaster =>
            proxy.replica # "" /\ Effective(Top("ReplicaFallback")) = "master"

-----------------------------------------------------------------------------
\* Which of the options the code looks at are switches and which are texts; all
\* of them have a default.
LEMMA Kinds ==
  /\ \A o \in TLSText : /\ Sentinel(o) \in DOMAIN Default \ Switch
                        /\ Master(o) \in DOMAIN Default \ Switch
  /\ \A o \in {"Enabled", "SkipVerify"} : /\ Sentinel(o) \in DOMAIN Default \cap Switch
                                          /\ Master(o) \in DOMAIN Default \cap Switch
  /\ Master("Passthrough") \in DOMAIN Default \cap Switch
  /\ \A o \in {"CertFile", "KeyFile", "ClientCAFile"} :
       Listener(o) \in DOMAIN Default \ Switch
  /\ Listener("Enabled") \in DOMAIN Default \cap Switch
  /\ Top("Router") \in DOMAIN Default \cap Switch
  /\ \A o \in {"Listen", "ReplicaListen", "ReplicaFallback"} :
       Top(o) \in DOMAIN Default \ Switch
  /\ DOMAIN Default \subseteq Option \ {Sentinel("Passthrough")}
<1>1. DOMAIN Default = Option \ NoDefault
  BY DEF Default
<1>2. \A o \in TLSText : /\ Sentinel(o) \in (Option \ NoDefault) \ Switch
                         /\ Master(o) \in (Option \ NoDefault) \ Switch
  BY DEF Option, NoDefault, Credential, Switch, Top, Sentinel, Master, BackendTLS, TLSText
<1>3. /\ \A o \in {"Enabled", "SkipVerify"} :
           /\ Sentinel(o) \in (Option \ NoDefault) \cap Switch
           /\ Master(o) \in (Option \ NoDefault) \cap Switch
      /\ Master("Passthrough") \in (Option \ NoDefault) \cap Switch
  BY DEF Option, NoDefault, Credential, Switch, Top, Sentinel, Master, BackendTLS
<1>4. /\ \A o \in {"CertFile", "KeyFile", "ClientCAFile"} :
           Listener(o) \in (Option \ NoDefault) \ Switch
      /\ Listener("Enabled") \in (Option \ NoDefault) \cap Switch
  BY DEF Option, NoDefault, Credential, Switch, Top, Sentinel, Listener, ListenTLS
<1>5. /\ \A o \in {"Listen", "ReplicaListen", "ReplicaFallback"} :
           Top(o) \in (Option \ NoDefault) \ Switch
      /\ Top("Router") \in (Option \ NoDefault) \cap Switch
  BY DEF Option, NoDefault, Credential, Switch, Top, Sentinel, TopOption
<1>6. Sentinel("Passthrough") \in NoDefault
  BY DEF NoDefault
<1> QED
  BY <1>1, <1>2, <1>3, <1>4, <1>5, <1>6

\* Default() has no value that stands for an option that is not set.
LEMMA DefaultsSet == \A o \in DOMAIN Default : Default[o] # "unset"
BY DEF Default

\* Some source, or Default(), has the option.
Has(o) ==
  \/ o \in DOMAIN given.flags \/ o \in DOMAIN given.env \/ o \in DOMAIN given.file
  \/ o \in DOMAIN Default

\* An option that some source has is in force with some value.
LEMMA EffectiveSet ==
  ASSUME given \in Given, NEW o, Has(o)
  PROVE  Effective(o) # "unset"
<1>1. \A s \in {"flags", "env", "file"} : o \in DOMAIN given[s] => given[s][o] # "unset"
  BY ConfigAssumption
<1>2. /\ o \in DOMAIN given.flags => given.flags[o] # "unset"
      /\ o \in DOMAIN given.env => given.env[o] # "unset"
      /\ o \in DOMAIN given.file => given.file[o] # "unset"
  BY <1>1
<1> QED
  BY <1>2, DefaultsSet DEF Effective, Has

\* After the merges exactly what some source has is set.
LEMMA ChainHas ==
  ASSUME ChainInv, pc \in Checked, NEW o \in Option \ {Sentinel("Passthrough")}
  PROVE  o \in DOMAIN cfg <=> Has(o)
<1> DEFINE fe == FlagsAndEnv  all == AllSources
<1>1. cfg = Merge(all, Default) /\ given \in Given
  BY DEF ChainInv
<1>2. given.path = "none" => o \notin DOMAIN given.file
  BY <1>1, ConfigAssumption
<1>3. o \in DOMAIN fe <=> o \in DOMAIN given.flags \/ o \in DOMAIN given.env
  BY MergeFills DEF FlagsAndEnv
<1>4. o \in DOMAIN all <=> o \in DOMAIN fe \/ o \in DOMAIN given.file
  BY <1>2, MergeFills DEF AllSources
<1>5. o \in DOMAIN cfg <=> o \in DOMAIN all \/ o \in DOMAIN Default
  BY <1>1, MergeFills
<1> HIDE DEF fe, all
<1> QED
  BY <1>3, <1>4, <1>5 DEF Has

\* After the merges the code reads the value that is in force, and its nil checks
\* decide what the documentation calls asked for.
LEMMA ReadsEffective ==
  ASSUME ChainInv, pc \in Checked, NEW o \in DOMAIN Default
  PROVE  /\ o \in DOMAIN cfg /\ cfg[o] = Effective(o)
         /\ strSet(o) <=> Effective(o) # ""
         /\ boolSet(o) <=> Effective(o) = "true"
         /\ o \in Switch => (boolSet(o) <=> Asked(o))
         /\ o \notin Switch => (strSet(o) <=> Asked(o))
<1>1. Effective(o) # "unset"
  BY EffectiveSet DEF ChainInv, Has
<1>2. Effective(o) = IF o \in DOMAIN cfg THEN cfg[o] ELSE "unset"
  BY ChainPrecedence, Kinds DEF FirstSourceWins, Checked
<1>3. o \in DOMAIN cfg /\ cfg[o] = Effective(o)
  BY <1>1, <1>2
<1>4. /\ strSet(o) <=> Effective(o) # ""
      /\ boolSet(o) <=> Effective(o) = "true"
  BY <1>3, Zenon DEF strSet, boolSet
<1> QED
  BY <1>1, <1>3, <1>4, Zenon DEF Asked

\* The passthrough of sentinel cannot be set: a flag or a variable for it does
\* not exist, and no merge copies it.
LEMMA NoSentinelPassthrough ==
  ASSUME ChainInv, pc \in Checked
  PROVE  Sentinel("Passthrough") \notin DOMAIN cfg
<1> DEFINE sp == Sentinel("Passthrough")
<1>1. sp \notin DOMAIN given.flags
  <2>1. DOMAIN given["flags"] \subseteq Settable("flags")
    BY ConfigAssumption DEF ChainInv
  <2> QED
    BY <2>1 DEF Settable
<1>2. \A c, other : sp \notin DOMAIN c => sp \notin DOMAIN Merge(c, other)
  BY DEF Merge
<1> HIDE DEF sp
<1>3. sp \notin DOMAIN AllSources
  BY <1>1, <1>2, Zenon DEF AllSources, FlagsAndEnv
<1> QED
  BY <1>2, <1>3, Zenon DEF ChainInv, sp

-----------------------------------------------------------------------------
\* A start keeps its input.
LEMMA GivenStays == [Next]_vars => given' = given
BY Zenon DEF Next, vars, BindFlags, FromEnv, loadFile, MergeDefault, Check, sentinelTLSConfig,
       listenTLSConfig, masterTLSConfig, Endpoints, NewRedisMasterResolver,
       NewRedisSentinelProxy, Goto, Fatal, Set

\* What is in force depends on the input only.
LEMMA EffectiveStays ==
  ASSUME given' = given
  PROVE  /\ \A o : Effective(o)' = Effective(o)
         /\ \A o : Asked(o)' <=> Asked(o)
         /\ SentinelConf' = SentinelConf /\ MasterConf' = MasterConf
         /\ ListenConf' = ListenConf
         /\ MasterOn' <=> MasterOn
<1>1. \A o : Effective(o)' = Effective(o)
  BY DEF Effective
<1>2. \A o : Asked(o)' <=> Asked(o)
  BY <1>1, Zenon DEF Asked
<1>3. SentinelConf' = SentinelConf /\ MasterConf' = MasterConf /\ ListenConf' = ListenConf
  BY <1>1 DEF SentinelConf, MasterConf, ListenConf
<1>4. MasterOn' <=> MasterOn
  BY <1>2 DEF MasterOn
<1> QED
  BY <1>1, <1>2, <1>3, <1>4

\* The settings of a backend are the ones in force.
LEMMA BackendEffective ==
  ASSUME ChainInv, pc \in Checked
  PROVE  /\ BackendConfig("SentinelTLS") = SentinelConf
         /\ BackendConfig("MasterTLS") = MasterConf
         /\ AnyOption("SentinelTLS") <=>
              \E o \in TLSText \cup {"SkipVerify"} : Asked(Sentinel(o))
         /\ boolSet(Master("Enabled")) \/ AnyOption("MasterTLS") <=> MasterOn
<1>1. \A o \in Used : /\ cfg[<<"SentinelTLS", o>>] = Effective(Sentinel(o))
                      /\ cfg[<<"MasterTLS", o>>] = Effective(Master(o))
  <2>1. \A o \in Used : Sentinel(o) \in DOMAIN Default /\ Master(o) \in DOMAIN Default
    BY Kinds DEF Used, TLSText
  <2> QED
    BY <2>1, ReadsEffective, Zenon DEF Sentinel, Master
<1>2. /\ BackendConfig("SentinelTLS") = SentinelConf
      /\ BackendConfig("MasterTLS") = MasterConf
  BY <1>1 DEF BackendConfig, SentinelConf, MasterConf, Used
<1>3. \A s : AnyOption(s) <=> (\E o \in TLSText : strSet(<<s, o>>)) \/ boolSet(<<s, "SkipVerify">>)
  BY Zenon DEF AnyOption, TLSOption, TLSText
<1>4. \A o \in TLSText : /\ strSet(Sentinel(o)) <=> Asked(Sentinel(o))
                         /\ strSet(Master(o)) <=> Asked(Master(o))
  BY Kinds, ReadsEffective, Zenon
<1>5. /\ boolSet(Sentinel("SkipVerify")) <=> Asked(Sentinel("SkipVerify"))
      /\ boolSet(Master("SkipVerify")) <=> Asked(Master("SkipVerify"))
      /\ boolSet(Master("Enabled")) <=> Asked(Master("Enabled"))
  BY Kinds, ReadsEffective, Zenon
<1>6. AnyOption("SentinelTLS") <=>
        \E o \in TLSText \cup {"SkipVerify"} : Asked(Sentinel(o))
  BY <1>3, <1>4, <1>5, Zenon DEF Sentinel
<1>7. boolSet(Master("Enabled")) \/ AnyOption("MasterTLS") <=> MasterOn
  BY <1>3, <1>4, <1>5 DEF Master, MasterOn
<1> QED
  BY <1>2, <1>6, <1>7

\* No TLS before the steps that configure it.
LEMMA TLSInit == Init => TLSInv
BY DEF Init, TLSInv, AfterCheck, AfterSentinel, AfterListen, AfterMaster, AfterLoad

\* Each step of Load configures the connection it is about, and no later step
\* changes that.
LEMMA TLSStep == ChainInv /\ TLSInv /\ [Next]_vars => TLSInv'
<1> SUFFICES ASSUME ChainInv, TLSInv, [Next]_vars PROVE TLSInv'
  OBVIOUS
<1>g. given' = given
  BY GivenStays
<1>s. /\ \A o : Asked(o)' <=> Asked(o)
      /\ SentinelConf' = SentinelConf /\ MasterConf' = MasterConf
      /\ ListenConf' = ListenConf
      /\ MasterOn' <=> MasterOn
      /\ NoTLS' = NoTLS
  BY <1>g, EffectiveStays DEF NoTLS, Empty
<1> USE DEF AfterCheck, AfterSentinel, AfterListen, AfterMaster, AfterLoad
<1>f. CASE Fatal
  BY <1>f DEF Fatal, Goto, TLSInv
<1>1. CASE BindFlags \/ FromEnv \/ loadFile \/ MergeDefault
  <2>1. /\ tls' = tls
        /\ pc \in {"BindFlags", "FromEnv", "loadFile", "Default"}
        /\ pc' \in {"FromEnv", "loadFile", "Default", "check", "fatal"}
    BY <1>1 DEF BindFlags, FromEnv, loadFile, MergeDefault, Goto, Fatal
  <2> QED
    BY <2>1 DEF TLSInv
<1>2. CASE Check /\ ~Fatal
  <2>1. /\ pc = "check" /\ pc' = "sentinelTLS" /\ tls' = tls
        /\ ~(cfg[Top("Router")] = "true" /\ boolSet(Master("Passthrough")))
    BY <1>2 DEF Check, Goto
  <2>2. ~(Asked(Top("Router")) /\ Asked(Master("Passthrough")))
    <3>1. pc \in Checked
      BY <2>1 DEF Checked
    <3>2. cfg[Top("Router")] = Effective(Top("Router"))
      BY <3>1, Kinds, ReadsEffective, Zenon
    <3>3. boolSet(Master("Passthrough")) <=> Asked(Master("Passthrough"))
      BY <3>1, Kinds, ReadsEffective, Zenon
    <3>4. Asked(Top("Router")) <=> Effective(Top("Router")) = "true"
      BY Kinds, Zenon DEF Asked
    <3> QED
      BY <2>1, <3>2, <3>3, <3>4
  <2> QED
    BY <1>s, <2>1, <2>2 DEF TLSInv
<1>3. CASE sentinelTLSConfig /\ ~Fatal
  <2>1. /\ pc = "sentinelTLS" /\ pc' = "listenTLS"
        /\ ~StrayOption
        /\ tls' = [tls EXCEPT !["sentinel"] = IF boolSet(Sentinel("Enabled"))
                                                THEN BackendConfig("SentinelTLS") ELSE NoTLS]
    BY <1>3 DEF sentinelTLSConfig, Set
  <2>2. pc \in Checked
    BY <2>1 DEF Checked
  <2>3. boolSet(Sentinel("Enabled")) <=> Asked(Sentinel("Enabled"))
    BY <2>2, Kinds, ReadsEffective, Zenon
  <2>4. tls' = [tls EXCEPT !["sentinel"] = IF Asked(Sentinel("Enabled"))
                                             THEN SentinelConf ELSE NoTLS]
    BY <2>1, <2>2, <2>3, BackendEffective, Zenon
  <2>5. ~Asked(Sentinel("Enabled")) =>
          \A o \in TLSText \cup {"SkipVerify"} : ~Asked(Sentinel(o))
    BY <2>1, <2>2, <2>3, BackendEffective, Zenon DEF StrayOption
  <2>6. /\ DOMAIN tls' = {"sentinel", "listen", "master", "masterProbe"}
        /\ tls'["sentinel"] = IF Asked(Sentinel("Enabled")) THEN SentinelConf ELSE NoTLS
        /\ tls'["master"] = tls["master"] /\ tls'["masterProbe"] = tls["masterProbe"]
    BY <2>4 DEF TLSInv
  <2> QED
    BY <1>s, <2>1, <2>5, <2>6 DEF TLSInv
<1>4. CASE listenTLSConfig /\ ~Fatal
  <2> DEFINE file(o) == IF strSet(Listener(o)) THEN cfg[Listener(o)] ELSE ""
             on == boolSet(Listener("Enabled"))
  <2>1. /\ pc = "listenTLS" /\ pc' = "masterTLS"
        /\ ~(~on /\ \E o \in ListenTLS \ {"Enabled"} : file(o) # "")
        /\ tls' = [tls EXCEPT !["listen"] =
                     IF on THEN [o \in {"CertFile", "ClientCAFile"} |-> file(o)] ELSE NoTLS]
    BY <1>4, Zenon DEF listenTLSConfig, Set
  <2>2. pc \in Checked
    BY <2>1, Zenon DEF Checked
  <2>3. on <=> Asked(Listener("Enabled"))
    BY <2>2, Kinds, ReadsEffective, Zenon
  <2>4. \A o \in {"CertFile", "KeyFile", "ClientCAFile"} :
          file(o) = Effective(Listener(o)) /\ (file(o) # "" <=> Asked(Listener(o)))
    <3> SUFFICES ASSUME NEW o \in {"CertFile", "KeyFile", "ClientCAFile"}
                 PROVE  file(o) = Effective(Listener(o)) /\ (file(o) # "" <=> Asked(Listener(o)))
      BY Zenon
    <3>1. Listener(o) \in DOMAIN Default \ Switch
      BY Kinds
    <3> QED
      BY <2>2, <3>1, ReadsEffective, Zenon
  <2> HIDE DEF file, on
  <2>5. [o \in {"CertFile", "ClientCAFile"} |-> file(o)] = ListenConf
    BY <2>4, Zenon DEF ListenConf
  <2>6. ~Asked(Listener("Enabled")) => \A o \in ListenTLS : ~Asked(Listener(o))
    BY <2>1, <2>3, <2>4, Zenon DEF ListenTLS
  <2>7. tls' = [tls EXCEPT !["listen"] =
                  IF Asked(Listener("Enabled")) THEN ListenConf ELSE NoTLS]
    BY <2>1, <2>3, <2>5, Zenon
  <2>8. /\ DOMAIN tls' = {"sentinel", "listen", "master", "masterProbe"}
        /\ tls'["listen"] = IF Asked(Listener("Enabled")) THEN ListenConf ELSE NoTLS
        /\ tls'["sentinel"] = tls["sentinel"]
        /\ tls'["master"] = tls["master"] /\ tls'["masterProbe"] = tls["masterProbe"]
    BY <2>7 DEF TLSInv
  <2> QED
    BY <1>s, <2>1, <2>6, <2>8, Zenon DEF TLSInv
<1>5. CASE masterTLSConfig /\ ~Fatal
  <2> DEFINE through == boolSet(Master("Passthrough"))
             on == boolSet(Master("Enabled")) \/ AnyOption("MasterTLS")
             conf == BackendConfig("MasterTLS")
  <2>1. /\ pc = "masterTLS" /\ pc' = "endpoints"
        /\ \/ ~on /\ ~through /\ tls' = tls
           \/ /\ on \/ through
              /\ ~(through /\ boolSet(Master("Enabled")))
              /\ tls' = [tls EXCEPT !["masterProbe"] = conf,
                                    !["master"] = IF through THEN NoTLS ELSE conf]
    BY <1>5, Zenon DEF masterTLSConfig, ProbeAndDial, Goto
  <2>2. pc \in Checked
    BY <2>1 DEF Checked
  <2>3. /\ through <=> Asked(Master("Passthrough"))
        /\ boolSet(Master("Enabled")) <=> Asked(Master("Enabled"))
    BY <2>2, Kinds, ReadsEffective, Zenon
  <2>4. (on <=> MasterOn) /\ conf = MasterConf
    BY <2>2, BackendEffective, Zenon
  <2>5. Asked(Master("Enabled")) => MasterOn
    BY DEF MasterOn
  <2> HIDE DEF through, on, conf
  <2>6. CASE ~on /\ ~through /\ tls' = tls
    BY <1>s, <2>1, <2>3, <2>4, <2>5, <2>6 DEF TLSInv
  <2>7. CASE /\ on \/ through
             /\ ~(through /\ boolSet(Master("Enabled")))
             /\ tls' = [tls EXCEPT !["masterProbe"] = conf,
                                   !["master"] = IF through THEN NoTLS ELSE conf]
    <3>1. /\ DOMAIN tls' = {"sentinel", "listen", "master", "masterProbe"}
          /\ tls'["masterProbe"] = conf
          /\ tls'["master"] = IF through THEN NoTLS ELSE conf
          /\ tls'["sentinel"] = tls["sentinel"] /\ tls'["listen"] = tls["listen"]
      BY <2>7 DEF TLSInv
    <3> QED
      BY <1>s, <2>1, <2>3, <2>4, <2>7, <3>1 DEF TLSInv
  <2> QED
    BY <2>1, <2>6, <2>7
<1>6. CASE \/ Endpoints \/ NewRedisMasterResolver
           \/ NewRedisSentinelProxy /\ ~Fatal
  <2>1. /\ tls' = tls
        /\ pc \in {"endpoints", "NewRedisMasterResolver", "NewRedisSentinelProxy"}
        /\ pc' \in AfterLoad
    BY <1>6 DEF Endpoints, NewRedisMasterResolver, NewRedisSentinelProxy, Goto
  <2> QED
    BY <1>s, <2>1 DEF TLSInv
<1>7. CASE UNCHANGED vars
  BY <1>s, <1>7 DEF vars, TLSInv
<1> QED
  BY <1>f, <1>1, <1>2, <1>3, <1>4, <1>5, <1>6, <1>7 DEF Next

-----------------------------------------------------------------------------
\* The endpoint options are three different ones, and none of them is the
\* passthrough of sentinel.
LEMMA EndpointsDiffer ==
  /\ Top("Listen") # Top("ReplicaListen") /\ Top("Listen") # Top("ReplicaFallback")
  /\ Top("ReplicaListen") # Top("ReplicaFallback")
BY DEF Top

\* What the end of Load makes of a config whose endpoint options are set: the
\* other options stay, Listen gets a value if there is no endpoint at all, and an
\* empty ReplicaListen goes away.
LEMMA EndpointsLoaded ==
  ASSUME NEW c, {Top("Listen"), Top("ReplicaListen"), Top("ReplicaFallback")} \subseteq DOMAIN c
  PROVE  LET d == WithoutReplica(WithListen(c))
         IN /\ \A o : o \notin EndpointOption =>
                 (o \in DOMAIN d <=> o \in DOMAIN c) /\ (o \in DOMAIN c => d[o] = c[o])
            /\ Top("Listen") \in DOMAIN d
            /\ d[Top("Listen")] =
                 IF c[Top("Listen")] = "" /\ c[Top("ReplicaListen")] = ""
                   THEN "default" ELSE c[Top("Listen")]
            /\ IF c[Top("ReplicaListen")] = ""
                 THEN Top("ReplicaListen") \notin DOMAIN d
                 ELSE \A o \in ReplicaOptions : o \in DOMAIN d /\ d[o] = c[o]
<1> DEFINE e == WithListen(c)  d == WithoutReplica(e)
           none == c[Top("Listen")] = "" /\ c[Top("ReplicaListen")] = ""
<1>1. /\ DOMAIN e = DOMAIN c
      /\ \A o \in DOMAIN c : o # Top("Listen") => e[o] = c[o]
      /\ e[Top("Listen")] = IF none THEN "default" ELSE c[Top("Listen")]
  <2>1. CASE none
    <3>1. e = [o \in DOMAIN c \cup {Top("Listen")} |->
                 IF o = Top("Listen") THEN "default" ELSE c[o]]
      BY <2>1, Zenon DEF WithListen, Blank
    <3> QED
      BY <2>1, <3>1, Zenon
  <2>2. CASE ~none
    <3>1. e = c
      BY <2>2, Zenon DEF WithListen, Blank
    <3> QED
      BY <2>2, <3>1, Zenon
  <2> QED
    BY <2>1, <2>2, Zenon
<1> HIDE DEF e, none
<1>2. CASE c[Top("ReplicaListen")] = ""
  <2>1. e[Top("ReplicaListen")] = "" /\ Top("ReplicaListen") \in DOMAIN e
    BY <1>1, <1>2, EndpointsDiffer, Zenon
  <2>2. d = [o \in DOMAIN e \ ReplicaOptions |-> e[o]]
    BY <2>1, Zenon DEF WithoutReplica, ReplicaOptions
  <2>3. Top("Listen") \notin ReplicaOptions /\ Top("ReplicaListen") \in ReplicaOptions
    BY EndpointsDiffer DEF ReplicaOptions
  <2> HIDE DEF d
  <2>4. /\ \A o : o \notin EndpointOption =>
             (o \in DOMAIN d <=> o \in DOMAIN c) /\ (o \in DOMAIN c => d[o] = c[o])
        /\ Top("Listen") \in DOMAIN d
        /\ d[Top("Listen")] = IF none THEN "default" ELSE c[Top("Listen")]
        /\ Top("ReplicaListen") \notin DOMAIN d
    BY <1>1, <2>2, <2>3 DEF EndpointOption
  <2> QED
    BY <1>2, <2>4, Zenon DEF none, d, e
<1>3. CASE c[Top("ReplicaListen")] # ""
  <2>1. e[Top("ReplicaListen")] # ""
    BY <1>1, <1>3, EndpointsDiffer, Zenon
  <2>2. d = e
    BY <2>1, Zenon DEF WithoutReplica
  <2> HIDE DEF d
  <2>3. /\ \A o : o \notin EndpointOption =>
             (o \in DOMAIN d <=> o \in DOMAIN c) /\ (o \in DOMAIN c => d[o] = c[o])
        /\ Top("Listen") \in DOMAIN d
        /\ d[Top("Listen")] = IF none THEN "default" ELSE c[Top("Listen")]
        /\ \A o \in ReplicaOptions : o \in DOMAIN d /\ d[o] = c[o]
    BY <1>1, <2>2, EndpointsDiffer DEF EndpointOption, ReplicaOptions
  <2> QED
    BY <1>3, <2>3, Zenon DEF none, d, e
<1> QED
  BY <1>2, <1>3, Zenon

\* Load has not ended at the start.
LEMMA LoadedInit == Init => LoadedInv
BY Zenon DEF Init, LoadedInv, AfterLoad

\* The end of Load changes the endpoints only; the constructors change no option.
LEMMA LoadedStep == ChainInv /\ LoadedInv /\ [Next]_vars => LoadedInv'
<1> SUFFICES ASSUME ChainInv, LoadedInv, [Next]_vars PROVE LoadedInv'
  OBVIOUS
<1>g. given' = given
  BY GivenStays
<1>s. \A o : Effective(o)' = Effective(o)
  BY <1>g, EffectiveStays
<1>1. CASE Endpoints
  <2>1. pc = "endpoints" /\ cfg' = WithoutReplica(WithListen(cfg)) /\ pc \in Checked
    BY <1>1 DEF Endpoints, Checked
  <2>2. \A o \in {Top("Listen"), Top("ReplicaListen"), Top("ReplicaFallback")} :
          o \in DOMAIN cfg /\ cfg[o] = Effective(o)
    BY <2>1, Kinds, ReadsEffective, ZenonT(30)
  <2>3. /\ \A o : o \notin EndpointOption =>
             (o \in DOMAIN cfg' <=> o \in DOMAIN cfg) /\ (o \in DOMAIN cfg => cfg'[o] = cfg[o])
        /\ Top("Listen") \in DOMAIN cfg'
        /\ cfg'[Top("Listen")] =
             IF cfg[Top("Listen")] = "" /\ cfg[Top("ReplicaListen")] = ""
               THEN "default" ELSE cfg[Top("Listen")]
        /\ IF cfg[Top("ReplicaListen")] = ""
             THEN Top("ReplicaListen") \notin DOMAIN cfg'
             ELSE \A o \in ReplicaOptions : o \in DOMAIN cfg' /\ cfg'[o] = cfg[o]
    BY <2>1, <2>2, EndpointsLoaded, Zenon
  <2>4. \A o \in Option \ (EndpointOption \cup {Sentinel("Passthrough")}) :
          /\ Effective(o) = IF o \in DOMAIN cfg' THEN cfg'[o] ELSE "unset"
          /\ o \in DOMAIN cfg' => Effective(o) # "unset"
    <3>1. \A o \in Option \ {Sentinel("Passthrough")} :
            Effective(o) = IF o \in DOMAIN cfg THEN cfg[o] ELSE "unset"
      BY <2>1, ChainPrecedence DEF FirstSourceWins, Checked
    <3>2. \A o \in Option \ {Sentinel("Passthrough")} :
            o \in DOMAIN cfg => Effective(o) # "unset"
      BY <2>1, ChainHas, EffectiveSet DEF ChainInv
    <3> QED
      BY <2>3, <3>1, <3>2, Zenon
  <2>5. \A o \in ReplicaOptions : cfg[o] = Effective(o)
    BY <2>2 DEF ReplicaOptions
  <2>6. EndpointOption' = EndpointOption /\ ReplicaOptions' = ReplicaOptions
    BY DEF EndpointOption, ReplicaOptions
  <2> QED
    BY <1>s, <2>2, <2>3, <2>4, <2>5, <2>6, Zenon DEF LoadedInv
<1>2. CASE NewRedisMasterResolver \/ NewRedisSentinelProxy \/ UNCHANGED vars
  <2>1. cfg' = cfg /\ (pc' \in AfterLoad => pc \in AfterLoad)
    BY <1>2 DEF NewRedisMasterResolver, NewRedisSentinelProxy, vars, AfterLoad, Goto, Fatal
  <2>2. EndpointOption' = EndpointOption /\ ReplicaOptions' = ReplicaOptions
    BY DEF EndpointOption, ReplicaOptions
  <2> QED
    BY <1>s, <2>1, <2>2, Zenon DEF LoadedInv
<1>3. CASE \/ BindFlags \/ FromEnv \/ loadFile \/ MergeDefault \/ Check
           \/ sentinelTLSConfig \/ listenTLSConfig \/ masterTLSConfig
  <2>1. pc' \notin AfterLoad
    BY <1>3, Zenon DEF BindFlags, FromEnv, loadFile, MergeDefault, Check, sentinelTLSConfig,
       listenTLSConfig, masterTLSConfig, Goto, Fatal, Set, AfterLoad
  <2> QED
    BY <2>1, Zenon DEF LoadedInv
<1> QED
  BY <1>1, <1>2, <1>3 DEF Next

\* The constructors have taken nothing at the start.
LEMMA WiredInit == Init => WiredInv
BY DEF Init, WiredInv

\* Each constructor takes what is in force.
LEMMA WiredStep == ChainInv /\ LoadedInv /\ WiredInv /\ [Next]_vars => WiredInv'
<1> SUFFICES ASSUME ChainInv, LoadedInv, WiredInv, [Next]_vars PROVE WiredInv'
  OBVIOUS
<1>g. given' = given
  BY GivenStays
<1>s. /\ \A o : Effective(o)' = Effective(o)
      /\ \A o : Asked(o)' <=> Asked(o)
  BY <1>g, EffectiveStays
<1>o. \A p, q : OneOf(p, q)' = OneOf(p, q)
  BY <1>s, Zenon DEF OneOf
<1>1. CASE NewRedisMasterResolver
  <2>1. /\ pc = "NewRedisMasterResolver" /\ pc' = "NewRedisSentinelProxy"
        /\ resolver'.masterUsername = Unless(Top("MasterUsername"), Value(Top("Username")))
        /\ resolver'.masterPassword = Unless(Top("MasterPassword"), Value(Top("Password")))
        /\ resolver'.trackReplicas = strSet(Top("ReplicaListen"))
    BY <1>1, Zenon DEF NewRedisMasterResolver
  <2>2. pc \in AfterLoad
    BY <2>1 DEF AfterLoad
  <2>3. \A o \in Credential : o \in Option \ (EndpointOption \cup {Sentinel("Passthrough")})
    BY DEF Credential, Option, TopOption, EndpointOption, ReplicaOptions, Top, Sentinel
  <2>4. \A o \in Credential : /\ o \in DOMAIN cfg <=> Effective(o) # "unset"
                              /\ o \in DOMAIN cfg => cfg[o] = Effective(o)
    BY <2>2, <2>3, Zenon DEF LoadedInv
  <2>5. /\ Top("MasterUsername") \in Credential /\ Top("Username") \in Credential
        /\ Top("MasterPassword") \in Credential /\ Top("Password") \in Credential
    BY DEF Credential
  <2>6. \A p, q \in Credential : Unless(p, Value(q)) = OneOf(p, q)
    BY <2>4, Zenon DEF Unless, Value, OneOf
  <2>7. strSet(Top("ReplicaListen")) <=> Effective(Top("ReplicaListen")) # ""
    <3>1. Top("ReplicaListen") \in ReplicaOptions
      BY DEF ReplicaOptions
    <3> QED
      BY <2>2, <3>1, Zenon DEF LoadedInv, strSet
  <2> QED
    BY <1>s, <1>o, <2>1, <2>5, <2>6, <2>7, Zenon DEF WiredInv
<1>2. CASE NewRedisSentinelProxy /\ ~Fatal
  <2>1. /\ pc = "NewRedisSentinelProxy" /\ pc' = "running"
        /\ cfg' = cfg /\ resolver' = resolver
        /\ ~RouterWithoutListen
        /\ proxy' = [local |-> Value(Top("Listen")),
                     replica |-> Value(Top("ReplicaListen")),
                     fallbackMaster |-> strSet(Top("ReplicaListen"))
                                        /\ cfg[Top("ReplicaFallback")] = "master",
                     router |-> boolSet(Top("Router"))]
    BY <1>2, Zenon DEF NewRedisSentinelProxy
  <2>p. /\ proxy'.local = Value(Top("Listen"))
        /\ proxy'.replica = Value(Top("ReplicaListen"))
        /\ proxy'.fallbackMaster = (strSet(Top("ReplicaListen"))
                                     /\ cfg[Top("ReplicaFallback")] = "master")
        /\ proxy'.router = boolSet(Top("Router"))
    BY <2>1, Zenon
  <2>2. pc \in AfterLoad
    BY <2>1 DEF AfterLoad
  <2>3. Top("Listen") \in DOMAIN cfg
    BY <2>2, Zenon DEF LoadedInv
  <2>4. Top("ReplicaListen") \in ReplicaOptions /\ Top("ReplicaFallback") \in ReplicaOptions
    BY DEF ReplicaOptions
  <2>5. /\ Value(Top("ReplicaListen")) = Effective(Top("ReplicaListen"))
        /\ strSet(Top("ReplicaListen")) =>
             /\ Effective(Top("ReplicaListen")) # ""
             /\ cfg[Top("ReplicaFallback")] = Effective(Top("ReplicaFallback"))
    BY <2>2, <2>4, Zenon DEF LoadedInv, strSet, Value
  <2>6. Value(Top("Listen")) = cfg[Top("Listen")]
    BY <2>3 DEF Value
  <2>7. boolSet(Top("Router")) <=> Asked(Top("Router"))
    <3>1. Top("Router") \in Option \ (EndpointOption \cup {Sentinel("Passthrough")})
      BY DEF Option, TopOption, EndpointOption, ReplicaOptions, Top, Sentinel
    <3>2. Effective(Top("Router")) = IF Top("Router") \in DOMAIN cfg
                                       THEN cfg[Top("Router")] ELSE "unset"
      BY <2>2, <3>1, Zenon DEF LoadedInv
    <3>3. Asked(Top("Router")) <=> Effective(Top("Router")) = "true"
      BY Kinds, Zenon DEF Asked
    <3> QED
      BY <3>2, <3>3 DEF boolSet
  <2>8. boolSet(Top("Router")) => cfg[Top("Listen")] # ""
    BY <2>1, Zenon DEF RouterWithoutListen, strSet
  <2> QED
    BY <1>s, <1>o, <2>1, <2>p, <2>5, <2>6, <2>7, <2>8, Zenon DEF WiredInv
<1>3. CASE UNCHANGED vars
  BY <1>s, <1>o, <1>3, Zenon DEF vars, WiredInv
<1>4. CASE \/ BindFlags \/ FromEnv \/ loadFile \/ MergeDefault \/ Check
           \/ sentinelTLSConfig \/ listenTLSConfig \/ masterTLSConfig
           \/ Endpoints \/ Fatal
  <2>1. pc' \notin {"NewRedisSentinelProxy", "running"}
    BY <1>4, Zenon DEF BindFlags, FromEnv, loadFile, MergeDefault, Check, sentinelTLSConfig,
       listenTLSConfig, masterTLSConfig, Endpoints, Goto, Fatal, Set
  <2> QED
    BY <2>1, Zenon DEF WiredInv
<1> QED
  BY <1>1, <1>2, <1>3, <1>4 DEF Next

\* The inductive invariant of a start.
StartInv == ChainInv /\ TLSInv /\ LoadedInv /\ WiredInv

\* A configuration that is built is not a nil one.
LEMMA ConfigsNotNil == SentinelConf # NoTLS /\ MasterConf # NoTLS /\ ListenConf # NoTLS
<1>1. /\ DOMAIN SentinelConf = Used /\ DOMAIN MasterConf = Used
      /\ DOMAIN ListenConf = {"CertFile", "ClientCAFile"}
  BY DEF SentinelConf, MasterConf, ListenConf
<1>2. DOMAIN NoTLS = {}
  BY DEF NoTLS, Empty
<1> QED
  BY <1>1, <1>2 DEF Used

\* A process that runs has the TLS that was asked for.
LEMMA StartInvTLS == StartInv => TLSAsConfigured
<1> SUFFICES ASSUME StartInv, pc = "running" PROVE TLSAsConfigured
  BY DEF TLSAsConfigured, OptionsApplied, ProbeAndDataAgree
<1>1. TLSInv /\ WiredInv
  BY DEF StartInv
<1>2. /\ pc \in AfterCheck /\ pc \in AfterSentinel /\ pc \in AfterListen /\ pc \in AfterMaster
  BY DEF AfterCheck, AfterSentinel, AfterListen, AfterMaster, AfterLoad
<1>3. /\ BackendTLS \ {"Enabled", "Passthrough", "KeyFile"} = Used
      /\ Used \subseteq TLSText \cup {"SkipVerify"}
      /\ ListenTLS \ {"Enabled", "KeyFile"} = {"CertFile", "ClientCAFile"}
  BY DEF BackendTLS, Used, TLSText, ListenTLS
<1>4. \A o \in Used : Asked(Sentinel(o)) =>
        tls["sentinel"] # NoTLS /\ tls["sentinel"][o] = Effective(Sentinel(o))
  <2> SUFFICES ASSUME NEW o \in Used, Asked(Sentinel(o))
               PROVE  tls["sentinel"] # NoTLS /\ tls["sentinel"][o] = Effective(Sentinel(o))
    OBVIOUS
  <2>1. tls["sentinel"] = SentinelConf
    BY <1>1, <1>2, <1>3, Zenon DEF TLSInv
  <2> QED
    BY <2>1, ConfigsNotNil DEF SentinelConf
<1>5. \A o \in Used : Asked(Master(o)) =>
        tls["masterProbe"] # NoTLS /\ tls["masterProbe"][o] = Effective(Master(o))
  <2> SUFFICES ASSUME NEW o \in Used, Asked(Master(o))
               PROVE  tls["masterProbe"] # NoTLS /\ tls["masterProbe"][o] = Effective(Master(o))
    OBVIOUS
  <2>1. MasterOn
    BY <1>3 DEF MasterOn
  <2>2. tls["masterProbe"] = MasterConf
    BY <1>1, <1>2, <2>1, Zenon DEF TLSInv
  <2> QED
    BY <2>2, ConfigsNotNil DEF MasterConf
<1>6. \A o \in {"CertFile", "ClientCAFile"} : Asked(Listener(o)) =>
        tls["listen"] # NoTLS /\ tls["listen"][o] = Effective(Listener(o))
  <2> SUFFICES ASSUME NEW o \in {"CertFile", "ClientCAFile"}, Asked(Listener(o))
               PROVE  tls["listen"] # NoTLS /\ tls["listen"][o] = Effective(Listener(o))
    OBVIOUS
  <2>1. o \in ListenTLS
    BY DEF ListenTLS
  <2>2. tls["listen"] = ListenConf
    BY <1>1, <1>2, <2>1, Zenon DEF TLSInv
  <2> QED
    BY <2>2, ConfigsNotNil DEF ListenConf
<1>7. /\ Asked(Sentinel("Enabled")) => tls["sentinel"] # NoTLS
      /\ Asked(Listener("Enabled")) => tls["listen"] # NoTLS
  BY <1>1, <1>2, ConfigsNotNil, Zenon DEF TLSInv
<1>8. Asked(Master("Enabled")) => tls["master"] # NoTLS
  BY <1>1, <1>2, ConfigsNotNil, Zenon DEF TLSInv, MasterOn
<1>9. OptionsApplied
  BY <1>3, <1>4, <1>5, <1>6, <1>7, <1>8, Zenon DEF OptionsApplied
<1>10. ProbeAndDataAgree
  <2>1. proxy.router <=> Asked(Top("Router"))
    BY <1>1, Zenon DEF WiredInv
  <2>2. /\ ~(Asked(Top("Router")) /\ Asked(Master("Passthrough")))
        /\ tls["masterProbe"] =
             IF MasterOn \/ Asked(Master("Passthrough")) THEN MasterConf ELSE NoTLS
        /\ tls["master"] =
             IF MasterOn /\ ~Asked(Master("Passthrough")) THEN MasterConf ELSE NoTLS
    BY <1>1, <1>2, Zenon DEF TLSInv
  <2>3. CASE Asked(Master("Passthrough"))
    BY <2>1, <2>2, <2>3, ConfigsNotNil, Zenon DEF ProbeAndDataAgree
  <2>4. CASE ~Asked(Master("Passthrough"))
    <3>1. tls["master"] = tls["masterProbe"]
      BY <2>2, <2>4
    <3> QED
      BY <2>4, <3>1, Zenon DEF ProbeAndDataAgree
  <2> QED
    BY <2>3, <2>4
<1> QED
  BY <1>9, <1>10 DEF TLSAsConfigured

\* A process that runs has its parts set up as configured.
LEMMA StartInvWired == StartInv => WiredAsConfigured
<1> SUFFICES ASSUME StartInv, pc = "running" PROVE WiredAsConfigured
  BY Zenon DEF WiredAsConfigured, EndpointsAgree, ProbeCredentials
<1>1. ChainInv /\ LoadedInv /\ WiredInv /\ pc \in AfterLoad
  BY DEF StartInv, AfterLoad
<1>2. Asked(Top("Listen")) => Effective(Top("Listen")) # ""
  BY Kinds, Zenon DEF Asked
<1>3. /\ proxy.local = IF /\ Effective(Top("Listen")) = ""
                          /\ Effective(Top("ReplicaListen")) = ""
                         THEN "default" ELSE Effective(Top("Listen"))
      /\ proxy.replica = Effective(Top("ReplicaListen"))
  BY <1>1, Zenon DEF LoadedInv, WiredInv
<1>4. proxy.local # "" \/ proxy.replica # ""
  BY <1>3, Zenon
<1>5. Asked(Top("Listen")) => proxy.local = Effective(Top("Listen"))
  BY <1>2, <1>3, Zenon
<1>6. EndpointsAgree
  BY <1>1, <1>3, <1>4, <1>5, Zenon DEF WiredInv, EndpointsAgree
<1>7. ProbeCredentials
  BY <1>1, Zenon DEF WiredInv, ProbeCredentials
<1> QED
  BY <1>6, <1>7 DEF WiredAsConfigured

\* The invariant of a start holds throughout.
THEOREM StartInvariant == Spec => []StartInv
<1>1. Init => StartInv
  BY ChainInit, TLSInit, LoadedInit, WiredInit DEF StartInv
<1>2. StartInv /\ [Next]_vars => StartInv'
  BY ChainStep, TLSStep, LoadedStep, WiredStep DEF StartInv
<1> QED
  BY <1>1, <1>2, PTL DEF Spec

\* For every input: every TLS option in force has its effect, and the role probe and
\* the data connections agree on how they reach the master.  This is not said of the
\* passthrough of sentinel, which a start ignores (NoSentinelPassthrough) although
\* sentinelTLSConfig would refuse it: PassthroughRefused does not hold.
THEOREM TLSHonoured == Spec => []TLSAsConfigured
BY StartInvariant, StartInvTLS, PTL

\* For every input: the endpoints, the router, the replica tracking and the
\* probe's credentials of a process that runs are the configured ones.
THEOREM PartsWired == Spec => []WiredAsConfigured
BY StartInvariant, StartInvWired, PTL

-----------------------------------------------------------------------------
(***************************************************************************)
(* Why a start fails.                                                      *)
(***************************************************************************)
\* The reasons depend on the input only.
LEMMA FaultStays == given' = given => (FaultyInput' <=> FaultyInput)
<1> SUFFICES ASSUME given' = given PROVE FaultyInput' <=> FaultyInput
  OBVIOUS
<1>1. /\ \A o : Effective(o)' = Effective(o)
      /\ \A o : Asked(o)' <=> Asked(o)
  BY EffectiveStays
<1> QED
  BY <1>1 DEF FaultyInput

\* Files of a backend that cannot be used are a documented reason.
LEMMA BadFilesFault ==
  ASSUME ChainInv, pc \in Checked, NEW s \in {"SentinelTLS", "MasterTLS"}, BadFiles(s)
  PROVE  FaultyInput
<1> DEFINE file(o) == IF strSet(<<s, o>>) THEN cfg[<<s, o>>] ELSE ""
<1>1. \A o \in TLSText : <<s, o>> \in DOMAIN Default \ Switch
  BY Kinds, Zenon DEF Sentinel, Master
<1>2. \A o \in TLSText : /\ file(o) = Effective(<<s, o>>)
                         /\ file(o) # "" <=> Asked(<<s, o>>)
                         /\ <<s, o>> \in Option
  <2> SUFFICES ASSUME NEW o \in TLSText
               PROVE  /\ file(o) = Effective(<<s, o>>)
                      /\ file(o) # "" <=> Asked(<<s, o>>)
                      /\ <<s, o>> \in Option
    BY Zenon
  <2>1. <<s, o>> \in DOMAIN Default \ Switch /\ <<s, o>> \in Option
    BY <1>1, Kinds
  <2> QED
    BY <2>1, ReadsEffective, Zenon
<1>3. \/ file("CAFile") = "bad"
      \/ ~(file("CertFile") = "" <=> file("KeyFile") = "")
      \/ file("CertFile") = "bad" \/ file("KeyFile") = "bad"
  BY Zenon DEF BadFiles
<1> HIDE DEF file
<1>4. /\ "CAFile" \in TLSText /\ "CertFile" \in TLSText /\ "KeyFile" \in TLSText
  BY DEF TLSText
<1>5. \/ \E o \in Option : Effective(o) = "bad"
      \/ ~(Asked(<<s, "CertFile">>) <=> Asked(<<s, "KeyFile">>))
  BY <1>2, <1>3, <1>4, Zenon
<1> QED
  BY <1>5, Zenon DEF FaultyInput

\* Every return of an error has a documented reason.
LEMMA FatalStep == StartInv /\ FatalJustified /\ [Next]_vars => FatalJustified'
<1> SUFFICES ASSUME StartInv, FatalJustified, [Next]_vars, pc' = "fatal" PROVE FaultyInput
  BY GivenStays, FaultStays DEF FatalJustified
<1>i. ChainInv /\ LoadedInv
  BY DEF StartInv
<1>1. CASE BindFlags \/ FromEnv \/ loadFile
  <2>1. \/ given.path = "unreadable" \/ Garbled(given.flags) \/ Garbled(given.env)
        \/ Garbled(given.file)
    BY <1>1 DEF BindFlags, FromEnv, loadFile, Goto
  <2> QED
    BY <2>1, Zenon DEF FaultyInput
<1>2. CASE Check
  <2>1. /\ pc \in Checked
        /\ \/ cfg[Top("ReplicaFallback")] \notin {"master", "reject"}
           \/ cfg[Top("Router")] = "true" /\ boolSet(Master("Passthrough"))
    BY <1>2 DEF Check, Goto, Checked
  <2>2. /\ cfg[Top("ReplicaFallback")] = Effective(Top("ReplicaFallback"))
        /\ cfg[Top("Router")] = Effective(Top("Router"))
        /\ boolSet(Master("Passthrough")) <=> Asked(Master("Passthrough"))
    BY <1>i, <2>1, Kinds, ReadsEffective, Zenon
  <2>3. Asked(Top("Router")) <=> Effective(Top("Router")) = "true"
    BY Kinds, Zenon DEF Asked
  <2>4. \/ Effective(Top("ReplicaFallback")) \notin {"master", "reject"}
        \/ Asked(Top("Router")) /\ Asked(Master("Passthrough"))
    BY <2>1, <2>2, <2>3
  <2> QED
    BY <2>4, Zenon DEF FaultyInput
<1>3. CASE sentinelTLSConfig
  <2>1. /\ pc \in Checked
        /\ \/ boolSet(Sentinel("Passthrough")) \/ StrayOption
           \/ boolSet(Sentinel("Enabled")) /\ BadFiles("SentinelTLS")
    BY <1>3 DEF sentinelTLSConfig, Set, Checked
  <2>2. ~boolSet(Sentinel("Passthrough"))
    BY <1>i, <2>1, NoSentinelPassthrough DEF boolSet
  <2>3. CASE StrayOption
    <3>1. boolSet(Sentinel("Enabled")) <=> Asked(Sentinel("Enabled"))
      BY <1>i, <2>1, Kinds, ReadsEffective, Zenon
    <3>2. /\ ~Asked(Sentinel("Enabled"))
          /\ \E o \in TLSText \cup {"SkipVerify"} : Asked(Sentinel(o))
      BY <1>i, <2>1, <2>3, <3>1, BackendEffective, Zenon DEF StrayOption
    <3>3. TLSText \cup {"SkipVerify"} \subseteq BackendTLS \ {"Passthrough"}
      BY DEF TLSText, BackendTLS
    <3> QED
      BY <3>2, <3>3, Zenon DEF FaultyInput
  <2> QED
    BY <1>i, <2>1, <2>2, <2>3, BadFilesFault, Zenon
<1>4. CASE listenTLSConfig
  <2> DEFINE file(o) == IF strSet(Listener(o)) THEN cfg[Listener(o)] ELSE ""
             on == boolSet(Listener("Enabled"))
             files == ListenTLS \ {"Enabled"}
  <2>1. /\ pc = "listenTLS"
        /\ \/ ~on /\ \E o \in files : file(o) # ""
           \/ on /\ ("" \in {file("CertFile"), file("KeyFile")}
                     \/ "bad" \in {file(o) : o \in files})
           \/ pc' = "masterTLS"
    BY <1>4, Zenon DEF listenTLSConfig, Set
  <2>2. pc \in Checked
    BY <2>1, Zenon DEF Checked
  <2>3. on <=> Asked(Listener("Enabled"))
    BY <1>i, <2>2, Kinds, ReadsEffective, Zenon
  <2>4. files = {"CertFile", "KeyFile", "ClientCAFile"} /\ files \subseteq ListenTLS
    BY DEF ListenTLS
  <2>5. \A o \in files : /\ file(o) = Effective(Listener(o))
                         /\ file(o) # "" <=> Asked(Listener(o))
                         /\ Listener(o) \in Option
    <3> SUFFICES ASSUME NEW o \in files
                 PROVE  /\ file(o) = Effective(Listener(o))
                        /\ file(o) # "" <=> Asked(Listener(o))
                        /\ Listener(o) \in Option
      BY Zenon
    <3>1. Listener(o) \in DOMAIN Default \ Switch /\ Listener(o) \in Option
      BY <2>4, Kinds
    <3> QED
      BY <1>i, <2>2, <3>1, ReadsEffective, Zenon
  <2> HIDE DEF file, on, files
  <2>6. \/ ~Asked(Listener("Enabled")) /\ \E o \in ListenTLS : Asked(Listener(o))
        \/ /\ Asked(Listener("Enabled"))
           /\ ~(Asked(Listener("CertFile")) /\ Asked(Listener("KeyFile")))
        \/ \E o \in Option : Effective(o) = "bad"
    BY <2>1, <2>3, <2>4, <2>5, Zenon
  <2> QED
    BY <2>6, Zenon DEF FaultyInput
<1>5. CASE masterTLSConfig
  <2>1. /\ pc = "masterTLS"
        /\ \/ boolSet(Master("Passthrough")) /\ boolSet(Master("Enabled"))
           \/ BadFiles("MasterTLS")
    BY <1>5 DEF masterTLSConfig, Goto
  <2>2. pc \in Checked
    BY <2>1 DEF Checked
  <2>3. /\ boolSet(Master("Passthrough")) <=> Asked(Master("Passthrough"))
        /\ boolSet(Master("Enabled")) <=> Asked(Master("Enabled"))
    BY <1>i, <2>2, Kinds, ReadsEffective, Zenon
  <2>4. CASE Asked(Master("Enabled")) /\ Asked(Master("Passthrough"))
    BY <2>4, Zenon DEF FaultyInput
  <2> QED
    BY <1>i, <2>1, <2>2, <2>3, <2>4, BadFilesFault, Zenon
<1>6. CASE NewRedisSentinelProxy
  <2>1. /\ pc \in AfterLoad
        /\ \/ "bad" \in {Value(Top("Listen")), Value(Top("ReplicaListen"))}
           \/ ~strSet(Top("Listen")) /\ ~strSet(Top("ReplicaListen"))
           \/ RouterWithoutListen
    BY <1>6 DEF NewRedisSentinelProxy, AfterLoad
  <2>2. /\ Top("Listen") \in Option \ Switch /\ Top("ReplicaListen") \in Option \ Switch
        /\ Effective(Top("Listen")) # "unset" /\ Effective(Top("ReplicaListen")) # "unset"
    BY <1>i, Kinds, EffectiveSet DEF ChainInv, Has
  <2>3. /\ Asked(Top("Listen")) <=> Effective(Top("Listen")) # ""
        /\ Asked(Top("ReplicaListen")) <=> Effective(Top("ReplicaListen")) # ""
    BY <2>2, Zenon DEF Asked
  <2>4. Top("ReplicaListen") \in ReplicaOptions
    BY DEF ReplicaOptions
  <2>5. Value(Top("ReplicaListen")) = Effective(Top("ReplicaListen"))
    BY <1>i, <2>1, <2>4, Zenon DEF LoadedInv, Value
  <2>6. /\ Top("Listen") \in DOMAIN cfg
        /\ Value(Top("Listen")) = cfg[Top("Listen")]
        /\ cfg[Top("Listen")] =
             IF Effective(Top("Listen")) = "" /\ Effective(Top("ReplicaListen")) = ""
               THEN "default" ELSE Effective(Top("Listen"))
    BY <1>i, <2>1, Zenon DEF LoadedInv, Value
  <2>7. CASE "bad" \in {Value(Top("Listen")), Value(Top("ReplicaListen"))}
    <3>1. \E o \in Option : Effective(o) = "bad"
      BY <2>2, <2>5, <2>6, <2>7, Zenon
    <3> QED
      BY <3>1, Zenon DEF FaultyInput
  <2>8. strSet(Top("Listen")) <=> cfg[Top("Listen")] # ""
    BY <2>6, Zenon DEF strSet
  <2>9. strSet(Top("ReplicaListen")) <=> Effective(Top("ReplicaListen")) # ""
    BY <1>i, <2>1, <2>4, Zenon DEF LoadedInv, strSet
  <2>10. CASE RouterWithoutListen
    <3>1. boolSet(Top("Router")) /\ cfg[Top("Listen")] = ""
      BY <2>8, <2>10, Zenon DEF RouterWithoutListen
    <3>2. Top("Router") \in Option \ (EndpointOption \cup {Sentinel("Passthrough")})
      BY DEF Option, TopOption, EndpointOption, ReplicaOptions, Top, Sentinel
    <3>3. Effective(Top("Router")) = "true"
      BY <1>i, <2>1, <3>1, <3>2, Zenon DEF LoadedInv, boolSet
    <3>4. Asked(Top("Router"))
      BY <3>3, Kinds, Zenon DEF Asked
    <3>5. ~Asked(Top("Listen")) /\ Asked(Top("ReplicaListen"))
      BY <2>3, <2>6, <3>1, Zenon
    <3> QED
      BY <3>4, <3>5, Zenon DEF FaultyInput
  <2> QED
    BY <2>1, <2>6, <2>7, <2>8, <2>9, <2>10, Zenon
<1>7. CASE MergeDefault \/ Endpoints \/ NewRedisMasterResolver
  BY <1>7 DEF MergeDefault, Endpoints, NewRedisMasterResolver, Goto
<1>8. CASE UNCHANGED vars
  BY <1>8 DEF vars, FatalJustified
<1> QED
  BY <1>1, <1>2, <1>3, <1>4, <1>5, <1>6, <1>7, <1>8 DEF Next

\* For every input: a start that fails has one of the documented reasons.
THEOREM FailsForAReason == Spec => []FatalJustified
<1>1. Init => FatalJustified
  BY DEF Init, FatalJustified
<1> QED
  BY <1>1, StartInvariant, FatalStep, PTL DEF Spec
=============================================================================
