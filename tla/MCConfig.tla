------------------------------ MODULE MCConfig ------------------------------
(***************************************************************************)
(* The inputs of Config for TLC: options that the code relates to each     *)
(* other form a group, and every start sets options of one group.          *)
(***************************************************************************)
EXTENDS Config, TLC

Values(o) ==
  CASE o \in {Top(t) : t \in {"ResolveRetries", "MaxConnections", "IdleTimeout"}} ->
         {"zero", "some", "bad"}
    [] o \in Switch -> {"true", "false", "bad"}
    [] o \in {Top("Listen"), Top("ReplicaListen")} -> {"", "addr", "bad"}
    [] o = Top("ReplicaFallback") -> {"master", "reject", "other"}
    [] o[1] # "top" /\ o[2] \in {"CAFile", "CertFile", "KeyFile", "ClientCAFile"} ->
         {"", "pem", "bad"}
    [] OTHER -> {"", "x"}

Groups ==
  {{Top(o) : o \in {"Listen", "ReplicaListen", "ReplicaFallback", "Router"}}
     \cup {Master("Passthrough")},
   {Top(o) : o \in {"Username", "Password", "MasterUsername", "MasterPassword"}},
   {Top(o) : o \in {"Sentinel", "Master", "ResolveRetries", "MaxConnections",
                    "IdleTimeout", "Debug"}},
   {Sentinel(o) : o \in BackendTLS},
   {Listener(o) : o \in ListenTLS},
   {Master(o) : o \in BackendTLS} \cup {Top("Router")}}

\* Some source sets some option.
Settings(G) ==
  UNION {{<<s, o, v>> : v \in Values(o)} :
           s \in {"flags", "env", "file"}, o \in G} \
  {<<s, Sentinel("Passthrough"), v>> : s \in {"flags", "env"}, v \in {"true", "false", "bad"}}

Consistent(S) == \A a, b \in S : a[1] = b[1] /\ a[2] = b[2] => a = b

Source(S, s) ==
  [o \in {a[2] : a \in {b \in S : b[1] = s}} |->
     CHOOSE v \in {"true", "false", "bad", "", "addr", "master", "reject", "other", "pem", "x",
                 "zero", "some"} :
       <<s, o, v>> \in S]

Input(S, path) ==
  [flags |-> Source(S, "flags"), env |-> Source(S, "env"), file |-> Source(S, "file"),
   path |-> path]

\* One or two settings of a group, by any of the sources, and one option set
\* by all of them.
FewSettings ==
  UNION {{S \in {{a, b} : a, b \in Settings(G)} : Consistent(S)} : G \in Groups}
AllSources ==
  UNION {{{<<"flags", o, u>>, <<"env", o, v>>, <<"file", o, w>>} :
            u, v, w \in Values(o)} : o \in Option \ {Sentinel("Passthrough")}}

\* A function on some of the options of D.
Partial(D, V) == UNION {[E -> V] : E \in SUBSET D}

\* Any combination of the options of a TLS section, with valid values.
Sections ==
  UNION {{f @@ g : f \in Partial(G \ Parsed, {"", "pem"}),
                   g \in Partial(G \cap Parsed, {"true", "false"})} :
           G \in {{Sentinel(o) : o \in BackendTLS}, {Listener(o) : o \in ListenTLS},
                  {Master(o) : o \in BackendTLS}}}

\* Any combination of the endpoint options.
EndpointOptions ==
  {f @@ g @@ h : f \in Partial({Top("Listen"), Top("ReplicaListen")}, {"", "addr"}),
                 g \in Partial({Top("ReplicaFallback")}, {"master", "reject"}),
                 h \in Partial({Top("Router"), Master("Passthrough")}, {"true", "false"})}

FromFile(f) == [flags |-> Empty, env |-> Empty, file |-> f, path |-> "good"]

\* A combination in the file, one option of which a flag or variable overrides.
Overridden ==
  {[FromFile(f) EXCEPT ![s] = g] : f \in EndpointOptions, s \in {"flags", "env"},
     g \in {Top(o) :> v : o \in {"Listen", "ReplicaListen"}, v \in {"", "addr"}}}

Inputs ==
  {Input(S, "good") : S \in FewSettings \cup AllSources}
    \cup {FromFile(f) : f \in Sections \cup EndpointOptions}
    \cup Overridden
    \cup {[FromFile(Empty) EXCEPT !.path = p] : p \in {"none", "unreadable"}}
=============================================================================
