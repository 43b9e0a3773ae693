----------------------------- MODULE Providers -----------------------------
(***************************************************************************)
(* The providers that start from the common converter, in one machine: an  *)
(* input is converted by ToIR and then goes through the features of its    *)
(* provider, one group of rules at a time, in the order of a map.          *)
(***************************************************************************)
EXTENDS NginxAnnotations, GCE

VARIABLES
  stage,   \* how many features are done; 0 before the first
  todo     \* groups that the current feature has not visited

providersVars == <<vars, out, stage, todo>>

(* Mutant: entry points first.                                             *)
EntrypointsFirst(provider) ==
  CASE provider = "traefik" -> <<"routerEntrypoints", "routerTLS", "forceHTTPS">>
    [] OTHER -> <<>>

FeaturesOf(provider) ==
  CASE provider = "traefik" -> <<"routerTLS", "routerEntrypoints", "forceHTTPS">>
    [] provider = "cilium"  -> <<"ciliumForceHTTPS">>
    [] provider = "apisix"  -> <<"httpToHTTPS">>
    [] provider = "nginx"   -> <<"listenPorts", "rewriteTarget", "headerManipulation", "pathRegex",
                                 "sslRedirect", "hsts", "sslServices", "grpcServices">>
    [] OTHER -> <<>>

Apply(feature, o, k, rule) ==
  CASE feature = "routerTLS"          -> RouterTLS(o, k, rule)
    [] feature = "routerEntrypoints"  -> RouterEntrypoints(o, k, rule)
    [] feature = "forceHTTPS"         -> ForceHTTPS(o, k, rule)
    [] feature = "ciliumForceHTTPS"   -> CiliumForceHTTPS(o, k, rule)
    [] feature = "httpToHTTPS"        -> HTTPToHTTPS(o, k, rule)
    [] feature = "listenPorts"        -> ListenPorts(o, k, rule)
    [] feature = "rewriteTarget"      -> RewriteTarget(o, k, rule)
    [] feature = "headerManipulation" -> HeaderManipulation(o, k, rule)
    [] feature = "pathRegex"          -> PathRegex(o, k, rule)
    [] feature = "sslRedirect"        -> SSLRedirect(o, k, rule)
    [] feature = "hsts"               -> HSTS(o, k, rule)
    [] feature = "grpcServices"       -> GRPCServices(o, k, rule)

-----------------------------------------------------------------------------
ProvidersInit == Init /\ out = Plain(EmptyIR) /\ stage = 0 /\ todo = {}

Feature == FeaturesOf(input.provider)[stage]

(* The next feature asks for the rule groups again.                        *)
NextFeature ==
  /\ pc = "done" /\ errors = {} /\ todo = {}
  /\ stage < Len(FeaturesOf(input.provider))
  /\ stage' = stage + 1
  /\ todo' = IF FeaturesOf(input.provider)[stage + 1] = "sslServices" THEN {} ELSE DOMAIN RuleGroups
  /\ out' = LET o == IF stage = 0 THEN Plain(ir) ELSE out
            IN IF FeaturesOf(input.provider)[stage + 1] = "sslServices" THEN SSLServices(o) ELSE o
  /\ UNCHANGED vars

ParseGroup ==
  /\ stage \in 1..Len(FeaturesOf(input.provider))
  /\ \E k \in todo :
       /\ todo' = todo \ {k}
       /\ out' = FoldLeft(LAMBDA o, rule : Apply(Feature, o, k, rule), out, RuleGroups[k].rules)
  /\ UNCHANGED <<vars, stage>>

(* The gce provider and then the gce emitter.                              *)
ConvertGCE ==
  /\ input.provider = "gce" /\ pc = "done" /\ errors = {} /\ stage = 0
  /\ IF ~SupportedGatewayClass(input.gatewayClass)
     THEN stage' = 2 /\ UNCHANGED out
     ELSE /\ stage' = 1
          /\ \E frontends \in SetToSeqs(DOMAIN input.frontends), configs \in SetToSeqs(DOMAIN input.configs) :
               out' = WithBackendConfigs(
                        WithFrontends(WithGatewayClasses(Plain(ir)), frontends), configs)
  /\ UNCHANGED <<vars, todo>>

EmitGCE ==
  /\ input.provider = "gce" /\ stage = 1
  /\ stage' = 2
  /\ out' = GCEEmitted(out)
  /\ UNCHANGED <<vars, todo>>

ProvidersNext ==
  \/ Next /\ UNCHANGED <<out, stage, todo>>
  \/ NextFeature \/ ParseGroup \/ ConvertGCE \/ EmitGCE

ProvidersSpec == ProvidersInit /\ [][ProvidersNext]_providersVars

-----------------------------------------------------------------------------
Finished ==
  /\ pc = "done" /\ errors = {} /\ todo = {}
  /\ stage = IF input.provider = "gce" THEN 2 ELSE Len(FeaturesOf(input.provider))
  /\ input.provider = "gce" => SupportedGatewayClass(input.gatewayClass)

Final == IF stage = 0 THEN Plain(ir) ELSE out

AnnotationsOf(k) == {Annotations(rule.ing) : rule \in ToSet(RuleGroups[k].rules)}

GroupOf(o) == [ns |-> o.ns, class |-> o.class, host |-> o.host, protocol |-> "http"]

(* Cilium: an Ingress of the host wants HTTPS, and no path has backends.   *)
Forced(o) == input.provider = "cilium" /\ \E a \in AnnotationsOf(GroupOf(o)) : a.https

Regexed(o) == input.provider = "nginx" /\ \E a \in AnnotationsOf(GroupOf(o)) : a.regex # ""

MatchesPath(rule, o) ==
  \/ rule.matches = MatchOf(o)
  \/ Regexed(o) /\ \E m \in ToSet(rule.matches) : m.path \in {o.path.path, AnyCase(o.path.path)}

Sends(rule, o) == Contains(rule.backends, ToBackendRef(o.ns, o.path.backend))

StaysHTTP(o) ==
  \E k \in DOMAIN Final.http : LET r == Final.http[k] IN
    /\ r.ns = o.ns /\ r.host = o.host /\ r.parent = o.class
    /\ \E rule \in ToSet(r.rules) :
         /\ MatchesPath(rule, o)
         /\ IF Forced(o) THEN Contains(rule.filters, HTTPSRedirect) ELSE Sends(rule, o)

SpeaksGRPC(o) ==
  input.provider = "nginx" /\ o.protocol = "http" /\ o.path.backend.svc \in Annotations(o.ing).grpc

MovesToGRPC(o) ==
  \E k \in DOMAIN Final.grpc : LET r == Final.grpc[k] IN
    /\ r.ns = o.ns /\ r.host = o.host /\ r.parent = o.class
    /\ \E rule \in ToSet(r.rules) :
         /\ rule.matches = GRPCMatch(MatchKey(o.path))
         /\ \E b \in ToSet(rule.backends) : b.svc = o.path.backend.svc

(* The first Ingress of the host takes all HTTP rules of its gRPC services *)
(* away, also those of other Ingresses.                                    *)
TakenByFirst(o) ==
  /\ input.provider = "nginx"
  /\ \E rule \in ToSet(RuleGroups[GroupOf(o)].rules) :
       /\ rule.ing[2] = RuleGroups[GroupOf(o)].name
       /\ o.path.backend.svc \in Annotations(rule.ing).grpc

(* What ToIR serves stays served by what the features make of it: by the   *)
(* HTTP route of its host, or by a gRPC route if its Ingress says so.      *)
PathsServed ==
  /\ PathsConverted
  /\ Finished => \A o \in Occurrences : Unambiguous(o.ns) =>
       CASE SpeaksGRPC(o) -> MovesToGRPC(o)
         [] o.protocol = "http" /\ ~SpeaksGRPC(o) -> StaysHTTP(o) \/ TakenByFirst(o)
         [] OTHER -> TRUE

-----------------------------------------------------------------------------
ListenersFor(k, protocol) ==
  {l \in ToSet(Final.gateways[GatewayKey(k)]) : l.protocol = protocol /\ l.host = k.host}

(* The routes of a host that attach to a listener of it.                   *)
Reached(k, protocol) ==
  {r \in {Final.http[x] : x \in DOMAIN Final.http} :
     /\ r.ns = k.ns /\ r.parent = k.class /\ r.host = k.host
     /\ \E l \in ListenersFor(k, protocol) : r.section \in {NoSection, l.name}}

Redirects(rule) == Contains(rule.filters, HTTPSRedirect)

Redirected(k, protocol) ==
  \E r \in Reached(k, protocol) : \E rule \in ToSet(r.rules) : Redirects(rule)

Backed(k, protocol) ==
  \E r \in Reached(k, protocol) : \E rule \in ToSet(r.rules) : rule.backends # <<>> /\ ~Redirects(rule)

HasTLS(k) == \E rule \in ToSet(RuleGroups[k].rules) : Annotations(rule.ing).tls \/ IngressOf(rule.ing).tls # <<>>

(* Traefik: a host of one mind on its entry points is served there.  One   *)
(* that is for HTTPS only, without TLS, is not served unless another host  *)
(* of the gateway has TLS.                                                 *)
EntrypointsHonoured(k) ==
  Cardinality({a.entrypoints : a \in AnnotationsOf(k)}) = 1 =>
    LET a == CHOOSE x \in AnnotationsOf(k) : TRUE IN
    CASE SecureOnly(a) /\ HasTLS(k) ->
           Backed(k, "HTTPS") /\ Redirected(k, "HTTP") /\ ~Backed(k, "HTTP")
      [] SecureOnly(a) /\ ~HasTLS(k) ->
           \/ ListenersFor(k, "HTTP") \cup ListenersFor(k, "HTTPS") = {}
           \/ \E other \in DOMAIN RuleGroups \ {k} : GatewayKey(other) = GatewayKey(k) /\ HasTLS(other)
      [] OTHER ->
           /\ Backed(k, "HTTP") /\ ~Redirected(k, "HTTP")
           /\ IF HasTLS(k) /\ ~PlainOnly(a) THEN Backed(k, "HTTPS") ELSE ListenersFor(k, "HTTPS") = {}

(* nginx: only the Ingress that gave the route its name, with a plain host *)
(* and the default ports.  A gRPC service of it takes the redirect along.  *)
RedirectHonoured(k) ==
  LET asking == {rule \in ToSet(RuleGroups[k].rules) : Annotations(rule.ing).redirect} IN
  IF asking = {} THEN ~Redirected(k, "HTTP")
  ELSE /\ \/ ListenersFor(k, "HTTPS") # {}
          \/ \E l \in ToSet(Final.gateways[GatewayKey(k)]) : l.host = NoHost
       /\ \/ Redirected(k, "HTTP")
          \/ \A rule \in asking : rule.ing[2] # RuleGroups[k].name
          \/ k.host.wild
          \/ \E a \in AnnotationsOf(k) : a.http \cup a.https \cup a.grpc # {}

(* A host is answered plainly, securely or with a redirect as the          *)
(* annotations of its Ingresses ask, whatever the order of features,       *)
(* groups and Ingresses, and no host because another asks.  Cilium and     *)
(* APISIX redirect HTTPS as well.                                          *)
SchemesAsAsked ==
  Finished => \A k \in DOMAIN RuleGroups :
    LET r == [ns |-> k.ns, parent |-> k.class, host |-> k.host] IN
    k.host # NoHost /\ ~HostNamesake(r) /\ Unambiguous(k.ns) =>
      CASE input.provider = "traefik" -> EntrypointsHonoured(k)
        [] input.provider \in {"cilium", "apisix"} ->
             LET asked == \E a \in AnnotationsOf(k) : a.https
             IN Redirected(k, "HTTP") = asked /\ Backed(k, "HTTP") = ~asked
        [] input.provider = "nginx" -> RedirectHonoured(k)
        [] OTHER -> Backed(k, "HTTP")

-----------------------------------------------------------------------------
Listening(k) == {<<l.protocol, l.port>> : l \in ListenersFor(k, "HTTP") \cup ListenersFor(k, "HTTPS")}

Wanted(a) ==
  {<<"HTTPS", p>> : p \in Ports(a).HTTPS} \cup {<<"HTTP", p>> : p \in Ports(a).HTTP \ Ports(a).HTTPS}

(* nginx: the ports of listen-ports annotations replace the default ones   *)
(* of the hosts of their Ingresses, and of no other host: a host listens   *)
(* on every port asked for and on no other.  Only defaults may get lost    *)
(* when several Ingresses of a host ask.                                   *)
PortsReplaced ==
  Finished /\ input.provider = "nginx" => \A k \in DOMAIN RuleGroups :
    LET asking == {a \in AnnotationsOf(k) : a.http \cup a.https # {}}
        wanted == UNION {Wanted(a) : a \in asking}
        r == [ns |-> k.ns, parent |-> k.class, host |-> k.host]
    IN k.host # NoHost /\ ~HostNamesake(r) =>
       IF asking = {}
       THEN <<"HTTP", 80>> \in Listening(k) /\ Listening(k) \subseteq {<<"HTTP", 80>>, <<"HTTPS", 443>>}
       ELSE /\ Listening(k) \subseteq wanted
            /\ IF Cardinality(asking) = 1 THEN wanted \subseteq Listening(k)
               ELSE wanted \ {<<"HTTP", 80>>, <<"HTTPS", 443>>} \subseteq Listening(k)

-----------------------------------------------------------------------------
(* gce: a Service has the policies of the BackendConfig it names, if that  *)
(* is there and valid, and no other; a rule has the filters of its cached  *)
(* Services, each once; and a Gateway has the SSL policy its Ingresses     *)
(* agree on.                                                               *)
PoliciesReachServices ==
  Finished /\ input.provider = "gce" =>
    LET KindsFor(s) == LET named == input.services[s] IN
          LET config == IF named.v1 # "" THEN named.v1 ELSE named.beta
          IN IF config \in DOMAIN input.configs /\ input.configs[config].valid
             THEN input.configs[config].kinds ELSE {}
        PoliciesFor(target) == {p.kind : p \in {q \in out.policies : q.target = target}}
    IN /\ \A s \in DOMAIN input.services : PoliciesFor(<<"Service", s>>) = PolicyKinds(KindsFor(s))
       /\ \A k \in DOMAIN out.http : \A rule \in ToSet(out.http[k].rules) :
            LET cached == {b.svc : b \in ToSet(rule.backends)} \cap
                          {s \in DOMAIN input.services : "cdn" \in KindsFor(s)}
            IN ToSet(rule.filters) = {CDNFilter(s) : s \in cached} /\ Len(rule.filters) = Cardinality(cached)
       /\ \A g \in DOMAIN out.gateways :
            LET asked == {Annotations(<<i.ns, i.name>>).frontend :
                            i \in {x \in ToSet(input.http) : <<x.ns, x.class>> = g}}
                          \cap DOMAIN input.frontends
            IN Cardinality(asked) <= 1 =>
               PoliciesFor(g) = {"GCPGatewayPolicy" : f \in {x \in asked : input.frontends[x] # ""}}
=============================================================================
