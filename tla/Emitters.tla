------------------------------ MODULE Emitters ------------------------------
(***************************************************************************)
(* The last step for an ingress-nginx route with another emitter than the  *)
(* standard one: Envoy Gateway, kgateway, agentgateway and Airlock         *)
(* Microgateway, under pkg/i2gw/emitters.                                  *)
(*                                                                         *)
(* A custom resource is named by kind, namespace and name, and targets a   *)
(* route or one of its rules by name (section <<>>: all of them).  Names   *)
(* of gateway classes are left out.                                        *)
(***************************************************************************)
EXTENDS NginxEmit

VARIABLES
  emitter,    \* the emitter that ran, "" before
  extensions, \* the custom resources it adds
  warnings    \* what it says itself that it drops

customVars == <<emitter, extensions, warnings>>

emittersVars == <<allVars, customVars>>

-----------------------------------------------------------------------------
(* AddHTTPRouteRuleNames                                                   *)
RuleName(i) == <<"rule", i - 1>>

WithName(rule, name) ==
  [matches |-> rule.matches, filters |-> rule.filters, backends |-> rule.backends, name |-> name]

Named(r) == [r EXCEPT !.rules = [i \in 1..Len(@) |-> WithName(@[i], RuleName(i))]]

Emitted(r) == Named(Standard(r))

OfKind(r, kind) == {p \in r.policies : p[1] = kind}

Asking(policies) == {p[3] : p \in policies}

(* Mutant: equal policies are merged though other rules have none.         *)
MergedIfEqual(r, kind) ==
  LET policies == OfKind(r, kind) IN
  IF Cardinality(Asking(policies)) = 1
  THEN {<<kind, 0, ing>> : ing \in Asking(policies)} ELSE policies

(* MergeBodySizeIR, MergeIPRangeControlIR: one policy for the whole route, *)
(* at index 0, if every rule has one and they are equal.  A policy knows   *)
(* its Ingress, so equal ones come from the same.                          *)
Merged(r, kind) ==
  LET policies == OfKind(r, kind) IN
  IF Cardinality(policies) = Len(r.rules) /\ Cardinality(Asking(policies)) = 1
  THEN {<<kind, 0, ing>> : ing \in Asking(policies)} ELSE policies

PolicyName(name, i) == IF i = 0 THEN name ELSE Append(name, ToString(i - 1))

PolicyKey(r, p) == <<p[1], r.ns, PolicyName(r.name, p[2])>>

(* getOrBuild: a name that is taken keeps its target and gets a new value. *)
Built(map, r, p) ==
  LET k == PolicyKey(r, p)
      new == [target |-> Key(r), section |-> IF p[2] = 0 THEN <<>> ELSE RuleName(p[2]), from |-> p[3]]
  IN [x \in DOMAIN map \cup {k} |->
        IF x # k THEN map[x] ELSE IF k \in DOMAIN map THEN [map[k] EXCEPT !.from = p[3]] ELSE new]

(* The policies of one kind, the routes in some order.                     *)
MergedOf(k, kind) == LET listed == SetToSeq(Merged(eir.http[k], kind)) IN [m \in DOMAIN listed |-> <<k, listed[m]>>]

InOrder(kind, order) == FlattenSeq([n \in DOMAIN order |-> MergedOf(order[n], kind)])

BuiltFrom(listed) ==
  LET map[n \in 0..Len(listed)] ==
        IF n = 0 THEN <<>> ELSE Built(map[n - 1], eir.http[listed[n][1]], listed[n][2])
  IN map[Len(listed)]

Orders(kind) == SetToSeqs({k \in DOMAIN eir.http : OfKind(eir.http[k], kind) # {}})

WithoutKinds(policies, kinds) == {p \in policies : p[1] \notin kinds}

Unparsed(kinds) ==
  ServiceReports \cup UNION {{<<k, p>> : p \in WithoutKinds(eir.http[k].policies, kinds)} : k \in DOMAIN eir.http}

-----------------------------------------------------------------------------
EmittersInit ==
  /\ EmitInit
  /\ emitter = "" /\ extensions = <<>> /\ warnings = {}

(* What the four emitters have in common.  Policies of the kinds that one  *)
(* has dealt with are gone before LogUnparsedErrors.                       *)
Emits(name, handled) ==
  /\ phase = "common" /\ phase' = "done"
  /\ emitter' = name
  /\ unparsed' = Unparsed(handled)
  /\ UNCHANGED <<vars, nginxVars, left, wwwErrors>>

WithRules(handled) ==
  [k \in DOMAIN eir.http |-> [Emitted(eir.http[k]) EXCEPT !.policies = WithoutKinds(@, handled)]]

EnvoyGatewayEmit ==
  /\ Emits("envoy-gateway", {"bodySize", "ipRange"})
  /\ \E sizes \in Orders("bodySize"), ranges \in Orders("ipRange") :
       extensions' = BuiltFrom(InOrder("bodySize", sizes) \o InOrder("ipRange", ranges))
  /\ eir' = [eir EXCEPT !.http = WithRules({"bodySize", "ipRange"})]
  /\ UNCHANGED warnings

(* EmitBuffer works on copies of the routes: sizes are applied, and stay.  *)
KgatewayEmit ==
  /\ Emits("kgateway", {})
  /\ \E sizes \in Orders("bodySize") : extensions' = BuiltFrom(InOrder("bodySize", sizes))
  /\ eir' = [eir EXCEPT !.http = WithRules({})]
  /\ UNCHANGED warnings

AgentgatewayEmit ==
  /\ Emits("agentgateway", {"bodySize"})
  /\ warnings' = UNION {{<<k, p>> : p \in OfKind(eir.http[k], "bodySize")} : k \in DOMAIN eir.http}
  /\ eir' = [eir EXCEPT !.http = WithRules({"bodySize"})]
  /\ UNCHANGED extensions

UsesRegex(r) == \E rule \in ToSet(r.rules) : \E m \in ToSet(rule.matches) : m.type = "Regex"

RegexGateways ==
  UNION {{<<eir.http[k].ns, ref.gateway>> : ref \in ToSet(eir.http[k].refs)} :
           k \in {x \in DOMAIN eir.http : UsesRegex(eir.http[x])}}

(* Routes of other kinds are dropped, with a warning; Gateways of routes   *)
(* with regex paths get parameters, and are made if there are none: then   *)
(* without name and namespace.                                             *)
AirlockEmit ==
  /\ Emits("airlock-microgateway", {})
  /\ warnings' = {<<k, <<"TLSRoute", 0>>>> : k \in DOMAIN pir.tls} \cup {<<k, <<"GRPCRoute", 0>>>> : k \in DOMAIN pir.grpc}
  /\ LET Name(g) == IF g \in DOMAIN eir.gateways THEN g ELSE <<"", "">>
         Params(g) == <<"params", Name(g)[1], <<Name(g)[2], "params">>>>
     IN /\ extensions' = [x \in {Params(g) : g \in RegexGateways} |->
                            [target |-> <<x[2], x[3][1]>>, section |-> <<>>, from |-> <<>>]]
        /\ eir' = [gateways |-> [g \in DOMAIN eir.gateways \cup RegexGateways |->
                                   IF g \in DOMAIN eir.gateways THEN eir.gateways[g] ELSE <<>>],
                   http |-> WithRules({})]

EmittersNext ==
  \/ EmitNext /\ emitter' = (IF phase' = "done" THEN "standard" ELSE "")
       /\ UNCHANGED <<extensions, warnings>>
  \/ EnvoyGatewayEmit \/ KgatewayEmit \/ AgentgatewayEmit \/ AirlockEmit

EmittersSpec == EmittersInit /\ [][EmittersNext]_emittersVars

-----------------------------------------------------------------------------
(* Gateway API: a policy for a route, or for the rule of it with this name. *)
Enforcing(k, i, kind) ==
  {x \in DOMAIN extensions :
     /\ x[1] = kind /\ extensions[x].target = k
     /\ extensions[x].section \in {<<>>, eir.http[k].rules[i].name}}

Told(k, i, kind) == \E w \in unparsed \cup warnings : w[1] = k /\ w[2][1] = kind /\ w[2][2] = i

Enforces ==
  CASE emitter = "envoy-gateway" -> {"bodySize", "ipRange"}
    [] emitter = "kgateway" -> {"bodySize"}
    [] OTHER -> {}

(* "node" with a policy for its rule 0 and "node-0" as a whole need the    *)
(* same name.                                                              *)
PolicyNamesake(k) ==
  \E a, b \in DOMAIN eir.http : \E i \in 0..Len(eir.http[a].rules), j \in 0..Len(eir.http[b].rules) :
    /\ k \in {a, b} /\ a[1] = b[1] /\ <<a, i>> # <<b, j>>
    /\ PolicyName(a[2], i) = PolicyName(b[2], j)

(* A canary whose main Ingress has another protocol is on its own.         *)
SpeaksFor(o, q) ==
  SameRule(o, q) /\ (Ann(o.ing).canary => \A x \in Occurrences : SameRule(o, x) => Ann(x.ing).canary)

RuleRedirects(o) == \E q \in Occurrences : SpeaksFor(q, o) /\ Ann(q.ing).redirect = "valid"

ServiceOf(o) == <<o.ns, <<o.path.backend.svc>>>>

RouteOf(o) ==
  CHOOSE k \in DOMAIN ir.http : ir.http[k].ns = o.ns /\ ir.http[k].parent = o.class /\ ir.http[k].host = o.host

ReportedAffinity(k) == {w[2][3] : w \in {x \in unparsed : x[1] = k /\ x[2][1] = "affinity"}}

(* What an Ingress asks of a Service reaches it, and nothing else.  Of the *)
(* TLS settings asked of it, or asked of the path for which it is the      *)
(* canary, the Service has those of the first route by name, whatever the  *)
(* order of the maps, and the user is told of one of the affinities.  A    *)
(* canary's affinity counts for the canary, and for the main Service only  *)
(* where they share a rule to the end.                                     *)
ServicesWhereAsked ==
  \A k \in {ServiceOf(o) : o \in Occurrences} :
    LET sharing == {x \in Occurrences \X Occurrences :
                      /\ ServiceOf(x[2]) = k /\ SameRule(x[1], x[2]) /\ x[1].protocol = "http"
                      /\ x[2].path.backend.port # 0 /\ ~RuleRedirects(x[1])}
        secure == {x \in sharing : /\ SpeaksFor(x[1], x[2]) /\ Ann(x[1].ing).protocol = "HTTPS"
                                   /\ Ann(x[1].ing).proxySSL # ""}
        sticky == {x \in sharing : Ann(x[1].ing).affinity}
        first == {x \in secure : \A y \in secure : ~NameBefore(RouteOf(y[1])[2], RouteOf(x[1])[2])}
    IN /\ (k \in DOMAIN pir.backendTLS) <=> secure # {}
       /\ k \in DOMAIN pir.backendTLS => \E x \in first : Ann(x[1].ing).proxySSL = pir.backendTLS[k]
       /\ ReportedAffinity(k) \subseteq {x[1].ing : x \in sticky}
       /\ (\E x \in sticky : x[1] = x[2] \/ SpeaksFor(x[1], x[2])) => ReportedAffinity(k) # {}

(* The annotations that count for a rule; the redirect passes add rules    *)
(* for which none do.                                                      *)
Speaking(r, i) ==
  LET anns == {Ann(s.ing) : s \in IF i > Len(r.rules) THEN {} ELSE ToSet(r.sources[i])}
  IN IF \A a \in anns : a.canary THEN anns ELSE {a \in anns : ~a.canary}

AsksFor(a, r, kind) ==
  CASE kind = "rewrite"  -> a.rewrite /\ (a.captures => r.host \notin RegexHosts)
    [] kind = "captures" -> a.rewrite /\ a.captures /\ r.host \in RegexHosts
    [] kind = "timeouts" -> "valid" \in a.timeouts
    [] kind = "cors"     -> a.cors
    [] kind = "headers"  -> a.setHeaders
    [] kind = "ipRange"  -> a.ipRange
    [] kind = "bodySize" -> a.bodySize = {"valid"}

Filtered(k, i, kind) == \E f \in ToSet(eir.http[k].rules[i].filters) : f[1] = kind

(* stripPassthroughRules takes Ingresses from a rule and leaves it the     *)
(* headers that they asked for.                                            *)
FilterKinds(r) ==
  ToSet(AppliedKinds) \cup IF Key(TLSRoute(r)) \in DOMAIN pir.tls THEN {} ELSE {"headers"}

RulesWhereAsked ==
  \A k \in DOMAIN pir.http : LET r == pir.http[k] IN
    Clear(r) /\ ~PolicyNamesake(k) => \A i \in 1..Len(eir.http[k].rules) :
      LET Asked(kind) == \E a \in Speaking(r, i) : AsksFor(a, r, kind)
      IN Cardinality(Speaking(r, i)) <= 1 =>
           /\ \A kind \in FilterKinds(r) : Filtered(k, i, kind) <=> Asked(kind)
           /\ \A kind \in {"captures", "ipRange", "bodySize"} :
                /\ Cardinality(Enforcing(k, i, kind)) = IF kind \in Enforces /\ Asked(kind) THEN 1 ELSE 0
                /\ \A x \in Enforcing(k, i, kind) : AsksFor(Ann(extensions[x].from), r, kind)
                /\ Told(k, i, kind) <=> Asked(kind) /\ (kind \notin Enforces \/ emitter = "kgateway")

(* A policy holds for the rules its Ingress speaks for and for no others:  *)
(* as a filter, as a custom resource of an emitter that has one, and else  *)
(* the user is told.  Rules that the redirect passes add have none.  Only  *)
(* kgateway also says that it failed.                                      *)
PoliciesWhereAsked ==
  Printed => /\ (\A ing \in ToSet(input.list) : Unambiguous(ing.ns)) => ServicesWhereAsked
             /\ RulesWhereAsked
=============================================================================
