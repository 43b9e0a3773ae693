---------------------------- MODULE IngressNginx ----------------------------
(***************************************************************************)
(* pkg/i2gw/providers/ingressnginx: convert, from the listed Ingresses     *)
(* through common.ToIR to the feature parsers: canary, backend protocol,   *)
(* redirect, headers, regex, backend TLS, session affinity, ssl-passthrough *)
(* and app-root.                                                           *)
(*                                                                         *)
(* An Ingress carries its parsed annotations as `ann`.  A filter is a pair *)
(* of its kind and its target.  The text of regular expressions, URLs,     *)
(* header values and status codes is left out.  The proxy-ssl-* settings   *)
(* of an Ingress are one value, "" if no policy can be made from them: the *)
(* strict validation fails or the Secret is in another namespace.          *)
(***************************************************************************)
EXTENDS IngressAggregator

CONSTANTS
  TotalWeight,       \* canary-weight-total
  NameBefore(_, _)   \* string order of route names

VARIABLES
  stage,   \* what convert does next, or how it ended
  todo,    \* rule groups the canary feature still has to look at
  pir,     \* the ProviderIR the features work on
  failed   \* errors of features

nginxVars == <<stage, todo, pir, failed>>

(* No Service has the port 0, which stands for no port.                    *)
ASSUME PortsAssumption == \A x \in DOMAIN ServicePorts : ServicePorts[x] # 0

(* What common.ToIR gets are Ingresses of the list, parseCanaryConfig lets *)
(* no negative weight pass, and its total is positive.                     *)
ASSUME CanaryAssumption ==
  /\ TotalWeight \in Nat \ {0}
  /\ \A i \in Inputs :
       /\ ToSet(i.http) \cup ToSet(i.grpc) \subseteq ToSet(i.list)
       /\ \A ing \in ToSet(i.list) : ing.ann.weight \in Nat \cup {NoWeight}

NoValue == ""

-----------------------------------------------------------------------------
(* strings.ToUpper, of the protocols that occur in inputs.                 *)
ToUpper(protocol) == IF protocol = "https" THEN "HTTPS" ELSE protocol

(* The protocol split: an unsupported protocol drops the Ingress with a    *)
(* warning.                                                                *)
Split(list) ==
  [http |-> SelectSeq(list, LAMBDA ing : ToUpper(ing.ann.protocol) \in {"", "HTTP", "HTTPS", "AUTO_HTTP"}),
   grpc |-> SelectSeq(list, LAMBDA ing : ToUpper(ing.ann.protocol) \in {"GRPC", "GRPCS"}),
   list |-> list]

Ann(id) == (CHOOSE ing \in ToSet(input.list) : <<ing.ns, ing.name>> = id).ann

(* GetRuleGroups: no protocol in the key, and a group has the name of its  *)
(* first Ingress in the whole list.                                        *)
RuleGroups(list) ==
  LET opens(n, host) ==
        \A m \in 1..(n - 1) :
          list[m].ns = list[n].ns /\ list[m].class = list[n].class =>
            \A rule \in ToSet(list[m].rules) : rule.host # host
  IN UNION {{[ns |-> list[n].ns, class |-> list[n].class, host |-> host, name |-> list[n].name] :
               host \in {h \in {rule.host : rule \in ToSet(list[n].rules)} : opens(n, h)}} : n \in 1..Len(list)}

FirstIn(set) == IF set = {} THEN 0 ELSE CHOOSE i \in set : \A j \in set : i <= j

(* getNonCanaryIngress: the first that is no canary, else the first.       *)
NonCanary(sources) ==
  LET i == FirstIn({j \in 1..Len(sources) : ~Ann(sources[j].ing).canary})
  IN IF i # 0 THEN {sources[i].ing} ELSE {sources[j].ing : j \in 1..Len(sources) \cap {1}}

(* Sources are found by the position of their rule and backend.            *)
HasSource(r, i, j) == i <= Len(r.sources) /\ j <= Len(r.sources[i])

(* Does the Ingress that speaks for rule i have annotations like these?    *)
Speaks(route, i, Has(_)) ==
  i <= Len(route.sources) /\ \E ing \in NonCanary(route.sources[i]) : Has(Ann(ing))

-----------------------------------------------------------------------------
(* canaryFeature                                                           *)

CanaryIdx(sources) == FirstIn({i \in 1..Len(sources) : Ann(sources[i].ing).canary})
StableIdx(sources) == FirstIn({i \in 1..Len(sources) : ~Ann(sources[i].ing).canary})
HasBoth(sources) == CanaryIdx(sources) # 0 /\ StableIdx(sources) # 0

(* getCanaryInfo: a second backend of either sort is an error, also in     *)
(* rules without a canary; so is a canary alone.                           *)
CanaryErrors(sources) ==
  LET canaries == {i \in 1..Len(sources) : Ann(sources[i].ing).canary}
      stables  == (1..Len(sources)) \ canaries
  IN {e \in {"canaries", "stables", "no stable"} :
        CASE e = "canaries"  -> Cardinality(canaries) > 1
          [] e = "stables"   -> Cardinality(stables) > 1
          [] e = "no stable" -> canaries # {} /\ stables = {}}

(* Mutant: a weight above the total is not capped.                         *)
CanaryWeightUncapped(a) == IF a.weight = NoWeight THEN 0 ELSE a.weight

(* parseCanaryConfig: no weight, or an invalid one, counts as 0; a larger  *)
(* one is capped.                                                          *)
CanaryWeight(a) ==
  IF a.weight = NoWeight THEN 0 ELSE IF a.weight > TotalWeight THEN TotalWeight ELSE a.weight

ConfigOf(sources) == Ann(sources[CanaryIdx(sources)].ing)

Weighted(rule, sources) ==
  LET w == CanaryWeight(ConfigOf(sources)) IN
  [rule EXCEPT !.backends[CanaryIdx(sources)].weight = w,
               !.backends[StableIdx(sources)].weight = TotalWeight - w]

(* createHeaderMatchRule, for a copy of the backend without weight.        *)
HeaderRule(rule, value, backend) ==
  [matches  |-> <<[type |-> rule.matches[1].type, path |-> rule.matches[1].path,
                   header |-> <<value>>]>>,
   filters  |-> <<>>,
   backends |-> <<[backend EXCEPT !.weight = NoWeight]>>]

ByHeader(sources) == HasBoth(sources) /\ ConfigOf(sources).header

HeaderRules(rule, sources) ==
  IF ~ByHeader(sources) THEN <<>>
  ELSE LET value == ConfigOf(sources).value IN
       <<HeaderRule(rule, IF value # NoValue THEN value ELSE "always", rule.backends[CanaryIdx(sources)])>>
       \o IF value # NoValue THEN <<>>
          ELSE <<HeaderRule(rule, "never", rule.backends[StableIdx(sources)])>>

(* The first new rule has one backend and two sources.                     *)
HeaderSources(sources) ==
  IF ~ByHeader(sources) THEN <<>>
  ELSE LET canary == sources[CanaryIdx(sources)]
           stable == sources[StableIdx(sources)]
       IN <<<<canary, stable>>>> \o IF ConfigOf(sources).value # NoValue THEN <<>> ELSE <<<<stable>>>>

(* By header only, the canary leaves the rule it shared.                   *)
HeaderOnly(sources) == ByHeader(sources) /\ ConfigOf(sources).weight = NoWeight

CanaryRule(rule, sources) ==
  IF ~HasBoth(sources) THEN rule
  ELSE IF HeaderOnly(sources)
       THEN [rule EXCEPT !.backends = RemoveAt(@, CanaryIdx(sources))]
       ELSE Weighted(rule, sources)

CanarySources(sources) ==
  IF HeaderOnly(sources) THEN RemoveAt(sources, CanaryIdx(sources)) ELSE sources

CanaryRoute(r) ==
  LET n == 1..Len(r.rules) IN
  [r EXCEPT
     !.rules   = [i \in n |-> CanaryRule(@[i], r.sources[i])]
                   \o FlattenSeq([i \in n |-> HeaderRules(@[i], r.sources[i])]),
     !.sources = [i \in n |-> CanarySources(@[i])]
                   \o FlattenSeq([i \in n |-> HeaderSources(@[i])])]

(* BackendRefs is indexed with positions found in the sources.             *)
IndexPanics(r) ==
  \E i \in 1..Len(r.rules) : HasBoth(r.sources[i]) /\
    (CanaryIdx(r.sources[i]) > Len(r.rules[i].backends) \/ StableIdx(r.sources[i]) > Len(r.rules[i].backends))

(* gRPC rules only get weights.                                            *)
CanaryGRPC(r) ==
  [r EXCEPT !.rules = [i \in 1..Len(@) |->
     IF HasBoth(r.sources[i]) THEN Weighted(@[i], r.sources[i]) ELSE @[i]]]

GroupRoute(g) == <<g.ns, RouteName(g.name, g.host)>>

Canary(p, g) ==
  LET k == GroupRoute(g) IN
  [p EXCEPT !.http = [x \in DOMAIN @ |-> IF x = k THEN CanaryRoute(@[x]) ELSE @[x]],
            !.grpc = [x \in DOMAIN @ |-> IF x = k THEN CanaryGRPC(@[x]) ELSE @[x]]]

CanaryFailures(p, g) ==
  LET k == GroupRoute(g)
      Of(routes) == IF k \in DOMAIN routes THEN UNION {CanaryErrors(s) : s \in ToSet(routes[k].sources)}
                    ELSE {}
  IN Of(p.http) \cup Of(p.grpc)

-----------------------------------------------------------------------------
(* createBackendTLSPolicies: makes no policy.  It resolves the backends of *)
(* rule groups with a TLS protocol, also those of Ingresses that were      *)
(* dropped and that ToIR never saw.                                        *)
GroupRules(g) ==
  FlattenSeq([i \in 1..Len(input.list) |-> LET ing == input.list[i] IN
    IF ing.ns # g.ns \/ ing.class # g.class THEN <<>>
    ELSE LET rules == SelectSeq(ing.rules, LAMBDA rule : rule.host = g.host)
         IN [j \in 1..Len(rules) |-> [protocol |-> ing.ann.protocol, paths |-> rules[j].paths]]])

(* The first rule of a group whose Ingress has a protocol decides.         *)
NeedsTLS(g) ==
  LET first == FirstIn({i \in 1..Len(GroupRules(g)) : GroupRules(g)[i].protocol # ""})
  IN first # 0 /\ ToUpper(GroupRules(g)[first].protocol) \in {"HTTPS", "GRPCS"}

UnresolvedBackends ==
  UNION {UNION {{p.backend : p \in {q \in ToSet(rule.paths) : ToBackendRef(g.ns, q.backend) = NoRef}} :
                  rule \in ToSet(GroupRules(g))} :
           g \in {x \in RuleGroups(input.list) : NeedsTLS(x)}}

-----------------------------------------------------------------------------
AsksRedirect(r, i) == Speaks(r, i, LAMBDA a : a.redirect = "valid")

(* Mutant: backends stay next to the redirect.                             *)
RedirectKeepingBackends(r) ==
  [r EXCEPT !.rules = [i \in 1..Len(@) |->
     IF AsksRedirect(r, i)
     THEN [@[i] EXCEPT !.filters = Append(@, <<"redirect", "url">>)]
     ELSE @[i]]]

(* A rule that redirects has no backends.                                  *)
Redirecting(rule, filter) == [rule EXCEPT !.filters = Append(@, filter), !.backends = <<>>]

(* redirectFeature: a redirecting Ingress takes over every rule it speaks  *)
(* for.  An empty or invalid URL is only reported.                         *)
RedirectRoute(r) ==
  [r EXCEPT !.rules = [i \in 1..Len(@) |->
     IF AsksRedirect(r, i) THEN Redirecting(@[i], <<"redirect", "url">>) ELSE @[i]]]

Redirect(p) == [p EXCEPT !.http = [k \in DOMAIN @ |-> RedirectRoute(@[k])]]

-----------------------------------------------------------------------------
(* headerModifierFeature: upstream-vhost and connection-proxy-header, in   *)
(* one filter.                                                             *)
AsksHeaders(r, i) == Speaks(r, i, LAMBDA a : a.setHeaders)

SettingHeaders(rule) == [rule EXCEPT !.filters = Append(@, <<"headers", "set">>)]

HeaderModifierRoute(r) ==
  [r EXCEPT !.rules = [i \in 1..Len(@) |-> IF AsksHeaders(r, i) THEN SettingHeaders(@[i]) ELSE @[i]]]

HeaderModifier(p) == [p EXCEPT !.http = [k \in DOMAIN @ |-> HeaderModifierRoute(@[k])]]

-----------------------------------------------------------------------------
(* regexFeature                                                            *)

RegexHosts ==
  UNION {{rule.host : rule \in ToSet(ing.rules)} \ {NoHost} :
    ing \in {j \in ToSet(input.list) : ~j.ann.canary /\ (j.ann.regex \/ j.ann.rewrite)}}

RegexMatches(matches) == [j \in 1..Len(matches) |-> [matches[j] EXCEPT !.type = "Regex"]]

RegexRule(rule) == [rule EXCEPT !.matches = RegexMatches(@)]

RegexRoute(r) ==
  IF r.host \notin RegexHosts THEN r
  ELSE [r EXCEPT !.rules = [i \in 1..Len(@) |-> RegexRule(@[i])]]

Regex(p) == [p EXCEPT !.http = [k \in DOMAIN @ |-> RegexRoute(@[k])]]

-----------------------------------------------------------------------------
(* backendTLSFeature: only HTTP routes; upper case counts here.            *)
AsksBackendTLS(a) == a.protocol \in {"HTTPS", "GRPCS"} /\ a.proxySSL # ""

(* What the rules of a route want for the Services behind them, in order:  *)
(* as many backends as sources, and no resources.                          *)
BackendTLSOf(r) ==
  FlattenSeq([i \in 1..Len(r.rules) |->
    IF ~Speaks(r, i, AsksBackendTLS) THEN <<>>
    ELSE LET ing == CHOOSE x \in NonCanary(r.sources[i]) : TRUE
             backends == r.rules[i].backends
             idx == SetToSortSeq({j \in 1..Len(backends) : HasSource(r, i, j) /\ backends[j].port # 0}, <)
         IN [n \in 1..Len(idx) |-> [key |-> <<r.ns, <<backends[idx[n]].svc>>>>, settings |-> Ann(ing).proxySSL]]])

(* Mutant: the routes come in map order.                                   *)
UnsortedRoutes(routes) == SetToSeq(DOMAIN routes)

SortedRoutes(routes) ==
  SetToSortSeq(DOMAIN routes, LAMBDA k, o :
    IF k[1] = o[1] THEN NameBefore(k[2], o[2]) ELSE NameBefore(<<k[1]>>, <<o[1]>>))

(* One policy for a Service.  The first stays, whatever others say.        *)
BackendTLS(p) ==
  LET order == SortedRoutes(p.http)
      wanted == FlattenSeq([n \in 1..Len(order) |-> BackendTLSOf(p.http[order[n]])])
      First(acc, w) == IF w.key \in DOMAIN acc THEN acc ELSE (w.key :> w.settings) @@ acc
  IN [p EXCEPT !.backendTLS = FoldLeft(First, @, wanted)]

-----------------------------------------------------------------------------
(* sessionAffinityFeature: the first source of a rule with affinity, be it *)
(* a canary, decides for all backends of the rule.                         *)
AffinityIdx(sources) == FirstIn({i \in 1..Len(sources) : Ann(sources[i].ing).affinity})

AffinityRoute(services, r) ==
  LET asks(i) == i <= Len(r.sources) /\ AffinityIdx(r.sources[i]) # 0
      Of(i) == {<<r.ns, <<b.svc>>>> : b \in ToSet(r.rules[i].backends)}
      last(k) == Max({i \in 1..Len(r.rules) : asks(i) /\ k \in Of(i)})
      changed == UNION {Of(i) : i \in {n \in 1..Len(r.rules) : asks(n)}}
      source(k) == r.sources[last(k)][AffinityIdx(r.sources[last(k)])].ing
  IN [k \in changed |-> source(k)] @@ services

(* The routes come in map order, and the last one stays.                   *)
SessionAffinity(p, order) ==
  [p EXCEPT !.services = FoldLeft(LAMBDA services, k : AffinityRoute(services, p.http[k]), @, order)]

-----------------------------------------------------------------------------
(* sslPassthroughFeature                                                   *)

IsPassthrough(source) == Ann(source.ing).passthrough

SourcesOf(r) == UNION {ToSet(s) : s \in ToSet(r.sources)}

(* Mutant: backends of other Ingresses are not left out.                   *)
TLSBackendsOfAll(r) ==
  UNION {{[svc |-> b.svc, port |-> b.port] : b \in ToSet(rule.backends)} : rule \in ToSet(r.rules)}

(* buildTLSRoute: the distinct backends of passthrough Ingresses, and those *)
(* without a source, in one rule.                                          *)
TLSBackends(r) ==
  UNION {{[svc |-> r.rules[i].backends[j].svc, port |-> r.rules[i].backends[j].port] :
           j \in {n \in 1..Len(r.rules[i].backends) :
                    HasSource(r, i, n) => IsPassthrough(r.sources[i][n])}} : i \in 1..Len(r.rules)}

(* The port of a backend is dereferenced; a resource backend has none.     *)
PortPanics(p) ==
  \E k \in DOMAIN p.http :
    /\ \E s \in SourcesOf(p.http[k]) : IsPassthrough(s)
    /\ \E b \in TLSBackends(p.http[k]) : b.port = 0

TLSSection(host) == NameFromHost(host) \o <<"tls", "passthrough">>

TLSRoute(r) ==
  [ns |-> r.ns, name |-> r.name \o <<"tls", "passthrough">>, parent |-> r.parent, host |-> r.host,
   section |-> IF r.host = NoHost THEN <<>> ELSE TLSSection(r.host), backends |-> TLSBackends(r)]

WithBackends(rule, kept) == [rule EXCEPT !.backends = [m \in DOMAIN kept |-> @[kept[m]]]]

(* stripPassthroughRules: a rule without a backend left is removed.        *)
Strip(r) ==
  LET stays(i) == {j \in DOMAIN r.rules[i].backends : HasSource(r, i, j) => ~IsPassthrough(r.sources[i][j])}
      kept(i) == Keep(Positions(r.rules[i].backends), stays(i))
      left == Keep(Positions(r.rules), {i \in DOMAIN r.rules : kept(i) # <<>>})
      sourced(i) == Keep(kept(i), {j \in stays(i) : HasSource(r, i, j)})
  IN [r EXCEPT
        !.rules = [n \in DOMAIN left |-> WithBackends(@[left[n]], kept(left[n]))],
        !.sources = [n \in DOMAIN left |->
           [m \in DOMAIN sourced(left[n]) |-> @[left[n]][sourced(left[n])[m]]]]]

PassedThrough(r) == \E s \in SourcesOf(r) : IsPassthrough(s)

(* addPassthroughListeners, to the gateway of the route if it exists.  Two *)
(* hosts can have one section name: the first to come names the listener.  *)
WithPassthroughListener(gws, r) ==
  LET gw == <<r.ns, r.parent>> IN
  IF gw \notin DOMAIN gws \/ r.host = NoHost \/ \E l \in ToSet(gws[gw]) : l.name = TLSSection(r.host)
  THEN gws
  ELSE [gws EXCEPT ![gw] = Append(@, [name |-> TLSSection(r.host), host |-> r.host, port |-> 443,
                                      certs |-> {}, mode |-> "Passthrough"])]

WithPassthroughListeners(p, order) ==
  LET gws[i \in 0..Len(order)] ==
        IF i = 0 THEN p.gateways ELSE WithPassthroughListener(gws[i - 1], p.http[order[i]])
  IN gws[Len(order)]

(* Mutant: the route goes although other Ingresses have rules in it.       *)
PassthroughOfSome(p, order) ==
  LET passed == {k \in DOMAIN p.http : PassedThrough(p.http[k])}
  IN [p EXCEPT
        !.tls  = [k \in DOMAIN @ \cup {Key(TLSRoute(p.http[x])) : x \in passed} |->
                    IF \E x \in passed : Key(TLSRoute(p.http[x])) = k
                    THEN TLSRoute(p.http[CHOOSE x \in passed : Key(TLSRoute(p.http[x])) = k])
                    ELSE @[k]],
        !.http = [k \in DOMAIN @ \ passed |-> @[k]],
        !.gateways = WithPassthroughListeners(p, order)]

(* The routes come in map order.                                           *)
Passthrough(p, order) ==
  LET passed == {k \in DOMAIN p.http : PassedThrough(p.http[k])}
      gone   == {k \in passed : \A s \in SourcesOf(p.http[k]) : IsPassthrough(s)}
  IN [p EXCEPT
        !.tls  = [k \in DOMAIN @ \cup {Key(TLSRoute(p.http[x])) : x \in passed} |->
                    IF \E x \in passed : Key(TLSRoute(p.http[x])) = k
                    THEN TLSRoute(p.http[CHOOSE x \in passed : Key(TLSRoute(p.http[x])) = k])
                    ELSE @[k]],
        !.http = [k \in DOMAIN @ \ gone |-> IF k \in passed THEN Strip(@[k]) ELSE @[k]],
        !.gateways = WithPassthroughListeners(p, order)]

-----------------------------------------------------------------------------
(* appRootFeature: the first rule that asks for it decides.                *)
AsksAppRoot(r, i) == Speaks(r, i, LAMBDA a : a.appRoot = "valid")

AppRootRoute(r) ==
  LET asks == FirstIn({i \in 1..Len(r.rules) : AsksAppRoot(r, i)})
      isRoot == asks # 0 /\ \E m \in ToSet(r.rules[asks].matches) : m.type = "Exact" /\ m.path = <<>>
      filter == <<"redirect", "root">>
  IN CASE asks = 0 -> r
       [] asks # 0 /\ isRoot ->
            [r EXCEPT !.rules[asks] = Redirecting(@, filter)]
       [] OTHER ->
            [r EXCEPT !.rules = Append(@, [matches |-> <<[type |-> "Exact", path |-> <<>>, header |-> <<>>]>>,
                                           filters |-> <<filter>>, backends |-> <<>>]),
                      !.sources = Append(@, <<>>)]

AppRoot(p) == [p EXCEPT !.http = [k \in DOMAIN @ |-> AppRootRoute(@[k])]]

-----------------------------------------------------------------------------
(* convert                                                                 *)

NginxInit ==
  /\ Init
  /\ stage = "common" /\ todo = {} /\ failed = {}
  /\ pir = [http |-> <<>>, grpc |-> <<>>, gateways |-> <<>>, tls |-> <<>>,
             backendTLS |-> <<>>, services |-> <<>>]

(* Errors of common.ToIR end the conversion before any feature runs.       *)
StartFeatures ==
  /\ stage = "common" /\ pc = "done"
  /\ IF errors # {}
     THEN stage' = "failed" /\ UNCHANGED <<todo, pir>>
     ELSE /\ stage' = "canary"
          /\ todo' = RuleGroups(input.list)
          /\ pir' = [http |-> ir.http, grpc |-> ir.grpc, gateways |-> ir.gateways, tls |-> <<>>,
                     backendTLS |-> <<>>, services |-> <<>>]
  /\ UNCHANGED <<vars, failed>>

(* Rule groups come in map order.  An index out of range is a panic.       *)
CanaryFeature ==
  /\ stage = "canary"
  /\ \E g \in todo :
       /\ todo' = todo \ {g}
       /\ failed' = failed \cup CanaryFailures(pir, g)
       /\ IF GroupRoute(g) \in DOMAIN pir.http /\ IndexPanics(pir.http[GroupRoute(g)])
          THEN stage' = "panic" /\ UNCHANGED pir
          ELSE pir' = Canary(pir, g) /\ UNCHANGED stage
  /\ UNCHANGED vars

(* featureParsers after canaryFeature.                                     *)
FeatureOrder ==
  <<"backendProtocol", "redirect", "headers", "regex", "backendTLS", "affinity", "sslPassthrough", "appRoot">>

StageAfter(feature) ==
  LET i == FirstIn({n \in 1..Len(FeatureOrder) : FeatureOrder[n] = feature})
  IN IF i = Len(FeatureOrder) THEN "converted" ELSE FeatureOrder[i + 1]

Reached(feature) ==
  stage = feature \/ (stage = "canary" /\ todo = {} /\ feature = FeatureOrder[1])

(* An error of a feature does not keep the next ones from running.         *)
Feature(feature, result) ==
  /\ Reached(feature)
  /\ pir' = result
  /\ stage' = StageAfter(feature)
  /\ UNCHANGED <<vars, todo>>

RedirectFeature == Feature("redirect", Redirect(pir)) /\ UNCHANGED failed
HeaderModifierFeature == Feature("headers", HeaderModifier(pir)) /\ UNCHANGED failed
RegexFeature == Feature("regex", Regex(pir)) /\ UNCHANGED failed
BackendTLSFeature == Feature("backendTLS", BackendTLS(pir)) /\ UNCHANGED failed
AppRootFeature == Feature("appRoot", AppRoot(pir)) /\ UNCHANGED failed

CreateBackendTLSPolicies ==
  /\ Feature("backendProtocol", pir)
  /\ failed' = failed \cup (IF UnresolvedBackends = {} THEN {} ELSE {"port"})

SessionAffinityFeature ==
  /\ \E order \in SetToSeqs({k \in DOMAIN pir.http : AffinityRoute(<<>>, pir.http[k]) # <<>>}) :
       Feature("affinity", SessionAffinity(pir, order))
  /\ UNCHANGED failed

SSLPassthroughFeature ==
  /\ ~PortPanics(pir)
  /\ \E order \in SetToSeqs({k \in DOMAIN pir.http : PassedThrough(pir.http[k])}) :
       Feature("sslPassthrough", Passthrough(pir, order))
  /\ UNCHANGED failed

PassthroughPanics ==
  /\ Reached("sslPassthrough") /\ PortPanics(pir)
  /\ stage' = "panic"
  /\ UNCHANGED <<vars, todo, pir, failed>>

NginxNext ==
  \/ Next /\ UNCHANGED nginxVars
  \/ StartFeatures \/ CanaryFeature
  \/ CreateBackendTLSPolicies \/ RedirectFeature \/ HeaderModifierFeature \/ RegexFeature
  \/ BackendTLSFeature \/ SessionAffinityFeature
  \/ SSLPassthroughFeature \/ PassthroughPanics \/ AppRootFeature

NginxSpec == NginxInit /\ [][NginxNext]_<<vars, nginxVars>>

-----------------------------------------------------------------------------
(* Where requests for the path of rule i go by common.ToIR, with the value *)
(* of the canary header they carry ("" for none): backends with shares.    *)
Shares(backends) ==
  {<<b.svc, IF b.weight = NoWeight THEN TotalWeight ELSE b.weight>> : b \in ToSet(backends)}

Goes(k, i, value) ==
  LET rules == pir.http[k].rules
      path  == ir.http[k].rules[i].matches
      exact == {n \in 1..Len(rules) : /\ [rules[n].matches[1] EXCEPT !.header = <<>>] = path[1]
                                      /\ rules[n].matches[1].header = <<value>>}
      plain == {n \in 1..Len(rules) : rules[n].matches = path}
  IN Shares(rules[FirstIn(IF exact # {} THEN exact ELSE plain)].backends)

Wanted(k, i, value) ==
  LET sources == ir.http[k].sources[i]
      config  == ConfigOf(sources)
      canary  == ir.http[k].rules[i].backends[CanaryIdx(sources)].svc
      stable  == ir.http[k].rules[i].backends[StableIdx(sources)].svc
      w       == IF config.weight \in 0..TotalWeight THEN config.weight
                 ELSE IF config.weight = NoWeight THEN 0 ELSE TotalWeight
      named   == IF config.value = NoValue THEN "always" ELSE config.value
  IN IF config.header /\ value = named THEN {<<canary, TotalWeight>>}
     ELSE IF config.header /\ (config.weight = NoWeight \/ (value = "never" /\ config.value = NoValue))
     THEN {<<stable, TotalWeight>>}
     ELSE {<<canary, w>>, <<stable, TotalWeight - w>>}

Split2(k, i) ==
  HasBoth(ir.http[k].sources[i]) => \A value \in {NoValue, "always", "never", "blue"} :
    Goes(k, i, value) = Wanted(k, i, value)

CanaryFinished == stage = "canary" /\ todo = {} /\ failed = {}

(* After canaryFeature, traffic of a path with a canary is split as the    *)
(* canary annotations say, by weight, by header or both - for the routes   *)
(* the feature finds by the name of their rule group.                      *)
CanaryTraffic ==
  CanaryFinished =>
    \A k \in DOMAIN ir.http : \A i \in 1..Len(ir.http[k].rules) :
      Unambiguous(k[1]) /\ (\E g \in RuleGroups(input.list) : GroupRoute(g) = k) => Split2(k, i)

(* Positions in the sources of a rule fit its backends until two rule      *)
(* groups with one route name both split the traffic of this route; the    *)
(* other panic takes a passthrough Ingress with a resource backend.        *)
PanicsExplained ==
  stage = "panic" =>
    \/ \E g, h \in RuleGroups(input.list) : g # h /\ GroupRoute(g) = GroupRoute(h)
    \/ \E o \in Occurrences : Ann(o.ing).passthrough /\ o.path.backend.port = 0
    \/ \E ing \in Ingresses : Ann(<<ing.ns, ing.name>>).passthrough /\ ing.default.port = 0

Converted == stage = "converted" /\ failed = {}

IsRedirect(rule) == \E f \in ToSet(rule.filters) : f[1] = "redirect"

(* "Gateway API forbids combining a RequestRedirect filter with backend    *)
(* references" (approot.go:95-96), and a rule without either would answer *)
(* with an error.                                                          *)
RulesAnswerOnce ==
  Converted => \A k \in DOMAIN pir.http : \A rule \in ToSet(pir.http[k].rules) :
    IsRedirect(rule) <=> rule.backends = <<>>

RouteRules(o) ==
  UNION {ToSet(pir.http[k].rules) :
    k \in {x \in DOMAIN pir.http : /\ pir.http[x].ns = o.ns /\ pir.http[x].host = o.host
                                   /\ pir.http[x].parent = o.class}}

AtPath(rule, o) ==
  \E m \in ToSet(rule.matches) : m.path = o.path.path /\ m.header = <<>>

SharedWithPassthrough(o) ==
  \E q \in Occurrences : /\ q.ns = o.ns /\ q.class = o.class /\ q.host = o.host
                         /\ q.protocol = o.protocol /\ Ann(q.ing).passthrough

Redirected(o) == \E rule \in RouteRules(o) : AtPath(rule, o) /\ <<"redirect", "url">> \in ToSet(rule.filters)

Backed(o) ==
  LET ref == ToBackendRef(o.ns, o.path.backend) IN
  \E rule \in RouteRules(o) : AtPath(rule, o) /\
     \/ \E b \in ToSet(rule.backends) : b.svc = ref.svc /\ b.port = ref.port
     \/ <<"redirect", "root">> \in ToSet(rule.filters)

Tunnelled(o) ==
  \E k \in DOMAIN pir.tls :
    /\ pir.tls[k].ns = o.ns /\ pir.tls[k].host = o.host /\ pir.tls[k].parent = o.class
    /\ [svc |-> o.path.backend.svc, port |-> ToBackendRef(o.ns, o.path.backend).port] \in pir.tls[k].backends
    /\ o.host # NoHost /\ <<o.ns, o.class>> \in DOMAIN pir.gateways =>
         \E l \in ToSet(pir.gateways[<<o.ns, o.class>>]) :
           l.name = pir.tls[k].section /\ l.mode = "Passthrough"

(* Paths that share a rule: a main Ingress and its canary.                 *)
SameRule(o, q) ==
  /\ o.ns = q.ns /\ o.class = q.class /\ o.host = q.host /\ o.protocol = q.protocol
  /\ o.path.type = q.path.type /\ o.path.path = q.path.path

(* No other main Ingress has the path.                                     *)
OnlyMain(o) ==
  ~Ann(o.ing).canary /\ \A q \in Occurrences : SameRule(o, q) /\ q.ing # o.ing => Ann(q.ing).canary

(* The features together lose no path of a main Ingress: it is redirected, *)
(* tunnelled to its backend through a listener that exists, or still sent  *)
(* to its backend, whatever the other Ingresses of the host ask for.  Of   *)
(* two main Ingresses with one path the first speaks for both, with an     *)
(* error or, where the feature does not find their route, without.         *)
PathsAccounted ==
  Converted => \A o \in Occurrences : LET a == Ann(o.ing) IN
    o.protocol = "http" /\ OnlyMain(o) /\ Unambiguous(o.ns) =>
      CASE a.redirect = "valid" -> SharedWithPassthrough(o) \/ Redirected(o)
        [] a.redirect # "valid" /\ a.passthrough -> Tunnelled(o)
        [] OTHER -> Backed(o)

=============================================================================
