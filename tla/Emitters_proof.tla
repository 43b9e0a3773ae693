--------------------------- MODULE Emitters_proof ---------------------------
(***************************************************************************)
(* TLAPS proofs about EmittersSpec: the conversion of ingress-nginx with   *)
(* the redirect passes and any of the five emitters after it, for any      *)
(* input and any order in which routes are visited and policies merged.    *)
(*                                                                         *)
(* SitesInv says where the routes of the ProviderIR come from, EmitInv     *)
(* what has become of each in the emitter IR, HeadedInv and PolicyInv      *)
(* where the policies of its rules are.                                    *)
(***************************************************************************)
EXTENDS Emitters, IngressNginx_proof

-----------------------------------------------------------------------------
(* Theorems                                                                *)

(* The emitters and the policies they emit leave the conversion alone: a   *)
(* step of a run of any emitter is one of convert or changes nothing of    *)
(* it, and what convert does to the IR of ToIR is not seen by ToIR.        *)
LEMMA EmitterSteps ==
  [EmittersNext]_emittersVars => [NginxNext]_<<vars, nginxVars>>
<1> SUFFICES ASSUME [EmittersNext]_emittersVars, ~UNCHANGED <<vars, nginxVars>>
             PROVE  NginxNext
  OBVIOUS
<1>1. ~UNCHANGED emittersVars
  BY DEF emittersVars, allVars
<1>2. ~EnvoyGatewayEmit /\ ~KgatewayEmit /\ ~AgentgatewayEmit /\ ~AirlockEmit
  BY DEF EnvoyGatewayEmit, KgatewayEmit, AgentgatewayEmit, AirlockEmit, Emits
<1>3. EmitNext
  BY <1>1, <1>2 DEF EmittersNext
<1>4. ~ApplyPolicies /\ ~AddRedirects /\ ~StartWWW /\ ~AddWWWRedirect /\ ~RejectWWW /\ ~CommonEmit /\ ~StandardEmit
  BY DEF ApplyPolicies, AddRedirects, StartWWW, AddWWWRedirect, RejectWWW, CommonEmit, StandardEmit
<1> QED
  BY <1>3, <1>4 DEF EmitNext

(* A step of convert is one of ToIR or changes nothing of it.              *)
LEMMA NginxSteps ==
  [NginxNext]_<<vars, nginxVars>> => [Next]_vars
<1> SUFFICES ASSUME NginxNext, ~UNCHANGED vars PROVE Next
  OBVIOUS
<1>1. /\ ~StartFeatures /\ ~CanaryFeature /\ ~CreateBackendTLSPolicies /\ ~RedirectFeature
      /\ ~HeaderModifierFeature /\ ~RegexFeature /\ ~BackendTLSFeature /\ ~SessionAffinityFeature
      /\ ~SSLPassthroughFeature /\ ~PassthroughPanics /\ ~AppRootFeature
  BY DEF StartFeatures, CanaryFeature, CreateBackendTLSPolicies, RedirectFeature, HeaderModifierFeature,
         RegexFeature, BackendTLSFeature, SessionAffinityFeature, SSLPassthroughFeature,
         PassthroughPanics, AppRootFeature, Feature
<1> QED
  BY <1>1 DEF NginxNext

(* A run of any emitter is a conversion by ingress-nginx, which is a run   *)
(* of ToIR: what is proved of these holds there.                           *)
THEOREM EmittersConvert == EmittersSpec => NginxSpec /\ Spec
<1>1. EmittersInit => NginxInit
  BY DEF EmittersInit, EmitInit
<1>2. NginxInit => Init
  BY DEF NginxInit
<1> QED
  BY <1>1, <1>2, EmitterSteps, NginxSteps, PTL DEF EmittersSpec, NginxSpec, Spec

(* The invariant holds after every step of convert.                        *)
LEMMA NginxStep ==
  ASSUME IInv, PathsInv, NginxInv, [NginxNext]_<<vars, nginxVars>>
  PROVE  NginxInv'
<1>1. CASE Next /\ UNCHANGED nginxVars
  BY <1>1, InputRead, NginxRests
<1>2. CASE UNCHANGED <<vars, nginxVars>>
  BY <1>2, NginxRests DEF vars
<1>3. CASE StartFeatures
  BY <1>3, StartStep
<1>4. CASE CanaryFeature
  BY <1>4, CanaryStep
<1>5. CASE CreateBackendTLSPolicies
  BY <1>5, PoliciesStep
<1>6. CASE RedirectFeature
  BY <1>6, RedirectStep
<1>7. CASE HeaderModifierFeature
  BY <1>7, HeaderModifierStep
<1>8. CASE RegexFeature
  BY <1>8, RegexStep
<1>9. CASE BackendTLSFeature
  BY <1>9, BackendTLSStep
<1>10. CASE SessionAffinityFeature
  BY <1>10, SessionAffinityStep
<1>11. CASE SSLPassthroughFeature
  BY <1>11, SSLPassthroughStep
<1>12. CASE PassthroughPanics
  BY <1>12, PortPanicStep
<1>13. CASE AppRootFeature
  BY <1>13, AppRootStep
<1> QED
  BY <1>1, <1>2, <1>3, <1>4, <1>5, <1>6, <1>7, <1>8, <1>9, <1>10, <1>11, <1>12, <1>13 DEF NginxNext

(* The invariant holds in every run of every emitter.                      *)
LEMMA NginxInvariant == EmittersSpec => []NginxInv
<1>1. NginxSpec /\ [](IInv /\ PathsInv) => []NginxInv
  BY NginxStart, NginxStep, PTL DEF NginxSpec
<1> QED
  BY <1>1, EmittersConvert, Invariant, PathsInvariant, PTL

(* The splits are right in every run of every emitter.                     *)
LEMMA CanaryInvariant == EmittersSpec => []CanaryInv
<1>1. NginxInit => CanaryInv
  BY DEF NginxInit, CanaryInv
<1>2. NginxSpec /\ [](IInv /\ PathsInv /\ NginxInv) => []CanaryInv
  BY <1>1, SplitsStep, PTL DEF NginxSpec
<1> QED
  BY <1>2, EmittersConvert, Invariant, PathsInvariant, NginxInvariant, PTL

(* A conversion panics in the canary feature only when two rule groups of  *)
(* one name both split the traffic of a route, and in the ssl-passthrough  *)
(* feature only for a passthrough Ingress with a resource backend.         *)
THEOREM PanicsAreExplained == EmittersSpec => []PanicsExplained
BY NginxInvariant, PTL DEF NginxInv

(* "Gateway API forbids combining a RequestRedirect filter with backend    *)
(* references" (approot.go:95-96): no order of features leaves a rule with *)
(* both, or with neither.                                                  *)
THEOREM RulesAnswer == EmittersSpec => []RulesAnswerOnce
<1>1. NginxInv => RulesAnswerOnce
  <2> SUFFICES ASSUME NginxInv, NEW k \in DOMAIN pir.http, NEW rule \in ToSet(pir.http[k].rules)
               PROVE  IsRedirect(rule) <=> rule.backends = <<>>
    BY DEF RulesAnswerOnce
  <2> PICK r : r = pir.http[k]
    OBVIOUS
  <2>1. GoodRoute(r)
    BY DEF NginxInv
  <2>2. PICK i \in DOMAIN r.rules : r.rules[i] = rule
    BY InToSet
  <2>3. GoodRule(r.ns, rule, r.sources[i])
    BY <2>1, <2>2 DEF GoodRoute
  <2> QED
    BY <2>3 DEF GoodRule
<1> QED
  BY <1>1, NginxInvariant, PTL

(* Traffic of a path with a canary is split as the canary annotations say, *)
(* by weight, by header or both, in whatever order the rule groups come,   *)
(* and also where two of them share a route.                               *)
THEOREM CanariesSplit == EmittersSpec => []CanaryTraffic
<1>1. IInv /\ PathsInv /\ MatchesInv /\ CanaryInv => CanaryTraffic
  <2> SUFFICES ASSUME IInv, PathsInv, MatchesInv, CanaryInv, CanaryFinished,
                      NEW k \in DOMAIN ir.http, NEW i \in 1..Len(ir.http[k].rules),
                      \E g \in RuleGroups(input.list) : GroupRoute(g) = k,
                      HasBoth(ir.http[k].sources[i]), NEW value
               PROVE  Goes(k, i, value) = Wanted(k, i, value)
    BY DEF CanaryTraffic, Split2
  <2> PICK r : r = ir.http[k]
    OBVIOUS
  <2>1. stage = "canary" /\ todo = {} /\ failed = {}
    BY DEF CanaryFinished
  <2>2. Visited(k)
    BY <2>1 DEF Visited
  <2>3. /\ pc = "done" /\ errors = {} /\ pir.http[k] = CanaryRoute(r)
        /\ \A j \in DOMAIN r.sources : CanaryErrors(r.sources[j]) = {}
    BY <2>1, <2>2 DEF CanaryInv
  <2>4. GoodRoute(r) /\ Untouched(r)
    BY <2>3, StoredGood
  <2>5. RouteFits(r)
    BY <2>4, UntouchedFits, NoIndexPanics
  <2>6. i \in DOMAIN r.rules /\ i \in DOMAIN r.sources
    BY <2>4, ListShape DEF GoodRoute
  <2>7. Matched(r) /\ Splits(r.rules[i], r.sources[i])
    BY <2>3, <2>6, SplitReady
  <2>8. Answer(CanaryRoute(r).rules, r.rules[i].matches, value) = WantedOf(r.rules[i], r.sources[i], value)
    BY <2>4, <2>5, <2>6, <2>7, RouteSplits
  <2>9. Goes(k, i, value) = Answer(pir.http[k].rules, ir.http[k].rules[i].matches, value)
    BY DEF Goes, Answer, ExactAt, PlainAt
  <2>10. Wanted(k, i, value) = WantedOf(ir.http[k].rules[i], ir.http[k].sources[i], value)
    BY DEF Wanted, WantedOf
  <2> QED
    BY <2>3, <2>8, <2>9, <2>10
<1> QED
  BY <1>1, CanaryInvariant, EmittersConvert, Invariant, PathsInvariant, MatchesInvariant, PTL

(* Paths are followed through every run of every emitter.                  *)
LEMMA FlowsInvariant == EmittersSpec => []FlowsInv
<1>1. NginxInit => FlowsInv
  BY DEF NginxInit, FlowsInv, AfterRedirect
<1>2. NginxSpec /\ [](IInv /\ PathsInv /\ ShapesInv /\ NginxInv /\ CanaryInv) => []FlowsInv
  BY <1>1, FlowsStep, PTL DEF NginxSpec
<1> QED
  BY <1>2, EmittersConvert, Invariant, PathsInvariant, ShapesInvariant, NginxInvariant, CanaryInvariant, PTL

(* The features together lose no path of a main Ingress, whichever         *)
(* annotations meet in its route and in whatever order the canaries, the   *)
(* Services and the passthrough listeners are visited: the path is         *)
(* redirected, tunnelled to its backend through a listener that exists, or *)
(* sent to its backend.                                                    *)
THEOREM PathsAreAccounted == EmittersSpec => []PathsAccounted
<1>1. FlowsInv => PathsAccounted
  BY DEF FlowsInv, PathsAccounted, Converted, Tracked, Accounted
<1> QED
  BY <1>1, FlowsInvariant, PTL

-----------------------------------------------------------------------------
(* The routes of ToIR that the routes of the features come from.           *)
MatchParts == {"type", "path", "header"}

SitedRule(host, rule) ==
  /\ IsList(rule.matches) /\ \A m \in ToSet(rule.matches) : DOMAIN m = MatchParts
  /\ rule.matches = <<>> => host = NoHost
  /\ \A f \in ToSet(rule.filters) : f[1] = "redirect" => f[2] \in {"url", "root"}

OnlyRoots(rule) == \A m \in ToSet(rule.matches) : m.path = <<>>

Sited(a, r) ==
  /\ SameHead(a, r)
  /\ DOMAIN r.rules = DOMAIN r.sources
  /\ r.rules # <<>> => a.rules # <<>>
  /\ \A i \in DOMAIN r.rules : SitedRule(r.host, r.rules[i])
  /\ AtDefault(a) => \A i \in DOMAIN r.rules : OnlyRoots(r.rules[i])

AfterCanary == {"redirect"} \cup AfterRedirect \cup {"appRoot", "converted"}

ListenersStay(old, new) ==
  DOMAIN new = DOMAIN old /\ \A gw \in DOMAIN old : ToSet(old[gw]) \subseteq ToSet(new[gw])

SitesInv ==
  /\ stage = "canary" => pir.gateways = ir.gateways
  /\ stage \in AfterCanary =>
       /\ pc = "done" /\ errors = {}
       /\ DOMAIN pir.http \subseteq DOMAIN ir.http
       /\ \A k \in DOMAIN pir.http : Sited(ir.http[k], pir.http[k])
       /\ Mixed(pir.gateways) /\ ListenersStay(ir.gateways, pir.gateways)

(* A redirect more.                                                        *)
LEMMA SitedRedirects ==
  ASSUME NEW host, NEW rule, SitedRule(host, rule), DOMAIN rule = RuleParts, IsList(rule.filters),
         NEW target \in {"url", "root"}, NEW new, new = Redirecting(rule, <<"redirect", target>>)
  PROVE  SitedRule(host, new) /\ new.matches = rule.matches
<1> PICK f : f = <<"redirect", target>>
  OBVIOUS
<1> PICK fs : fs = rule.filters
  OBVIOUS
<1>1. new.matches = rule.matches /\ new.filters = Append(fs, f)
  BY DEF Redirecting, RuleParts
<1>2. ToSet(new.filters) = ToSet(fs) \cup {f} /\ f[2] = target
  BY <1>1, ListAppended
<1> QED
  BY <1>1, <1>2 DEF SitedRule

(* A redirect to the app root among them.                                  *)
LEMMA SitedRoots ==
  ASSUME NEW host, NEW rule, SitedRule(host, rule), DOMAIN rule = RuleParts, IsList(rule.filters),
         NEW new, new = Redirecting(rule, <<"redirect", "root">>)
  PROVE  SitedRule(host, new) /\ new.matches = rule.matches
BY SitedRedirects

(* A filter more.                                                         *)
LEMMA SitedHeaders ==
  ASSUME NEW host, NEW rule, SitedRule(host, rule), DOMAIN rule = RuleParts, IsList(rule.filters),
         NEW new, new = SettingHeaders(rule)
  PROVE  SitedRule(host, new) /\ new.matches = rule.matches
<1> PICK f : f = <<"headers", "set">>
  OBVIOUS
<1> PICK fs : fs = rule.filters
  OBVIOUS
<1>1. new.matches = rule.matches /\ new.filters = Append(fs, f)
  BY DEF SettingHeaders, RuleParts
<1>2. ToSet(new.filters) = ToSet(fs) \cup {f} /\ f[1] = "headers"
  BY <1>1, ListAppended
<1> QED
  BY <1>1, <1>2 DEF SitedRule

(* Matches of another type.                                                *)
LEMMA SitedRegex ==
  ASSUME NEW host, NEW rule, SitedRule(host, rule), DOMAIN rule = RuleParts,
         NEW new, new = RegexRule(rule)
  PROVE  SitedRule(host, new) /\ (OnlyRoots(rule) => OnlyRoots(new))
<1> PICK ms : ms = rule.matches
  OBVIOUS
<1>1. new.matches = RegexMatches(ms) /\ new.filters = rule.filters
  BY DEF RegexRule, RuleParts
<1>2. IsList(ms)
  BY DEF SitedRule
<1>3. Len(ms) \in Nat /\ DOMAIN ms = 1..Len(ms)
  BY <1>2, ListShape
<1> DEFINE X == {[m EXCEPT !.type = "Regex"] : m \in ToSet(ms)}
           f == RegexMatches(ms)
<1>4. f = [j \in 1..Len(ms) |-> [ms[j] EXCEPT !.type = "Regex"]]
  BY DEF RegexMatches
<1>5. DOMAIN f = DOMAIN ms /\ \A j \in DOMAIN ms : f[j] = [ms[j] EXCEPT !.type = "Regex"] /\ ms[j] \in ToSet(ms)
  BY <1>3, <1>4, InToSet
<1>6. f \in [DOMAIN ms -> X]
  <2>1. \A j \in DOMAIN ms : f[j] \in X
    BY <1>5
  <2>2. f = [j \in DOMAIN ms |-> f[j]]
    BY <1>3, <1>4
  <2> HIDE DEF f, X
  <2> QED
    BY <2>1, <2>2
<1> HIDE DEF f, X
<1>7. IsList(f) /\ (f = <<>> <=> ms = <<>>)
  BY <1>2, <1>6, MadeList
<1>8. ASSUME NEW m \in ToSet(f) PROVE DOMAIN m = MatchParts /\ \E o \in ToSet(ms) : m.path = o.path
  <2>1. PICK j \in DOMAIN f : f[j] = m
    BY <1>8, InToSet
  <2>2. f[j] = [ms[j] EXCEPT !.type = "Regex"] /\ ms[j] \in ToSet(ms)
    BY <1>5, <2>1
  <2>3. DOMAIN ms[j] = MatchParts
    BY <2>2 DEF SitedRule
  <2>4. /\ [ms[j] EXCEPT !.type = "Regex"].path = ms[j].path
        /\ DOMAIN [ms[j] EXCEPT !.type = "Regex"] = MatchParts
    BY <2>3 DEF MatchParts
  <2> QED
    BY <2>1, <2>2, <2>4
<1>9. new.matches = f
  BY <1>1 DEF f
<1> QED
  BY <1>1, <1>7, <1>8, <1>9 DEF SitedRule, OnlyRoots

(* Rule by rule, a route stays like the one it comes from.                 *)
LEMMA SitedOn ==
  ASSUME NEW a, NEW r, Sited(a, r), GoodRoute(r), NEW q, GoodRoute(q),
         SameHead(r, q), q.sources = r.sources, DOMAIN q.rules = DOMAIN r.rules,
         \A i \in DOMAIN r.rules : /\ SitedRule(r.host, q.rules[i])
                                   /\ OnlyRoots(r.rules[i]) => OnlyRoots(q.rules[i])
  PROVE  Sited(a, q)
<1>1. q.rules = <<>> <=> r.rules = <<>>
  BY ListShape DEF GoodRoute
<1> QED
  BY <1>1 DEF Sited, SameHead

(* The features that change rule by rule.                                  *)
LEMMA FeaturesSite ==
  ASSUME NEW a, NEW r, Sited(a, r), GoodRoute(r)
  PROVE  /\ Sited(a, RedirectRoute(r)) /\ Sited(a, HeaderModifierRoute(r)) /\ Sited(a, RegexRoute(r))
<1>1. DOMAIN r.rules = 1..Len(r.rules) /\ DOMAIN r = RouteParts
  BY ListShape DEF GoodRoute
<1>2. /\ \A i \in DOMAIN r.rules : SitedRule(r.host, r.rules[i])
      /\ \A i \in DOMAIN r.rules : DOMAIN r.rules[i] = RuleParts /\ IsList(r.rules[i].filters)
  BY DEF Sited, GoodRoute, GoodRule
<1>3. ASSUME NEW f, f = [i \in 1..Len(r.rules) |-> f[i]], NEW q, q = [r EXCEPT !.rules = f], GoodRoute(q),
             \A i \in DOMAIN r.rules : /\ SitedRule(r.host, f[i])
                                       /\ OnlyRoots(r.rules[i]) => OnlyRoots(f[i])
      PROVE  Sited(a, q)
  <2>1. SameHead(r, q) /\ q.sources = r.sources /\ q.rules = f /\ DOMAIN f = DOMAIN r.rules
    BY <1>3, HeadKept
  <2> QED
    BY <1>3, <2>1, SitedOn
<1>4. Sited(a, RedirectRoute(r))
  <2> DEFINE New(i) == Redirecting(r.rules[i], <<"redirect", "url">>)
             f == [i \in 1..Len(r.rules) |-> IF AsksRedirect(r, i) THEN New(i) ELSE r.rules[i]]
  <2>1. RedirectRoute(r) = [r EXCEPT !.rules = f]
    BY <1>1 DEF RedirectRoute, RouteParts
  <2>2. f = [i \in 1..Len(r.rules) |-> f[i]]
        /\ \A i \in DOMAIN r.rules : f[i] = New(i) \/ f[i] = r.rules[i]
    BY <1>1
  <2> HIDE DEF f
  <2>3. \A i \in DOMAIN r.rules : SitedRule(r.host, New(i)) /\ (OnlyRoots(r.rules[i]) => OnlyRoots(New(i)))
    BY <1>2, SitedRedirects DEF OnlyRoots
  <2>4. GoodRoute(RedirectRoute(r))
    BY RedirectRouteHolds
  <2> HIDE DEF New
  <2>5. \A i \in DOMAIN r.rules : SitedRule(r.host, f[i]) /\ (OnlyRoots(r.rules[i]) => OnlyRoots(f[i]))
    BY <1>2, <2>2, <2>3
  <2> QED
    BY <1>3, <2>1, <2>2, <2>4, <2>5
<1>5. Sited(a, HeaderModifierRoute(r))
  <2> DEFINE New(i) == SettingHeaders(r.rules[i])
             f == [i \in 1..Len(r.rules) |-> IF AsksHeaders(r, i) THEN New(i) ELSE r.rules[i]]
  <2>1. HeaderModifierRoute(r) = [r EXCEPT !.rules = f]
    BY <1>1 DEF HeaderModifierRoute, RouteParts
  <2>2. f = [i \in 1..Len(r.rules) |-> f[i]]
        /\ \A i \in DOMAIN r.rules : f[i] = New(i) \/ f[i] = r.rules[i]
    BY <1>1
  <2> HIDE DEF f
  <2>3. \A i \in DOMAIN r.rules : SitedRule(r.host, New(i)) /\ (OnlyRoots(r.rules[i]) => OnlyRoots(New(i)))
    BY <1>2, SitedHeaders DEF OnlyRoots
  <2>4. GoodRoute(HeaderModifierRoute(r))
    BY HeaderModifierHolds
  <2> HIDE DEF New
  <2>5. \A i \in DOMAIN r.rules : SitedRule(r.host, f[i]) /\ (OnlyRoots(r.rules[i]) => OnlyRoots(f[i]))
    BY <1>2, <2>2, <2>3
  <2> QED
    BY <1>3, <2>1, <2>2, <2>4, <2>5
<1>6. Sited(a, RegexRoute(r))
  <2> DEFINE New(i) == RegexRule(r.rules[i])
             f == [i \in 1..Len(r.rules) |-> New(i)]
  <2>1. RegexRoute(r) = r \/ RegexRoute(r) = [r EXCEPT !.rules = f]
    BY <1>1 DEF RegexRoute, RouteParts
  <2>2. f = [i \in 1..Len(r.rules) |-> f[i]] /\ \A i \in DOMAIN r.rules : f[i] = New(i)
    BY <1>1
  <2> HIDE DEF f
  <2>3. \A i \in DOMAIN r.rules : SitedRule(r.host, New(i)) /\ (OnlyRoots(r.rules[i]) => OnlyRoots(New(i)))
    BY <1>2, SitedRegex
  <2>4. GoodRoute(RegexRoute(r))
    BY RegexRouteHolds
  <2> HIDE DEF New
  <2>5. \A i \in DOMAIN r.rules : SitedRule(r.host, f[i]) /\ (OnlyRoots(r.rules[i]) => OnlyRoots(f[i]))
    BY <1>2, <2>2, <2>3
  <2> QED
    BY <1>3, <2>1, <2>2, <2>4, <2>5
<1> QED
  BY <1>4, <1>5, <1>6

(* The match of a path.                                                    *)
LEMMA PathMatch ==
  ASSUME NEW c, NEW ms, ms = HTTPMatch(c)
  PROVE  IsList(ms) /\ ms # <<>> /\ \A m \in ToSet(ms) : DOMAIN m = MatchParts
<1> PICK m : m = [type |-> c[1], path |-> c[2], header |-> <<>>]
  OBVIOUS
<1>1. ms = <<m>> /\ DOMAIN m = MatchParts
  BY DEF HTTPMatch, MatchParts
<1>2. m \in {m} /\ <<m>> # <<>>
  OBVIOUS
<1>3. <<m>> \in Seq({m}) /\ ToSet(<<m>>) = {m}
  BY <1>2, LiteralHolds
<1>4. IsList(<<m>>)
  BY <1>3, SeqIsList
<1> QED
  BY <1>1, <1>2, <1>3, <1>4

(* What common.ToIR stores.                                                *)
LEMMA StoredSited ==
  ASSUME NEW a, Full(a), OfRules(a) \/ AtDefault(a), NEW i \in DOMAIN a.rules
  PROVE  SitedRule(a.host, a.rules[i]) /\ (AtDefault(a) => OnlyRoots(a.rules[i]))
<1>1. a.rules[i].filters = <<>> /\ ToSet(<<>>) = {}
  BY EmptyList DEF Full
<1>2. CASE AtDefault(a)
  <2>1. a.rules[i].matches = <<>> /\ a.host = NoHost
    BY <1>2 DEF AtDefault
  <2> QED
    BY <1>1, <2>1, EmptyList DEF SitedRule, OnlyRoots
<1>3. CASE OfRules(a) /\ ~AtDefault(a)
  <2>1. PICK c : a.rules[i].matches = HTTPMatch(c)
    BY <1>3 DEF OfRules
  <2> QED
    BY <1>1, <1>3, <2>1, PathMatch DEF SitedRule
<1> QED
  BY <1>2, <1>3

(* A rule for a header.                                                    *)
LEMMA HeaderSited ==
  ASSUME NEW host, NEW rule, NEW sources, NEW h \in ToSet(HeaderRules(rule, sources))
  PROVE  SitedRule(host, h)
<1>1. PICK value, b : h = HeaderRule(rule, value, b)
  BY HeaderRulesAre
<1> PICK m : m = [type |-> rule.matches[1].type, path |-> rule.matches[1].path, header |-> <<value>>]
  OBVIOUS
<1>2. h.matches = <<m>> /\ h.filters = <<>> /\ DOMAIN m = MatchParts
  BY <1>1 DEF HeaderRule, MatchParts
<1>3. IsList(h.matches) /\ h.matches # <<>> /\ \A x \in ToSet(h.matches) : x = m
  <2>1. m \in {m} /\ <<m>> # <<>>
    OBVIOUS
  <2>2. <<m>> \in Seq({m}) /\ ToSet(<<m>>) = {m}
    BY <2>1, LiteralHolds
  <2>3. IsList(<<m>>)
    BY <2>2, SeqIsList
  <2> QED
    BY <1>2, <2>1, <2>2, <2>3
<1> QED
  BY <1>2, <1>3, EmptyList DEF SitedRule

(* Without a second backend there is no canary.                            *)
LEMMA LoneHasNoCanary ==
  ASSUME NEW s, IsList(s), DOMAIN s = {1}
  PROVE  ~HasBoth(s)
BY BothFound

(* A route after canaryFeature.                                            *)
LEMMA CanarySites ==
  ASSUME NEW a, Full(a), OfRules(a) \/ AtDefault(a), GoodRoute(a), RouteFits(a),
         NEW q, q = a \/ q = CanaryRoute(a)
  PROVE  Sited(a, q)
<1>1. SameHead(a, q)
  BY HeadsKept DEF SameHead
<1>2. DOMAIN q.rules = DOMAIN q.sources
  BY CanaryAligned DEF Aligned, Full
<1>3. CASE q = a
  BY <1>1, <1>2, <1>3, StoredSited DEF Sited
<1>4. CASE q = CanaryRoute(a)
  <2>1. Grown(a, q.rules)
    BY <1>4, CanaryRules
  <2>2. ASSUME NEW n \in DOMAIN q.rules
        PROVE  SitedRule(a.host, q.rules[n]) /\ (AtDefault(a) => OnlyRoots(q.rules[n]))
    <3>1. CASE n \in DOMAIN a.rules
      <4>1. q.rules[n] = CanaryRule(a.rules[n], a.sources[n]) /\ DOMAIN a.rules[n] = RuleParts
        BY <2>1, <3>1 DEF Grown, GoodRoute, GoodRule
      <4>2. q.rules[n].matches = a.rules[n].matches
        BY <4>1, MatchesKept
      <4>3. q.rules[n].filters = a.rules[n].filters
        BY <4>1 DEF CanaryRule, Weighted, RuleParts
      <4>4. SitedRule(a.host, a.rules[n]) /\ (AtDefault(a) => OnlyRoots(a.rules[n]))
        BY <3>1, StoredSited
      <4> QED
        BY <4>2, <4>3, <4>4 DEF SitedRule, OnlyRoots
    <3>2. CASE n \notin DOMAIN a.rules
      <4>1. PICK i \in DOMAIN a.rules : q.rules[n] \in ToSet(HeaderRules(a.rules[i], a.sources[i]))
        BY <2>1, <2>2, <3>2 DEF Grown
      <4>2. SitedRule(a.host, q.rules[n])
        BY <4>1, HeaderSited
      <4>3. ~AtDefault(a)
        <5>1. SUFFICES ASSUME AtDefault(a) PROVE FALSE
          OBVIOUS
        <5>2. IsList(a.sources[i]) /\ DOMAIN a.sources[i] = {1}
          BY <4>1, <5>1 DEF AtDefault, GoodRoute
        <5>3. HasBoth(a.sources[i])
          BY <4>1, HeaderRulesAre DEF ByHeader
        <5> QED
          BY <5>2, <5>3, LoneHasNoCanary
      <4> QED
        BY <4>2, <4>3
    <3> QED
      BY <3>1, <3>2
  <2>3. q.rules # <<>> => a.rules # <<>>
    <3>1. SUFFICES ASSUME q.rules # <<>>, a.rules = <<>> PROVE FALSE
      OBVIOUS
    <3>2. PICK n : n \in DOMAIN q.rules
      <4> PICK rules : rules = q.rules
        OBVIOUS
      <4>1. IsList(rules) /\ rules # <<>>
        BY <2>1, <3>1 DEF Grown
      <4>2. DOMAIN rules # {}
        BY <4>1, ListShape
      <4> QED
        BY <4>2
    <3>3. \E i : i \in DOMAIN a.rules
      BY <2>1, <3>2 DEF Grown
    <3> QED
      BY <3>1, <3>3
  <2>4. q.host = a.host
    BY <1>1 DEF SameHead
  <2> QED
    BY <1>1, <1>2, <2>2, <2>3, <2>4 DEF Sited
<1> QED
  BY <1>3, <1>4

(* A route after stripPassthroughRules: rules go, those that stay keep     *)
(* their matches and filters.                                              *)
LEMMA StripSites ==
  ASSUME NEW a, NEW r, Sited(a, r), GoodRoute(r), NEW q, q = Strip(r)
  PROVE  Sited(a, q)
<1> DEFINE stays(i) == {j \in DOMAIN r.rules[i].backends : HasSource(r, i, j) => ~IsPassthrough(r.sources[i][j])}
           kept(i) == Keep(Positions(r.rules[i].backends), stays(i))
           full == {i \in DOMAIN r.rules : kept(i) # <<>>}
           rest == Keep(Positions(r.rules), full)
           sourced(i) == Keep(kept(i), {j \in stays(i) : HasSource(r, i, j)})
           rules == [n \in DOMAIN rest |-> WithBackends(r.rules[rest[n]], kept(rest[n]))]
           sources == [n \in DOMAIN rest |->
                         [m \in DOMAIN sourced(rest[n]) |-> r.sources[rest[n]][sourced(rest[n])[m]]]]
           new == [r EXCEPT !.rules = rules, !.sources = sources]
<1>1. DOMAIN r = RouteParts /\ IsList(r.rules)
  BY Zenon DEF GoodRoute
<1>2. q = new
  BY ZenonT(30) DEF Strip
<1>3. /\ DOMAIN rules = DOMAIN rest /\ DOMAIN sources = DOMAIN rest
      /\ \A n \in DOMAIN rest : rules[n] = WithBackends(r.rules[rest[n]], kept(rest[n]))
  BY Zenon
<1>4. full \subseteq DOMAIN r.rules
  BY Zenon
<1>5. SameHead(r, new) /\ new.rules = rules /\ new.sources = sources
  BY <1>1, Zenon DEF RouteParts, SameHead
<1> HIDE DEF full, kept, sourced, stays, rules, sources, new
<1>6. IsList(rest) /\ ToSet(rest) = full
  BY <1>1, <1>4, PositionsKept
<1> HIDE DEF rest
<1>7. ASSUME NEW n \in DOMAIN rules
      PROVE  \E i \in DOMAIN r.rules : rules[n].matches = r.rules[i].matches /\ rules[n].filters = r.rules[i].filters
  <2>1. rest[n] \in DOMAIN r.rules
    BY <1>3, <1>4, <1>6, InToSet
  <2>2. DOMAIN r.rules[rest[n]] = RuleParts
    BY <2>1 DEF GoodRoute, GoodRule
  <2>3. /\ rules[n].matches = r.rules[rest[n]].matches /\ rules[n].filters = r.rules[rest[n]].filters
    BY <1>3, <2>2 DEF WithBackends, RuleParts
  <2> QED
    BY <2>1, <2>3
<1>8. \A n \in DOMAIN rules : SitedRule(r.host, rules[n]) /\ (AtDefault(a) => OnlyRoots(rules[n]))
  BY <1>7 DEF Sited, SitedRule, OnlyRoots
<1>9. rules # <<>> => r.rules # <<>>
  <2>1. SUFFICES ASSUME r.rules = <<>> PROVE rules = <<>>
    OBVIOUS
  <2>2. DOMAIN rules = {}
    <3>1. DOMAIN r.rules = {}
      BY <1>1, <2>1, ListShape
    <3> QED
      BY <1>7, <3>1
  <2>3. GoodRoute(new)
    BY <1>2, StripHolds
  <2>4. IsList(rules)
    BY <1>5, <2>3 DEF GoodRoute
  <2> QED
    BY <2>2, <2>4, ListShape
<1> QED
  BY <1>2, <1>3, <1>5, <1>8, <1>9 DEF Sited, SameHead

(* A route after appRootFeature.                                           *)
LEMMA AppRootSites ==
  ASSUME NEW a, NEW r, Sited(a, r), GoodRoute(r), NEW q, q = AppRootRoute(r)
  PROVE  Sited(a, q)
<1> DEFINE S == {i \in 1..Len(r.rules) : AsksAppRoot(r, i)}
           filter == <<"redirect", "root">>
           match == [type |-> "Exact", path |-> <<>>, header |-> <<>>]
           rule == [matches |-> <<match>>, filters |-> <<filter>>, backends |-> <<>>]
           joined == [r EXCEPT !.rules = Append(@, rule), !.sources = Append(@, <<>>)]
           changed == [r EXCEPT !.rules[FirstIn(S)] = Redirecting(@, filter)]
<1>1. DOMAIN r = RouteParts /\ IsList(r.rules) /\ DOMAIN r.rules = 1..Len(r.rules) /\ Len(r.rules) \in Nat
  BY ListShape DEF GoodRoute
<1>2. \/ q = r
      \/ FirstIn(S) # 0 /\ q = changed
      \/ FirstIn(S) # 0 /\ q = joined
  BY DEF AppRootRoute
<1>3. GoodRoute(q)
  BY AppRootHolds
<1>4. CASE FirstIn(S) # 0 /\ q = joined
  <2>1. r.rules # <<>>
    <3>1. S # {} /\ S \subseteq 1..Len(r.rules)
      BY <1>4 DEF FirstIn
    <3> QED
      BY <1>1, <3>1
  <2>2. match \in {match} /\ <<match>> # <<>> /\ match.path = <<>> /\ DOMAIN match = MatchParts
    BY DEF MatchParts
  <2>3. filter \in {filter} /\ filter[2] = "root"
    OBVIOUS
  <2>4. rule.matches = <<match>> /\ rule.filters = <<filter>>
    OBVIOUS
  <2> HIDE DEF rule, match, filter
  <2>5. ToSet(<<match>>) = {match} /\ ToSet(<<filter>>) = {filter} /\ IsList(<<match>>)
    BY <2>2, <2>3, LiteralHolds, SeqIsList
  <2>6. SitedRule(r.host, rule) /\ OnlyRoots(rule)
    BY <2>2, <2>3, <2>4, <2>5 DEF SitedRule, OnlyRoots
  <2>7. SameHead(r, q) /\ q.rules = Append(r.rules, rule) /\ q.sources = Append(r.sources, <<>>)
    BY <1>1, <1>4 DEF RouteParts, SameHead
  <2>8. OneLonger(q.rules, r.rules, rule) /\ OneLonger(q.sources, r.sources, <<>>)
    BY <2>7, OneMore DEF GoodRoute
  <2>9. DOMAIN r.sources = 1..Len(r.sources) /\ DOMAIN r.sources = DOMAIN r.rules /\ Len(r.sources) = Len(r.rules)
    <3>1. IsList(r.sources) /\ DOMAIN r.rules = DOMAIN r.sources
      BY DEF GoodRoute, Sited
    <3> QED
      BY <1>1, <3>1, SameLength, ListShape
  <2>10. DOMAIN q.rules = DOMAIN q.sources
    BY <2>8, <2>9 DEF OneLonger
  <2>11. \A i \in DOMAIN q.rules : q.rules[i] = rule \/ (i \in DOMAIN r.rules /\ q.rules[i] = r.rules[i])
    <3>1. DOMAIN q.rules = 1..Len(r.rules) + 1 /\ q.rules[Len(r.rules) + 1] = rule
          /\ \A i \in DOMAIN r.rules : q.rules[i] = r.rules[i]
      BY <2>8 DEF OneLonger
    <3>2. ASSUME NEW i \in DOMAIN q.rules, i # Len(r.rules) + 1 PROVE i \in DOMAIN r.rules
      BY <1>1, <3>1, <3>2
    <3> QED
      BY <3>1, <3>2
  <2> QED
    BY <2>1, <2>6, <2>7, <2>10, <2>11 DEF Sited, SameHead
<1>5. CASE FirstIn(S) # 0 /\ q = changed
  <2> PICK n : n = FirstIn(S)
    OBVIOUS
  <2> PICK new : new = Redirecting(r.rules[n], filter)
    OBVIOUS
  <2> DEFINE f == [i \in 1..Len(r.rules) |-> IF i = n THEN new ELSE r.rules[i]]
  <2>1. changed = [r EXCEPT !.rules = f]
    <3>1. changed = [r EXCEPT !.rules = [r.rules EXCEPT ![n] = new]]
      BY <1>1 DEF RouteParts
    <3>2. [r.rules EXCEPT ![n] = new] = f
      BY <1>1
    <3> QED
      BY <3>1, <3>2
  <2>2. f = [i \in 1..Len(r.rules) |-> f[i]]
        /\ \A i \in DOMAIN r.rules : f[i] = r.rules[i] \/ (i = n /\ f[i] = new)
    BY <1>1
  <2> HIDE DEF f
  <2>3. SameHead(r, q) /\ q.sources = r.sources /\ q.rules = f /\ DOMAIN f = DOMAIN r.rules
    BY <1>5, <2>1, <2>2, HeadKept
  <2>4. n \in DOMAIN r.rules => SitedRule(r.host, new) /\ (OnlyRoots(r.rules[n]) => OnlyRoots(new))
    <3>1. SUFFICES ASSUME n \in DOMAIN r.rules
                   PROVE  SitedRule(r.host, new) /\ (OnlyRoots(r.rules[n]) => OnlyRoots(new))
      OBVIOUS
    <3> PICK o : o = r.rules[n]
      OBVIOUS
    <3>2. SitedRule(r.host, o) /\ DOMAIN o = RuleParts /\ IsList(o.filters)
      BY <3>1 DEF Sited, GoodRoute, GoodRule
    <3>3. new = Redirecting(o, <<"redirect", "root">>)
      OBVIOUS
    <3>4. SitedRule(r.host, new) /\ new.matches = o.matches
      BY <3>2, <3>3, SitedRoots
    <3> QED
      BY <3>4 DEF OnlyRoots
  <2>5. \A i \in DOMAIN r.rules : SitedRule(r.host, r.rules[i])
    BY DEF Sited
  <2> QED
    BY <1>3, <2>2, <2>3, <2>4, <2>5, SitedOn
<1> QED
  BY <1>2, <1>4, <1>5

(* addPassthroughListeners takes no listener away.                         *)
LEMMA TunnelsAdd ==
  ASSUME NEW gws, Mixed(gws), NEW r, NamedHost(r.host), NEW new, new = WithPassthroughListener(gws, r)
  PROVE  Mixed(new) /\ ListenersStay(gws, new)
<1>1. Mixed(new)
  BY TunnelBuilt
<1>2. ListenersStay(gws, new)
  <2> DEFINE gw == <<r.ns, r.parent>>
             found == \E x \in ToSet(gws[gw]) : x.name = TLSSection(r.host)
             l == [name |-> TLSSection(r.host), host |-> r.host, port |-> 443, certs |-> {}, mode |-> "Passthrough"]
  <2>0. new = IF gw \notin DOMAIN gws \/ r.host = NoHost \/ found THEN gws
              ELSE [gws EXCEPT ![gw] = Append(gws[gw], l)]
    BY DEF WithPassthroughListener
  <2> HIDE DEF gw, found, l
  <2>1. new = gws \/ (gw \in DOMAIN gws /\ new = [gws EXCEPT ![gw] = Append(gws[gw], l)])
    BY <2>0
  <2>2. CASE new = gws
    BY <2>2 DEF ListenersStay
  <2>3. CASE gw \in DOMAIN gws /\ new = [gws EXCEPT ![gw] = Append(gws[gw], l)]
    <3>1. DOMAIN new = DOMAIN gws /\ new[gw] = Append(gws[gw], l) /\ \A x \in DOMAIN gws \ {gw} : new[x] = gws[x]
      BY <2>3
    <3>2. ToSet(new[gw]) = ToSet(gws[gw]) \cup {l}
      BY <2>3, <3>1, ListAppended DEF Mixed
    <3> QED
      BY <3>1, <3>2 DEF ListenersStay
  <2> QED
    BY <2>1, <2>2, <2>3
<1> QED
  BY <1>1, <1>2

(* The listeners of all tunnels, in any order of the routes.                *)
LEMMA AllTunnelsAdd ==
  ASSUME NEW p, Mixed(p.gateways), NEW S, \A k \in S : NamedHost(p.http[k].host), NEW order \in Seq(S)
  PROVE  /\ Mixed(WithPassthroughListeners(p, order))
         /\ ListenersStay(p.gateways, WithPassthroughListeners(p, order))
<1>1. Len(order) \in Nat /\ \A i \in 1..Len(order) : order[i] \in S
  OBVIOUS
<1>2. PICK f : /\ WithPassthroughListeners(p, order) = f[Len(order)]
               /\ f[0] = p.gateways
               /\ \A i \in 1 .. Len(order) : f[i] = WithPassthroughListener(f[i - 1], p.http[order[i]])
  BY TunnelsLoop
<1> DEFINE T == {i \in 0..Len(order) : Mixed(f[i]) /\ ListenersStay(p.gateways, f[i])}
<1>3. 0 \in T
  BY <1>1, <1>2 DEF ListenersStay
<1>4. ASSUME NEW i \in 0..Len(order) - 1, i \in T PROVE i + 1 \in T
  <2>1. i + 1 \in 1..Len(order) /\ i + 1 \in 0..Len(order) /\ (i + 1) - 1 = i
    BY <1>1
  <2>2. f[i + 1] = WithPassthroughListener(f[i], p.http[order[i + 1]])
    BY <1>2, <2>1
  <2>3. NamedHost(p.http[order[i + 1]].host) /\ Mixed(f[i])
    BY <1>1, <1>4, <2>1
  <2>4. Mixed(f[i + 1]) /\ ListenersStay(f[i], f[i + 1])
    BY <2>2, <2>3, TunnelsAdd
  <2>5. ListenersStay(p.gateways, f[i])
    BY <1>4
  <2>6. ListenersStay(p.gateways, f[i + 1])
    BY <2>4, <2>5 DEF ListenersStay
  <2> QED
    BY <2>1, <2>4, <2>6
<1> HIDE DEF T
<1>5. 0 .. Len(order) \subseteq T
  BY <1>1, <1>3, <1>4, BoundedInduction
<1>6. Len(order) \in T
  BY <1>1, <1>5
<1> QED
  BY <1>2, <1>6 DEF T

-----------------------------------------------------------------------------
(* The steps.                                                              *)

(* A step of a feature.                                                    *)
LEMMA SitesOn ==
  ASSUME UNCHANGED vars, stage' \in AfterCanary, pc = "done", errors = {},
         DOMAIN pir'.http \subseteq DOMAIN ir.http,
         \A k \in DOMAIN pir'.http : Sited(ir.http[k], pir'.http[k]),
         Mixed(pir'.gateways), ListenersStay(ir.gateways, pir'.gateways)
  PROVE  SitesInv'
<1>1. ir' = ir /\ pc' = "done" /\ errors' = {}
  BY DEF vars
<1>2. \A k \in DOMAIN pir'.http : Sited(ir'.http[k], pir'.http[k])
  BY <1>1
<1>3. (\A k \in DOMAIN pir.http : Sited(ir.http[k], pir.http[k]))'
  BY <1>2
<1>4. (Mixed(pir.gateways) /\ ListenersStay(ir.gateways, pir.gateways))'
  BY <1>1
<1>5. (DOMAIN pir.http \subseteq DOMAIN ir.http)'
  BY <1>1
<1> QED
  BY <1>1, <1>3, <1>4, <1>5 DEF SitesInv, AfterCanary, AfterRedirect

(* The routes that the features start with.                                *)
LEMMA PoliciesSite ==
  IInv /\ PathsInv /\ ShapesInv /\ PlacesInv /\ CanaryInv /\ FlowsInv /\ SitesInv /\ CreateBackendTLSPolicies
    => SitesInv'
<1> SUFFICES ASSUME IInv, PathsInv, ShapesInv, PlacesInv, CanaryInv, FlowsInv, SitesInv, CreateBackendTLSPolicies
             PROVE  SitesInv'
  OBVIOUS
<1>1. UNCHANGED vars /\ pir' = pir /\ stage' = "redirect" /\ stage = "canary"
  BY StagesAre DEF CreateBackendTLSPolicies, Feature, Reached, FlowsInv
<1>2. /\ pc = "done" /\ errors = {} /\ DOMAIN pir.http = DOMAIN ir.http
      /\ \A k \in DOMAIN ir.http : pir.http[k] = IF Visited(k) THEN CanaryRoute(ir.http[k]) ELSE ir.http[k]
  BY <1>1 DEF CanaryInv
<1>3. Mixed(pir'.gateways) /\ pir'.gateways = ir.gateways
  BY <1>1 DEF FlowsInv, SitesInv
<1>4. ASSUME NEW k \in DOMAIN ir.http PROVE Sited(ir.http[k], pir.http[k])
  <2> PICK a : a = ir.http[k]
    OBVIOUS
  <2>1. Full(a) /\ (OfRules(a) \/ AtDefault(a))
    BY <1>2, StoredFull
  <2>2. GoodRoute(a) /\ Untouched(a)
    BY <1>2, StoredGood
  <2>3. RouteFits(a)
    BY <2>2, UntouchedFits, NoIndexPanics
  <2> PICK q : q = pir.http[k]
    OBVIOUS
  <2>4. q = a \/ q = CanaryRoute(a)
    BY <1>2
  <2>5. Sited(a, q)
    BY <2>1, <2>2, <2>3, <2>4, CanarySites
  <2> QED
    BY <2>5
<1>5. stage' \in AfterCanary /\ stage \notin AfterCanary
  BY <1>1 DEF AfterCanary, AfterRedirect
<1>6. ListenersStay(ir.gateways, pir'.gateways)
  BY <1>3 DEF ListenersStay
<1>7. \A k \in DOMAIN pir'.http : Sited(ir.http[k], pir'.http[k])
  BY <1>1, <1>2, <1>4
<1>8. DOMAIN pir'.http \subseteq DOMAIN ir.http
  BY <1>1, <1>2
<1> QED
  BY <1>1, <1>2, <1>3, <1>5, <1>6, <1>7, <1>8, SitesOn

(* A feature that changes every route for itself.                          *)
LEMMA FeatureSites ==
  ASSUME SitesInv, UNCHANGED vars, stage \in AfterCanary, stage' \in AfterCanary,
         DOMAIN pir'.http = DOMAIN pir.http, pir'.gateways = pir.gateways,
         \A k \in DOMAIN pir.http : Sited(ir.http[k], pir.http[k]) => Sited(ir.http[k], pir'.http[k])
  PROVE  SitesInv'
BY SitesOn DEF SitesInv

(* The features that only change rules in place.                            *)
LEMMA OthersSite ==
  NginxInv /\ SitesInv /\ (RedirectFeature \/ HeaderModifierFeature \/ RegexFeature \/ BackendTLSFeature
                             \/ SessionAffinityFeature \/ AppRootFeature) => SitesInv'
<1> SUFFICES ASSUME NginxInv, SitesInv,
                    RedirectFeature \/ HeaderModifierFeature \/ RegexFeature \/ BackendTLSFeature
                      \/ SessionAffinityFeature \/ AppRootFeature
             PROVE  SitesInv'
  OBVIOUS
<1>1. DOMAIN pir = PirParts /\ \A k \in DOMAIN pir.http : GoodRoute(pir.http[k])
  BY DEF NginxInv, PirParts
<1>2. CASE RedirectFeature
  <2>1. UNCHANGED vars /\ stage = "redirect" /\ stage' = "headers" /\ pir' = Redirect(pir)
    BY <1>2, StagesAre DEF RedirectFeature, Feature, Reached, FeatureOrder
  <2>2. /\ DOMAIN pir'.http = DOMAIN pir.http /\ pir'.gateways = pir.gateways
        /\ \A k \in DOMAIN pir.http : pir'.http[k] = RedirectRoute(pir.http[k])
    BY <1>1, <2>1 DEF Redirect, PirParts
  <2>3. stage \in AfterCanary /\ stage' \in AfterCanary
    BY <2>1 DEF AfterCanary, AfterRedirect
  <2> QED
    BY <1>1, <2>1, <2>2, <2>3, FeaturesSite, FeatureSites
<1>3. CASE HeaderModifierFeature
  <2>1. UNCHANGED vars /\ stage = "headers" /\ stage' = "regex" /\ pir' = HeaderModifier(pir)
    BY <1>3, StagesAre DEF HeaderModifierFeature, Feature, Reached, FeatureOrder
  <2>2. /\ DOMAIN pir'.http = DOMAIN pir.http /\ pir'.gateways = pir.gateways
        /\ \A k \in DOMAIN pir.http : pir'.http[k] = HeaderModifierRoute(pir.http[k])
    BY <1>1, <2>1 DEF HeaderModifier, PirParts
  <2>3. stage \in AfterCanary /\ stage' \in AfterCanary
    BY <2>1 DEF AfterCanary, AfterRedirect
  <2> QED
    BY <1>1, <2>1, <2>2, <2>3, FeaturesSite, FeatureSites
<1>4. CASE RegexFeature
  <2>1. UNCHANGED vars /\ stage = "regex" /\ stage' = "backendTLS" /\ pir' = Regex(pir)
    BY <1>4, StagesAre DEF RegexFeature, Feature, Reached, FeatureOrder
  <2>2. /\ DOMAIN pir'.http = DOMAIN pir.http /\ pir'.gateways = pir.gateways
        /\ \A k \in DOMAIN pir.http : pir'.http[k] = RegexRoute(pir.http[k])
    BY <1>1, <2>1 DEF Regex, PirParts
  <2>3. stage \in AfterCanary /\ stage' \in AfterCanary
    BY <2>1 DEF AfterCanary, AfterRedirect
  <2> QED
    BY <1>1, <2>1, <2>2, <2>3, FeaturesSite, FeatureSites
<1>5. CASE AppRootFeature
  <2>1. UNCHANGED vars /\ stage = "appRoot" /\ stage' = "converted" /\ pir' = AppRoot(pir)
    BY <1>5, StagesAre DEF AppRootFeature, Feature, Reached, FeatureOrder
  <2>2. /\ DOMAIN pir'.http = DOMAIN pir.http /\ pir'.gateways = pir.gateways
        /\ \A k \in DOMAIN pir.http : pir'.http[k] = AppRootRoute(pir.http[k])
    BY <1>1, <2>1 DEF AppRoot, PirParts
  <2>3. stage \in AfterCanary /\ stage' \in AfterCanary
    BY <2>1 DEF AfterCanary, AfterRedirect
  <2>4. \A k \in DOMAIN pir.http : Sited(ir.http[k], pir.http[k]) => Sited(ir.http[k], pir'.http[k])
    BY <1>1, <2>2, AppRootSites
  <2> QED
    BY <2>1, <2>2, <2>3, <2>4, FeatureSites
<1>6. CASE BackendTLSFeature \/ SessionAffinityFeature
  <2>1. /\ UNCHANGED vars /\ stage \in {"backendTLS", "affinity"} /\ stage' \in {"affinity", "sslPassthrough"}
        /\ pir'.http = pir.http /\ pir'.gateways = pir.gateways
    <3>1. CASE BackendTLSFeature
      BY <1>1, <3>1, StagesAre DEF BackendTLSFeature, Feature, Reached, FeatureOrder, BackendTLS, PirParts
    <3>2. CASE SessionAffinityFeature
      <4>1. PICK order : Feature("affinity", SessionAffinity(pir, order))
        BY <3>2 DEF SessionAffinityFeature
      <4> QED
        BY <1>1, <4>1, StagesAre DEF Feature, Reached, FeatureOrder, SessionAffinity, PirParts
    <3> QED
      BY <1>6, <3>1, <3>2
  <2>2. stage \in AfterCanary /\ stage' \in AfterCanary
    BY <2>1 DEF AfterCanary, AfterRedirect
  <2> QED
    BY <2>1, <2>2, FeatureSites
<1> QED
  BY <1>2, <1>3, <1>4, <1>5, <1>6

(* ssl-passthrough takes routes away, and rules of others.                 *)
LEMMA PassthroughSites == NginxInv /\ FlowsInv /\ SitesInv /\ SSLPassthroughFeature => SitesInv'
<1> SUFFICES ASSUME NginxInv, FlowsInv, SitesInv, SSLPassthroughFeature PROVE SitesInv'
  OBVIOUS
<1>1. PICK order \in SetToSeqs({k \in DOMAIN pir.http : PassedThrough(pir.http[k])}) :
        Feature("sslPassthrough", Passthrough(pir, order))
  BY DEF SSLPassthroughFeature
<1>2. /\ UNCHANGED vars /\ stage = "sslPassthrough" /\ stage' = "appRoot"
      /\ pir' = Passthrough(pir, order) /\ order \in SetToSeqs(Passed(pir))
  BY <1>1, StagesAre DEF Feature, Reached, FeatureOrder, Passed
<1>3. DOMAIN pir = PirParts /\ \A k \in DOMAIN pir.http : GoodRoute(pir.http[k])
  BY DEF NginxInv, PirParts
<1>4. stage \in AfterCanary /\ stage' \in AfterCanary
  BY <1>2 DEF AfterCanary, AfterRedirect
<1>5. /\ pc = "done" /\ errors = {} /\ DOMAIN pir.http \subseteq DOMAIN ir.http
      /\ \A k \in DOMAIN pir.http : Sited(ir.http[k], pir.http[k])
      /\ Mixed(pir.gateways) /\ ListenersStay(ir.gateways, pir.gateways)
  BY <1>4 DEF SitesInv
<1>6. DOMAIN pir'.http \subseteq DOMAIN pir.http
      /\ \A k \in DOMAIN pir'.http : pir'.http[k] = pir.http[k] \/ pir'.http[k] = Strip(pir.http[k])
  <2> PICK new : new = Passthrough(pir, order)
    OBVIOUS
  <2>1. \E gone : new.http = [k \in DOMAIN pir.http \ gone |->
                                IF k \in Passed(pir) THEN Strip(pir.http[k]) ELSE pir.http[k]]
    BY <1>3 DEF Passthrough, PirParts, Passed
  <2> QED
    BY <1>2, <2>1
<1>7. \A k \in DOMAIN pir'.http : Sited(ir.http[k], pir'.http[k])
  BY <1>3, <1>5, <1>6, StripSites
<1>8. pir'.gateways = WithPassthroughListeners(pir, order)
  BY <1>2, <1>3, PassthroughGives
<1>9. NamedBy(pir.http)
  BY <1>2 DEF FlowsInv, AfterRedirect
<1>10. order \in Seq(Passed(pir)) /\ \A k \in Passed(pir) : NamedHost(pir.http[k].host)
  <2>1. IsFiniteSet(Passed(pir))
    BY <1>9, FS_Subset DEF NamedBy, Passed
  <2> QED
    BY <1>2, <1>9, <2>1, OrderVisits DEF NamedBy, Passed
<1>11. Mixed(pir'.gateways) /\ ListenersStay(pir.gateways, pir'.gateways)
  BY <1>5, <1>8, <1>10, AllTunnelsAdd
<1>12. ListenersStay(ir.gateways, pir'.gateways)
  BY <1>5, <1>11 DEF ListenersStay
<1>13. DOMAIN pir'.http \subseteq DOMAIN ir.http
  BY <1>5, <1>6
<1> QED
  BY <1>2, <1>4, <1>5, <1>7, <1>11, <1>12, <1>13, SitesOn

(* Every step keeps the sites.                                              *)
LEMMA SitesStep ==
  ASSUME IInv, PathsInv, ShapesInv, PlacesInv, NginxInv, CanaryInv, FlowsInv, SitesInv,
         [NginxNext]_<<vars, nginxVars>>
  PROVE  SitesInv'
<1>1. CASE Next /\ UNCHANGED nginxVars
  <2>1. pc # "done"
    BY <1>1 DEF Next, AddIngresses, ConvertGroup, ConvertDefaults, BuildGateway, Return
  <2>2. stage' = "common"
    BY <1>1, <2>1 DEF FlowsInv, nginxVars
  <2> QED
    BY <2>2 DEF SitesInv, AfterCanary, AfterRedirect
<1>2. CASE UNCHANGED <<vars, nginxVars>>
  <2>1. CASE stage \in AfterCanary
    <3>1. UNCHANGED vars /\ stage' = stage /\ pir' = pir
      BY <1>2 DEF nginxVars
    <3> QED
      BY <2>1, <3>1, FeatureSites
  <2>2. CASE stage \notin AfterCanary
    BY <1>2, <2>2 DEF SitesInv, nginxVars, vars
  <2> QED
    BY <2>1, <2>2
<1>3. CASE StartFeatures \/ CanaryFeature \/ PassthroughPanics
  <2>1. stage' \in {"failed", "canary", "panic"} /\ UNCHANGED vars
    <3>1. CASE StartFeatures
      BY <3>1 DEF StartFeatures, vars
    <3>2. CASE CanaryFeature \/ PassthroughPanics
      BY <3>2 DEF CanaryFeature, PassthroughPanics
    <3> QED
      BY <1>3, <3>1, <3>2
  <2>2. stage' = "canary" => pir'.gateways = ir.gateways
    <3>1. CASE StartFeatures
      BY <3>1 DEF StartFeatures
    <3>2. CASE CanaryFeature
      <4>1. PICK g : stage = "canary" /\ (stage' = "panic" \/ (stage' = stage /\ pir' = Canary(pir, g)))
        BY <3>2 DEF CanaryFeature
      <4>2. DOMAIN pir = PirParts
        BY DEF NginxInv, PirParts
      <4>3. Canary(pir, g).gateways = pir.gateways
        BY <4>2 DEF Canary, PirParts
      <4> QED
        BY <4>1, <4>3 DEF SitesInv
    <3>3. CASE PassthroughPanics
      BY <3>3 DEF PassthroughPanics
    <3> QED
      BY <1>3, <3>1, <3>2, <3>3
  <2> QED
    BY <2>1, <2>2 DEF SitesInv, AfterCanary, AfterRedirect, vars
<1>4. CASE CreateBackendTLSPolicies
  BY <1>4, PoliciesSite
<1>5. CASE \/ RedirectFeature \/ HeaderModifierFeature \/ RegexFeature \/ BackendTLSFeature
           \/ SessionAffinityFeature \/ AppRootFeature
  BY <1>5, OthersSite
<1>6. CASE SSLPassthroughFeature
  BY <1>6, PassthroughSites
<1> QED
  BY <1>1, <1>2, <1>3, <1>4, <1>5, <1>6 DEF NginxNext

(* From convert on every route of the ProviderIR is sited.                  *)
LEMMA SitesInvariant == EmittersSpec => []SitesInv
<1>1. NginxInit => SitesInv
  BY DEF NginxInit, SitesInv, AfterCanary, AfterRedirect
<1>2. NginxSpec /\ [](IInv /\ PathsInv /\ ShapesInv /\ PlacesInv /\ NginxInv /\ CanaryInv /\ FlowsInv) => []SitesInv
  BY <1>1, SitesStep, PTL DEF NginxSpec
<1> QED
  BY <1>2, EmittersConvert, Invariant, PathsInvariant, ShapesInvariant, PlacesInvariant, NginxInvariant,
     CanaryInvariant, FlowsInvariant, PTL

-----------------------------------------------------------------------------
(* What ToIR makes of a route of the ProviderIR, and what the emitters     *)
(* leave of that.                                                          *)
EmitParts == {"ns", "name", "host", "rules", "policies", "refs"}

ShapedRule(rule) ==
  /\ DOMAIN rule = RuleParts /\ IsList(rule.matches) /\ IsList(rule.filters) /\ IsList(rule.backends)
  /\ \A b \in ToSet(rule.backends) : DOMAIN b = BackendParts

Shaped(e) ==
  /\ DOMAIN e = EmitParts /\ IsList(e.rules) /\ IsFiniteSet(e.policies)
  /\ \A i \in DOMAIN e.rules : ShapedRule(e.rules[i])

LikeRule(a, b) ==
  /\ b.matches = a.matches /\ Redirects(b) = Redirects(a)
  /\ Services(b) = Services(a) /\ (b.backends = <<>> <=> a.backends = <<>>)

Like(a, b) ==
  /\ b.ns = a.ns /\ b.host = a.host /\ b.refs = a.refs
  /\ DOMAIN b.rules = DOMAIN a.rules
  /\ \A i \in DOMAIN a.rules : LikeRule(a.rules[i], b.rules[i])
  /\ a.policies = {} => \A i \in DOMAIN a.rules : b.rules[i].filters = a.rules[i].filters

(* A finite set as a list.                                                 *)
LEMMA ListedSet ==
  ASSUME NEW S, IsFiniteSet(S), NEW s, s = SetToSeq(S)
  PROVE  IsList(s) /\ ToSet(s) = S
<1> PICK n : n = Cardinality(S)
  OBVIOUS
<1>1. n \in Nat /\ ExistsBijection(1..n, S)
  BY FS_CardinalityType
<1>2. PICK g : g \in Bijection(1..n, S)
  BY <1>1 DEF ExistsBijection
<1>3. g \in [1..n -> S] /\ IsInjective(g)
  BY <1>2 DEF Bijection, Injection, IsInjective
<1>4. s \in [1..n -> S] /\ IsInjective(s)
  BY <1>3 DEF SetToSeq
<1>5. s \in Injection(1..n, S)
  BY <1>4 DEF Injection, IsInjective
<1>6. IsFiniteSet(1..n) /\ Cardinality(1..n) = n
  <2>1. 1 \in Int /\ n \in Int
    BY <1>1
  <2>2. IsFiniteSet(1..n) /\ Cardinality(1..n) = IF 1 > n THEN 0 ELSE n - 1 + 1
    BY <2>1, FS_Interval
  <2> QED
    BY <1>1, <2>2
<1>7. s \in Surjection(1..n, S)
  BY <1>5, <1>6, FS_Injection
<1>8. s \in Seq(S) /\ DOMAIN s = 1..n
  BY <1>1, <1>4
<1>9. \A x \in S : \E i \in DOMAIN s : s[i] = x
  BY <1>7, <1>8 DEF Surjection
<1>10. IsList(s) /\ ToSet(s) \subseteq S
  BY <1>8, SeqIsList
<1>11. S \subseteq ToSet(s)
  BY <1>9, InToSet
<1> QED
  BY <1>10, <1>11

(* The filters that the policies of a rule become.                         *)
LEMMA FiltersAre ==
  ASSUME NEW P, IsFiniteSet(P), NEW i, NEW fs, fs = FiltersOf(P, i)
  PROVE  /\ IsList(fs)
         /\ \A f : f \in ToSet(fs) <=>
              \E p \in P : p[1] \in ToSet(AppliedKinds) /\ p[2] = i /\ f = <<p[1], p[3]>>
<1> DEFINE Of(n) == {<<p[1], p[3]>> : p \in {q \in P : q[1] = AppliedKinds[n] /\ q[2] = i}}
           X == {SetToSeq(Of(n)) : n \in 1..3}
           s == [n \in 1..Len(AppliedKinds) |-> SetToSeq(Of(n))]
           t == <<1, 2, 3>>
<1>1. Len(AppliedKinds) = 3 /\ DOMAIN AppliedKinds = 1..3
  BY DEF AppliedKinds
<1>2. ASSUME NEW n \in 1..3 PROVE IsFiniteSet(Of(n))
  <2> DEFINE Q == {q \in P : q[1] = AppliedKinds[n] /\ q[2] = i}
             h == [q \in Q |-> <<q[1], q[3]>>]
  <2>1. IsFiniteSet(Q)
    BY FS_Subset
  <2>2. h \in Surjection(Q, Of(n))
    BY DEF Surjection
  <2> QED
    BY <2>1, <2>2, FS_Surjection
<1>3. \A n \in 1..3 : IsList(SetToSeq(Of(n))) /\ ToSet(SetToSeq(Of(n))) = Of(n)
  BY <1>2, ListedSet
<1>4. \A n : \A f : f \in Of(n) <=> \E p \in P : p[1] = AppliedKinds[n] /\ p[2] = i /\ f = <<p[1], p[3]>>
  OBVIOUS
<1> HIDE DEF Of
<1>5. DOMAIN s = 1..3 /\ \A n \in 1..3 : s[n] = SetToSeq(Of(n))
  BY <1>1
<1>6. IsList(t) /\ DOMAIN t = 1..3
  <2>1. t \in Seq(Nat) /\ DOMAIN t = 1..3
    OBVIOUS
  <2> QED
    BY <2>1, SeqIsList
<1>7. s \in [DOMAIN t -> X]
  <2>1. s = [n \in 1..3 |-> SetToSeq(Of(n))]
    BY <1>1
  <2> QED
    BY <1>6, <2>1
<1>8. IsList(s)
  <2> HIDE DEF s, t, X
  <2> QED
    BY <1>6, <1>7, MadeList
<1>9. fs = FlattenSeq(s)
  BY DEF Of, FiltersOf
<1> HIDE DEF s, t
<1>10. \A n \in DOMAIN s : IsList(s[n])
  BY <1>3, <1>5
<1>11. IsList(fs) /\ \A f : f \in ToSet(fs) <=> \E n \in DOMAIN s : f \in ToSet(s[n])
  BY <1>8, <1>9, <1>10, FlattenList
<1>12. \A f : f \in ToSet(fs) <=> \E n \in 1..3 : f \in Of(n)
  BY <1>3, <1>5, <1>11
<1>13. \A kind : kind \in ToSet(AppliedKinds) <=> \E n \in 1..3 : AppliedKinds[n] = kind
  BY <1>1, InToSet
<1> QED
  BY <1>4, <1>11, <1>12, <1>13

(* Filters of applied policies are none that redirect.                     *)
LEMMA AppliedFilters ==
  ASSUME NEW P, IsFiniteSet(P), NEW i,
         NEW fs, fs = FiltersOf(P, i)
  PROVE  IsList(fs) /\ (\A f \in ToSet(fs) : f[1] # "redirect") /\ (P = {} => ToSet(fs) = {})
<1>1. \A n \in DOMAIN AppliedKinds : AppliedKinds[n] # "redirect"
  BY DEF AppliedKinds
<1>2. "redirect" \notin ToSet(AppliedKinds)
  BY <1>1, InToSet
<1> QED
  BY <1>2, FiltersAre

(* The common emitter.                                                     *)
LEMMA AppliedLike ==
  ASSUME NEW q, Shaped(q), NEW e, e = Applied(q)
  PROVE  Like(q, e) /\ Shaped(e)
<1> DEFINE Of(i) == FiltersOf(q.policies, i)
           rest == {p \in q.policies : p[1] \notin ToSet(AppliedKinds)}
<1>0. IsFiniteSet(q.policies) /\ IsFiniteSet(rest)
  BY FS_Subset DEF Shaped
<1>1. \A i : /\ IsList(Of(i)) /\ (\A x \in ToSet(Of(i)) : x[1] # "redirect")
             /\ q.policies = {} => ToSet(Of(i)) = {}
  BY <1>0, AppliedFilters
<1>2. e = [q EXCEPT !.rules = [i \in 1..Len(q.rules) |-> WithFilters(q.rules[i], Of(i))], !.policies = rest]
  BY DEF Applied
<1> HIDE DEF Of, rest
<1>3. DOMAIN q = EmitParts /\ IsList(q.rules) /\ DOMAIN q.rules = 1..Len(q.rules)
  BY ListShape DEF Shaped, ShapedRule
<1>4. e.rules = [i \in 1..Len(q.rules) |-> WithFilters(q.rules[i], Of(i))]
  BY <1>2, <1>3 DEF EmitParts
<1>5. e.ns = q.ns /\ e.host = q.host /\ e.refs = q.refs /\ DOMAIN e = EmitParts /\ e.policies = rest
  BY <1>2, <1>3 DEF EmitParts
<1>6. ASSUME NEW i \in DOMAIN q.rules
      PROVE  /\ e.rules[i].filters = q.rules[i].filters \o Of(i)
             /\ e.rules[i].matches = q.rules[i].matches /\ e.rules[i].backends = q.rules[i].backends
             /\ DOMAIN e.rules[i] = RuleParts
  <2>1. DOMAIN q.rules[i] = RuleParts
    BY DEF Shaped, ShapedRule
  <2>2. e.rules[i] = WithFilters(q.rules[i], Of(i))
    BY <1>3, <1>4
  <2> QED
    BY <2>1, <2>2 DEF RuleParts, WithFilters
<1>7. DOMAIN e.rules = DOMAIN q.rules
  BY <1>3, <1>4
<1>8. IsList(e.rules)
  <2> DEFINE X == {e.rules[i] : i \in DOMAIN q.rules}
  <2>1. e.rules \in [DOMAIN q.rules -> X]
    <3>1. e.rules = [i \in DOMAIN q.rules |-> e.rules[i]]
      BY <1>3, <1>4
    <3> QED
      BY <3>1
  <2> HIDE DEF X
  <2> QED
    BY <1>3, <2>1, MadeList
<1>9. ASSUME NEW i \in DOMAIN q.rules
      PROVE  /\ IsList(e.rules[i].matches) /\ IsList(e.rules[i].filters) /\ IsList(e.rules[i].backends)
             /\ \A b \in ToSet(e.rules[i].backends) : DOMAIN b = BackendParts
             /\ LikeRule(q.rules[i], e.rules[i])
             /\ q.policies = {} => e.rules[i].filters = q.rules[i].filters
  <2> PICK old : old = q.rules[i].filters
    OBVIOUS
  <2> PICK more : more = Of(i)
    OBVIOUS
  <2> PICK new : new = old \o more
    OBVIOUS
  <2>1. IsList(old) /\ IsList(more) /\ (\A x \in ToSet(more) : x[1] # "redirect")
        /\ (q.policies = {} => ToSet(more) = {})
    BY <1>1 DEF Shaped, ShapedRule
  <2>2. e.rules[i].filters = new
    BY <1>6
  <2>3. ToSet(new) = ToSet(old) \cup ToSet(more) /\ IsList(new)
    <3> DEFINE X == ToSet(old) \cup ToSet(more)
    <3>1. old \in Seq(X) /\ more \in Seq(X)
      <4>1. old \in Seq(ToSet(old)) /\ more \in Seq(ToSet(more))
        BY <2>1, ListShape
      <4>2. ToSet(old) \subseteq X /\ ToSet(more) \subseteq X
        OBVIOUS
      <4> HIDE DEF X
      <4> QED
        BY <4>1, <4>2
    <3> HIDE DEF X
    <3>2. new \in Seq(X) /\ ToSet(new) = ToSet(old) \cup ToSet(more)
      BY <3>1, ConcatHolds
    <3> QED
      BY <3>2, SeqIsList
  <2>4. Redirects(e.rules[i]) = Redirects(q.rules[i])
    BY <2>1, <2>2, <2>3 DEF Redirects
  <2>5. q.policies = {} => new = old
    BY <2>1, ConcatNothing
  <2>6. IsList(e.rules[i].matches) /\ IsList(e.rules[i].backends)
        /\ \A b \in ToSet(e.rules[i].backends) : DOMAIN b = BackendParts
    BY <1>6 DEF Shaped, ShapedRule
  <2>7. Services(e.rules[i]) = Services(q.rules[i])
    BY <1>6 DEF Services
  <2> QED
    BY <1>6, <2>2, <2>3, <2>4, <2>5, <2>6, <2>7 DEF LikeRule
<1> QED
  BY <1>0, <1>5, <1>6, <1>7, <1>8, <1>9 DEF Like, Shaped, ShapedRule

(* removeBackendRefsDuplicates takes no Service away.                      *)
LEMMA ServicesStay ==
  ASSUME NEW bs, IsList(bs), \A b \in ToSet(bs) : DOMAIN b = BackendParts, NEW new, new = Deduplicated(bs)
  PROVE  /\ {<<b.svc, b.port>> : b \in ToSet(new)} = {<<b.svc, b.port>> : b \in ToSet(bs)}
         /\ new = <<>> <=> bs = <<>>
<1> DEFINE Same(b) == SelectSeq(bs, LAMBDA x : x.svc = b.svc /\ x.port = b.port)
           Sum(seq) == FoldLeft(LAMBDA acc, x : IF x.weight = NoWeight THEN acc ELSE acc + x.weight, 0, seq)
           W(b) == IF Same(b)[1].weight = NoWeight THEN NoWeight ELSE Sum(Same(b))
           S == {[b EXCEPT !.weight = W(b)] : b \in ToSet(bs)}
<1>1. new = SetToSeq(S)
  BY DEF Deduplicated
<1> HIDE DEF W
<1>2. IsFiniteSet(S)
  <2> DEFINE h == [b \in ToSet(bs) |-> [b EXCEPT !.weight = W(b)]]
  <2>1. IsFiniteSet(ToSet(bs))
    BY ListFinite
  <2>2. h \in Surjection(ToSet(bs), S)
    BY DEF Surjection
  <2> QED
    BY <2>1, <2>2, FS_Surjection
<1>2a. ASSUME NEW b \in ToSet(bs), NEW x, x = [b EXCEPT !.weight = W(b)] PROVE x.svc = b.svc /\ x.port = b.port
  <2>1. DOMAIN b = BackendParts
    OBVIOUS
  <2> PICK w : w = W(b)
    OBVIOUS
  <2>2. x = [b EXCEPT !.weight = w]
    BY <1>2a
  <2> QED
    BY <2>1, <2>2 DEF BackendParts
<1>3. ASSUME NEW x \in S PROVE \E b \in ToSet(bs) : x.svc = b.svc /\ x.port = b.port
  <2>1. PICK b \in ToSet(bs) : x = [b EXCEPT !.weight = W(b)]
    BY <1>3
  <2> QED
    BY <1>2a, <2>1
<1>4. ASSUME NEW b \in ToSet(bs) PROVE \E x \in S : x.svc = b.svc /\ x.port = b.port
  <2>1. PICK x : x = [b EXCEPT !.weight = W(b)]
    OBVIOUS
  <2>2. x \in S
    BY <2>1
  <2> QED
    BY <1>2a, <2>1, <2>2
<1>5. S = {} <=> ToSet(bs) = {}
  OBVIOUS
<1> HIDE DEF S
<1>6. IsList(new) /\ ToSet(new) = S
  BY <1>1, <1>2, ListedSet
<1>7. {<<b.svc, b.port>> : b \in ToSet(new)} = {<<b.svc, b.port>> : b \in ToSet(bs)}
  <2>1. ASSUME NEW p PROVE (\E b \in S : p = <<b.svc, b.port>>) <=> \E b \in ToSet(bs) : p = <<b.svc, b.port>>
    BY <1>3, <1>4
  <2> QED
    BY <1>6, <2>1
<1>8. new = <<>> <=> bs = <<>>
  BY <1>5, <1>6, ListShape
<1> QED
  BY <1>7, <1>8

(* The standard emitter, and what the others have in common.               *)
LEMMA StandardLike ==
  ASSUME NEW q, NEW e, Shaped(e), Like(q, e), NEW new, new = Standard(e) \/ \E P : new = [Emitted(e) EXCEPT !.policies = P]
  PROVE  Like(q, new)
<1>1. DOMAIN e = EmitParts /\ IsList(e.rules) /\ DOMAIN e.rules = 1..Len(e.rules)
  BY ListShape DEF Shaped, ShapedRule
<1> PICK std : std = Standard(e)
  OBVIOUS
<1> DEFINE f == [i \in 1..Len(e.rules) |-> WithoutDuplicates(e.rules[i])]
<1>2. std = [e EXCEPT !.rules = f]
  BY DEF Standard
<1>3. DOMAIN f = DOMAIN e.rules /\ \A i \in DOMAIN e.rules : f[i] = WithoutDuplicates(e.rules[i])
  BY <1>1
<1>3a. IsList(f) /\ DOMAIN f = 1..Len(f)
  <2> DEFINE X == {f[i] : i \in DOMAIN e.rules}
  <2>1. f \in [DOMAIN e.rules -> X]
    BY <1>1
  <2> HIDE DEF X, f
  <2>2. IsList(f)
    BY <1>1, <2>1, MadeList
  <2> QED
    BY <2>2, ListShape
<1> HIDE DEF f
<1>4. std.rules = f /\ std.ns = e.ns /\ std.host = e.host /\ std.refs = e.refs /\ DOMAIN std = EmitParts
  BY <1>1, <1>2 DEF EmitParts
<1>5. ASSUME NEW i \in DOMAIN e.rules
      PROVE  /\ DOMAIN f[i] = RuleParts /\ LikeRule(q.rules[i], f[i]) /\ f[i].filters = e.rules[i].filters
  <2> PICK rule : rule = e.rules[i]
    OBVIOUS
  <2> PICK bs : bs = Deduplicated(rule.backends)
    OBVIOUS
  <2>1. DOMAIN rule = RuleParts /\ IsList(rule.backends) /\ \A b \in ToSet(rule.backends) : DOMAIN b = BackendParts
    BY DEF Shaped, ShapedRule
  <2>2. f[i] = [rule EXCEPT !.backends = bs]
    BY <1>3 DEF WithoutDuplicates
  <2>3. /\ DOMAIN f[i] = RuleParts /\ f[i].filters = rule.filters /\ f[i].matches = rule.matches
        /\ f[i].backends = bs
    BY <2>1, <2>2 DEF RuleParts
  <2>4. {<<b.svc, b.port>> : b \in ToSet(bs)} = Services(rule) /\ (bs = <<>> <=> rule.backends = <<>>)
    BY <2>1, ServicesStay DEF Services
  <2>5. LikeRule(q.rules[i], rule)
    BY DEF Like
  <2>6. Services(f[i]) = Services(rule) /\ Redirects(f[i]) = Redirects(rule)
    BY <2>3, <2>4 DEF Services, Redirects
  <2> QED
    BY <2>3, <2>4, <2>5, <2>6 DEF LikeRule
<1>6. Like(q, std)
  BY <1>3, <1>4, <1>5 DEF Like
<1>7. ASSUME NEW P, new = [Emitted(e) EXCEPT !.policies = P] PROVE Like(q, new)
  <2> PICK named : named = Named(std)
    OBVIOUS
  <2> DEFINE g == [i \in 1..Len(f) |-> WithName(f[i], RuleName(i))]
  <2>1. named = [std EXCEPT !.rules = g]
    BY <1>4 DEF Named
  <2>2. DOMAIN g = DOMAIN f /\ \A i \in DOMAIN f : g[i] = WithName(f[i], RuleName(i))
    BY <1>3a
  <2> HIDE DEF g
  <2>3. new = [named EXCEPT !.policies = P]
    BY <1>7 DEF Emitted
  <2>4. named.rules = g /\ named.ns = std.ns /\ named.host = std.host /\ named.refs = std.refs /\ DOMAIN named = EmitParts
    BY <1>4, <2>1 DEF EmitParts
  <2>5. new.rules = g /\ new.ns = std.ns /\ new.host = std.host /\ new.refs = std.refs
    BY <2>3, <2>4 DEF EmitParts
  <2>6. ASSUME NEW i \in DOMAIN f
        PROVE  g[i].matches = f[i].matches /\ g[i].filters = f[i].filters /\ g[i].backends = f[i].backends
    BY <2>2 DEF WithName
  <2>7. \A i \in DOMAIN f : LikeRule(q.rules[i], f[i])
    BY <1>3, <1>5
  <2>8. \A i \in DOMAIN f : LikeRule(q.rules[i], g[i])
    BY <2>6, <2>7 DEF LikeRule, Redirects, Services
  <2> QED
    BY <1>4, <1>6, <2>2, <2>5, <2>6, <2>8 DEF Like
<1> QED
  BY <1>6, <1>7

-----------------------------------------------------------------------------
(* The routes that the passes of ToIR make for a route.                    *)
PlainKey(r) == <<r.ns, r.name \o <<"http">>>>

WWWKey(r) == Key(WWWRoute(r))

WWWMade(r) == AsksWWW(r) /\ r.host # NoHost

MainRules(r) == r.rules \o SlashRules(r.rules, "slash")

Emittable(r) ==
  [ns |-> r.ns, name |-> r.name, host |-> r.host, rules |-> r.rules, policies |-> Policies(r),
   refs |-> <<[gateway |-> r.parent, port |-> 0, section |-> <<>>]>>]

Extended(r) == [Emittable(r) EXCEPT !.rules = MainRules(r)]

MainSplits(r) == SplitsOff(r, MainRules(r))

MainForm(r) == IF MainSplits(r) THEN Bound(Extended(r), 443, ListenerName(r.host, "https")) ELSE Extended(r)

PlainForm(r) == PlainRoute(r, MainRules(r), SlashRules(r.rules, "https slash"))

(* Lengths of joined words.                                                *)
LEMMA JoinedLength ==
  ASSUME NEW X, NEW a \in Seq(X), NEW b \in Seq(X)
  PROVE  Len(a) \in Nat /\ Len(b) \in Nat /\ a \o b \in Seq(X) /\ Len(a \o b) = Len(a) + Len(b)
BY ConcatProperties, LenProperties

(* The suffixes that the passes give names tell them apart.                 *)
LEMMA JoinedDiffer ==
  ASSUME NEW n, IsList(n), NEW d, IsList(d)
  PROVE  /\ n # n \o <<"http">>
         /\ n # <<"00">> \o n \o d \o <<"www", "redirect">>
         /\ n \o <<"http">> # <<"00">> \o n \o d \o <<"www", "redirect">>
<1> DEFINE X == ToSet(n) \cup ToSet(d) \cup {"00", "http", "www", "redirect"}
           a == <<"00">>
           b == <<"http">>
           c == <<"www", "redirect">>
<1>1. n \in Seq(X) /\ d \in Seq(X)
  <2>1. n \in Seq(ToSet(n)) /\ d \in Seq(ToSet(d)) /\ ToSet(n) \subseteq X /\ ToSet(d) \subseteq X
    BY ListShape
  <2> HIDE DEF X
  <2> QED
    BY <2>1
<1>2. a \in Seq(X) /\ b \in Seq(X) /\ c \in Seq(X) /\ Len(a) = 1 /\ Len(b) = 1 /\ Len(c) = 2
  OBVIOUS
<1> HIDE DEF X, a, b, c
<1>3. Len(n) \in Nat /\ Len(n \o b) = Len(n) + Len(b)
  BY <1>1, <1>2, JoinedLength
<1>4. a \o n \in Seq(X) /\ Len(a \o n) = Len(a) + Len(n)
  BY <1>1, <1>2, JoinedLength
<1>5. Len(d) \in Nat /\ a \o n \o d \in Seq(X) /\ Len(a \o n \o d) = Len(a \o n) + Len(d)
  BY <1>1, <1>4, JoinedLength
<1>6. Len(a \o n \o d \o c) = Len(a \o n \o d) + Len(c)
  BY <1>2, <1>5, JoinedLength
<1>7. n # n \o b /\ n # a \o n \o d \o c /\ n \o b # a \o n \o d \o c
  BY <1>2, <1>3, <1>4, <1>5, <1>6
<1> QED
  BY <1>7 DEF a, b, c

(* A sequence with a length is not empty.                                   *)
LEMMA LongIsSome ==
  ASSUME NEW X, NEW s \in Seq(X), Len(s) > 0
  PROVE  s # <<>>
OBVIOUS

(* The name of the www redirect is a proper host.                          *)
LEMMA OtherNamed ==
  ASSUME NEW h, NamedHost(h), NEW o, o = OtherName(h)
  PROVE  /\ o # NoHost /\ o.wild = FALSE /\ IsList(Dashed(o)) /\ Dashed(o) = NameFromHost(o)
         /\ ListenerName(o, "http") = Append(Dashed(o), "http")
         /\ ListenerName(o, "https") = Append(Dashed(o), "https")
<1> PICK ls : ls = h.labels
  OBVIOUS
<1> PICK www : www = <<"www">>
  OBVIOUS
<1> PICK star : star = <<"*">>
  OBVIOUS
<1>1. IsList(ls) /\ (\A label \in ToSet(ls) : IsList(label) /\ label # star) /\ Len(ls) \in Nat /\ DOMAIN ls = 1..Len(ls)
  BY ListShape DEF NamedHost
<1>2. IsList(www) /\ IsList(star)
  <2>1. www \in Seq({"www"}) /\ star \in Seq({"*"})
    BY LiteralHolds
  <2> QED
    BY <2>1, SeqIsList
<1>3. o.wild = FALSE /\ IsList(o.labels) /\ o.labels # <<>> /\ \A label \in ToSet(o.labels) : IsList(label)
  <2>1. CASE ~h.wild /\ Len(ls) > 1 /\ Head(ls) = www
    <3>1. ls[2] \in ToSet(ls)
      BY <1>1, <2>1, InToSet
    <3>2. ls \in Seq(ToSet(ls))
      BY <1>1, ListShape
    <3> PICK rest : rest = Tail(ls)
      OBVIOUS
    <3>3. rest \in Seq(ToSet(ls)) /\ rest # <<>> /\ Head(rest) = ls[2]
      <4>1. ls # <<>>
        BY <2>1, <3>2
      <4>2. rest \in Seq(ToSet(ls)) /\ Len(rest) = Len(ls) - 1 /\ \A i \in 1..Len(rest) : rest[i] = ls[i + 1]
        BY <3>2, <4>1, HeadTailProperties
      <4>3. Len(rest) \in Nat /\ Len(rest) > 0
        BY <1>1, <2>1, <4>2
      <4>4. rest[1] = ls[2]
        <5>1. 1 \in 1..Len(rest) /\ 1 + 1 = 2
          BY <4>3
        <5> QED
          BY <4>2, <5>1
      <4>5. rest # <<>>
        BY <4>2, <4>3, LongIsSome
      <4> QED
        BY <4>2, <4>4, <4>5
    <3>4. o = [wild |-> FALSE, labels |-> rest]
      BY <1>1, <2>1, <3>1, <3>3 DEF OtherName
    <3>5. IsList(rest) /\ ToSet(rest) \subseteq ToSet(ls)
      BY <3>3, SeqIsList
    <3> QED
      BY <1>1, <3>3, <3>4, <3>5
  <2>2. CASE ~(~h.wild /\ Len(ls) > 1 /\ Head(ls) = www)
    <3> PICK mid : mid = IF h.wild THEN <<star>> ELSE <<>>
      OBVIOUS
    <3> DEFINE X == {www, star} \cup ToSet(ls)
               front == <<www>>
    <3>1. mid \in Seq(X) /\ front \in Seq(X)
      <4>1. www \in X /\ star \in X
        OBVIOUS
      <4> HIDE DEF X
      <4> QED
        BY <4>1, LiteralHolds
    <3>2. ls \in Seq(X)
      <4>1. ls \in Seq(ToSet(ls)) /\ ToSet(ls) \subseteq X
        BY <1>1, ListShape
      <4> HIDE DEF X
      <4> QED
        BY <4>1
    <3> PICK all : all = front \o mid \o ls
      OBVIOUS
    <3>3. o = [wild |-> FALSE, labels |-> all]
      BY <2>2 DEF OtherName
    <3>4. all \in Seq(X) /\ all # <<>>
      <4> HIDE DEF X
      <4>1. Len(front) = 1
        OBVIOUS
      <4> HIDE DEF front
      <4>2. front \o mid \o ls \in Seq(X) /\ Len(front \o mid \o ls) = 1 + Len(mid) + Len(ls)
            /\ Len(mid) \in Nat /\ Len(ls) \in Nat
        <5>1. front \o mid \in Seq(X) /\ Len(front \o mid) = Len(front) + Len(mid) /\ Len(mid) \in Nat
          BY <3>1, JoinedLength
        <5>2. /\ front \o mid \o ls \in Seq(X) /\ Len(front \o mid \o ls) = Len(front \o mid) + Len(ls)
              /\ Len(ls) \in Nat
          BY <3>2, <5>1, JoinedLength
        <5> QED
          BY <4>1, <5>1, <5>2
      <4>3. ASSUME NEW m \in Nat, NEW n \in Nat PROVE 1 + m + n > 0
        OBVIOUS
      <4>4. front \o mid \o ls # <<>>
        <5>1. Len(front \o mid \o ls) > 0
          BY <4>2, <4>3
        <5> QED
          BY <4>2, <5>1, LongIsSome
      <4> QED
        BY <4>2, <4>4 DEF front
    <3>5. \A label \in X : IsList(label)
      BY <1>1, <1>2
    <3>6. IsList(all) /\ ToSet(all) \subseteq X
      <4> HIDE DEF X
      <4> QED
        BY <3>4, SeqIsList
    <3> HIDE DEF X
    <3> QED
      BY <3>3, <3>4, <3>5, <3>6
  <2> QED
    BY <2>1, <2>2
<1>4. o # NoHost
  BY <1>3 DEF NoHost
<1>5. Dashed(o) = FlattenSeq(o.labels) /\ NameFromHost(o) = FlattenSeq(o.labels)
  BY <1>3 DEF Dashed, NameFromHost
<1>6. IsList(FlattenSeq(o.labels))
  <2>1. \A i \in DOMAIN o.labels : IsList(o.labels[i])
    BY <1>3, InToSet
  <2> QED
    BY <1>3, <2>1, FlattenList
<1> QED
  BY <1>3, <1>4, <1>5, <1>6 DEF ListenerName

(* The names that the passes make for a route differ.                      *)
LEMMA NamesApart ==
  ASSUME NEW r, IsList(r.name), NamedHost(r.host)
  PROVE  /\ Key(r) # PlainKey(r) /\ Key(r) # WWWKey(r) /\ PlainKey(r) # WWWKey(r)
         /\ NamesOf(r) = {Key(r), PlainKey(r), WWWKey(r)}
         /\ Key(r)[1] = r.ns /\ PlainKey(r)[1] = r.ns /\ WWWKey(r)[1] = r.ns
<1> DEFINE d == Dashed(OtherName(r.host))
<1>1. IsList(d)
  BY OtherNamed
<1>2. /\ WWWKey(r) = <<r.ns, <<"00">> \o r.name \o d \o <<"www", "redirect">>>>
      /\ PlainKey(r) = <<r.ns, r.name \o <<"http">>>> /\ Key(r) = <<r.ns, r.name>>
  BY DEF WWWKey, PlainKey, Key, WWWRoute
<1> HIDE DEF d
<1>3. /\ r.name # r.name \o <<"http">>
      /\ r.name # <<"00">> \o r.name \o d \o <<"www", "redirect">>
      /\ r.name \o <<"http">> # <<"00">> \o r.name \o d \o <<"www", "redirect">>
  BY <1>1, JoinedDiffer
<1>4. NamesOf(r) = {Key(r), PlainKey(r), WWWKey(r)}
  BY DEF NamesOf, PlainKey, WWWKey
<1>5. Key(r) # PlainKey(r) /\ Key(r) # WWWKey(r) /\ PlainKey(r) # WWWKey(r)
  BY <1>2, <1>3
<1>6. Key(r)[1] = r.ns /\ PlainKey(r)[1] = r.ns /\ WWWKey(r)[1] = r.ns
  BY <1>2
<1> QED
  BY <1>4, <1>5, <1>6

(* Does a list of rules have the shape that the emitters work on?          *)
ShapedRules(rules) == IsList(rules) /\ \A rule \in ToSet(rules) : ShapedRule(rule)

(* The matches that are not regular expressions.                           *)
LEMMA LiteralsAre ==
  ASSUME NEW rules, ShapedRules(rules)
  PROVE  /\ IsList(LiteralMatches(rules))
         /\ \A m : m \in ToSet(LiteralMatches(rules)) <=>
              \E rule \in ToSet(rules) : m \in ToSet(rule.matches) /\ m.type \in {"Exact"} \cup PrefixTypes
<1> DEFINE Typed(ms) == {m \in ToSet(ms) : m.type \in {"Exact"} \cup PrefixTypes}
           Of(i) == Keep(rules[i].matches, Typed(rules[i].matches))
           s == [i \in 1..Len(rules) |-> Of(i)]
           X == {Of(i) : i \in DOMAIN rules}
<1>1. IsList(rules) /\ DOMAIN rules = 1..Len(rules)
  BY ListShape DEF ShapedRules
<1>2. ASSUME NEW i \in DOMAIN rules PROVE IsList(Of(i)) /\ ToSet(Of(i)) = Typed(rules[i].matches)
  <2>1. IsList(rules[i].matches)
    BY InToSet DEF ShapedRules, ShapedRule
  <2> DEFINE T == Typed(rules[i].matches)
  <2>2. T \subseteq ToSet(rules[i].matches)
    OBVIOUS
  <2> HIDE DEF T
  <2>3. IsList(Keep(rules[i].matches, T)) /\ ToSet(Keep(rules[i].matches, T)) = ToSet(rules[i].matches) \cap T
    BY <2>1, KeepList
  <2> QED
    BY <2>2, <2>3 DEF T
<1>3. LiteralMatches(rules) = FlattenSeq(s)
  BY DEF LiteralMatches
<1>4. \A i \in DOMAIN rules : \A m : m \in Typed(rules[i].matches) <=>
        m \in ToSet(rules[i].matches) /\ m.type \in {"Exact"} \cup PrefixTypes
  OBVIOUS
<1> HIDE DEF Typed, Of
<1>5. DOMAIN s = DOMAIN rules /\ (\A i \in DOMAIN rules : s[i] = Of(i)) /\ s \in [DOMAIN rules -> X]
  BY <1>1
<1> HIDE DEF s, X
<1>6. IsList(s)
  BY <1>1, <1>5, MadeList
<1>7. IsList(FlattenSeq(s)) /\ \A m : m \in ToSet(FlattenSeq(s)) <=> \E i \in DOMAIN s : m \in ToSet(s[i])
  BY <1>2, <1>5, <1>6, FlattenList
<1>8. ASSUME NEW m
      PROVE  m \in ToSet(FlattenSeq(s)) <=>
               \E rule \in ToSet(rules) : m \in ToSet(rule.matches) /\ m.type \in {"Exact"} \cup PrefixTypes
  <2>1. m \in ToSet(FlattenSeq(s)) <=>
          \E i \in DOMAIN rules : m \in ToSet(rules[i].matches) /\ m.type \in {"Exact"} \cup PrefixTypes
    BY <1>2, <1>4, <1>5, <1>7
  <2>2. \A rule : rule \in ToSet(rules) <=> \E i \in DOMAIN rules : rules[i] = rule
    BY InToSet
  <2> QED
    BY <2>1, <2>2
<1> QED
  BY <1>3, <1>7, <1>8

(* The paths that get a slash.                                             *)
LEMMA SourcesAre ==
  ASSUME NEW rules, ShapedRules(rules), NEW ms, ms = LiteralMatches(rules)
  PROVE  /\ IsList(SlashSources(rules))
         /\ \A p : p \in ToSet(SlashSources(rules)) <=>
              \E m \in ToSet(ms) : Slashed(m.path) /\ ~IsServed(ms, Front(m.path)) /\ p = Front(m.path)
<1> DEFINE S == {m \in ToSet(ms) : Slashed(m.path) /\ ~IsServed(ms, Front(m.path))}
           kept == Keep(ms, S)
           f == [i \in DOMAIN kept |-> Front(kept[i].path)]
           X == {Front(m.path) : m \in ToSet(ms)}
<1>1. SlashSources(rules) = Firsts(f)
  BY DEF SlashSources, WithoutSlash
<1>2. \A m : m \in S <=> m \in ToSet(ms) /\ Slashed(m.path) /\ ~IsServed(ms, Front(m.path))
  OBVIOUS
<1>3. S \subseteq ToSet(ms)
  OBVIOUS
<1> HIDE DEF S
<1>4. IsList(kept) /\ ToSet(kept) = S
  <2>1. IsList(ms)
    BY LiteralsAre
  <2>2. IsList(kept) /\ ToSet(kept) = ToSet(ms) \cap S
    BY <2>1, KeepList
  <2> QED
    BY <1>3, <2>2
<1> HIDE DEF kept
<1>5. DOMAIN f = DOMAIN kept /\ \A i \in DOMAIN kept : f[i] = Front(kept[i].path) /\ kept[i] \in S
  BY <1>4, InToSet
<1>6. f \in [DOMAIN kept -> X]
  <2>1. \A i \in DOMAIN kept : f[i] \in X
    BY <1>3, <1>5
  <2>2. f = [i \in DOMAIN kept |-> f[i]]
    OBVIOUS
  <2> HIDE DEF f, X
  <2> QED
    BY <1>5, <2>1, <2>2
<1> HIDE DEF f, X
<1>7. IsList(f)
  BY <1>4, <1>6, MadeList
<1>8. IsList(Firsts(f)) /\ ToSet(Firsts(f)) = ToSet(f)
  BY <1>7, FirstsHold
<1>9. ASSUME NEW p PROVE p \in ToSet(f) <=> \E m \in S : p = Front(m.path)
  <2>1. p \in ToSet(f) <=> \E i \in DOMAIN kept : p = Front(kept[i].path)
    BY <1>5, InToSet
  <2>2. \A m : m \in S <=> \E i \in DOMAIN kept : kept[i] = m
    BY <1>4, InToSet
  <2> QED
    BY <2>1, <2>2
<1> QED
  BY <1>1, <1>2, <1>8, <1>9

(* The rule that gives a path its slash.                                   *)
SlashRule(p, target) ==
  [matches |-> <<[type |-> "Exact", path |-> p, header |-> <<>>]>>,
   filters |-> <<<<"redirect", target>>>>, backends |-> <<>>]

(* Rules made of literals have the shape of rules.                         *)
LEMMA MadeShaped ==
  ASSUME NEW ms, IsList(ms), NEW f, NEW rule, rule = [matches |-> ms, filters |-> <<f>>, backends |-> <<>>]
  PROVE  ShapedRule(rule) /\ rule.matches = ms /\ rule.filters = <<f>> /\ rule.backends = <<>>
<1>1. IsList(<<f>>) /\ IsList(<<>>) /\ ToSet(<<>>) = {}
  <2>1. f \in {f}
    OBVIOUS
  <2>2. <<f>> \in Seq({f})
    BY <2>1, LiteralHolds
  <2> QED
    BY <2>2, SeqIsList, EmptyList
<1> QED
  BY <1>1 DEF ShapedRule, RuleParts

(* The rules for slashes redirect the paths of SlashSources.                *)
LEMMA SlashRulesAre ==
  ASSUME NEW rules, ShapedRules(rules), NEW target, NEW s, s = SlashRules(rules, target)
  PROVE  /\ ShapedRules(s)
         /\ \A x : x \in ToSet(s) <=> \E p \in ToSet(SlashSources(rules)) : x = SlashRule(p, target)
<1> DEFINE ps == SlashSources(rules)
           X == {SlashRule(p, target) : p \in ToSet(ps)}
<1>1. IsList(ps) /\ DOMAIN ps = 1..Len(ps)
  BY SourcesAre, ListShape
<1>2. s = [i \in DOMAIN ps |-> SlashRule(ps[i], target)]
  BY <1>1 DEF SlashRules, SlashRule
<1> HIDE DEF ps
<1>3. DOMAIN s = DOMAIN ps /\ \A i \in DOMAIN ps : s[i] = SlashRule(ps[i], target) /\ ps[i] \in ToSet(ps)
  BY <1>2, InToSet
<1>4. s \in [DOMAIN ps -> X]
  <2>1. \A i \in DOMAIN ps : s[i] \in X
    BY <1>3
  <2>2. s = [i \in DOMAIN ps |-> s[i]]
    BY <1>2, <1>3
  <2> HIDE DEF X
  <2> QED
    BY <2>1, <2>2
<1> HIDE DEF X
<1>5. IsList(s)
  BY <1>1, <1>4, MadeList
<1>6. ASSUME NEW x PROVE x \in ToSet(s) <=> \E p \in ToSet(ps) : x = SlashRule(p, target)
  <2>1. x \in ToSet(s) <=> \E i \in DOMAIN ps : x = SlashRule(ps[i], target)
    BY <1>3, InToSet
  <2>2. \A p : p \in ToSet(ps) <=> \E i \in DOMAIN ps : ps[i] = p
    BY InToSet
  <2> QED
    BY <2>1, <2>2
<1>7. ASSUME NEW p PROVE ShapedRule(SlashRule(p, target))
  <2> DEFINE m == [type |-> "Exact", path |-> p, header |-> <<>>]
  <2>1. <<m>> \in Seq({m})
    <3>1. m \in {m}
      OBVIOUS
    <3> HIDE DEF m
    <3> QED
      BY <3>1, LiteralHolds
  <2>2. IsList(<<m>>)
    <3> HIDE DEF m
    <3> QED
      BY <2>1, SeqIsList
  <2> QED
    BY <2>2, MadeShaped DEF SlashRule
<1> QED
  BY <1>5, <1>6, <1>7 DEF ShapedRules, ps

(* The rules for port 80.                                                  *)
UpgradeRule(ms) == [matches |-> ms, filters |-> <<<<"redirect", "https">>>>, backends |-> <<>>]

PlainRule(r, rules, i) == IF Upgraded(r, i) THEN UpgradeRule(rules[i].matches) ELSE rules[i]

(* The rules for port 80 are those whose Ingress speaks for them.           *)
LEMMA PlainRulesAre ==
  ASSUME NEW r, IsList(r.sources), NEW rules, ShapedRules(rules), NEW s, s = PlainRules(r, rules)
  PROVE  /\ ShapedRules(s)
         /\ \A x : x \in ToSet(s) <=> \E i \in DOMAIN r.sources :
              i \in DOMAIN rules /\ Speakers(r, i) # {} /\ x = PlainRule(r, rules, i)
<1> DEFINE Of(i) == CASE Speakers(r, i) = {} \/ i > Len(rules) -> <<>>
                      [] Speakers(r, i) # {} /\ i <= Len(rules) /\ Upgraded(r, i) ->
                           <<[matches |-> rules[i].matches, filters |-> <<<<"redirect", "https">>>>, backends |-> <<>>]>>
                      [] OTHER -> <<rules[i]>>
           f == [i \in 1..Len(r.sources) |-> Of(i)]
           X == {Of(i) : i \in DOMAIN r.sources}
<1>1. /\ DOMAIN r.sources = 1..Len(r.sources) /\ DOMAIN rules = 1..Len(rules) /\ IsList(rules)
      /\ Len(r.sources) \in Nat /\ Len(rules) \in Nat
  BY ListShape DEF ShapedRules
<1>2. s = FlattenSeq(f)
  BY DEF PlainRules
<1>3. ASSUME NEW i \in DOMAIN r.sources
      PROVE  /\ i \notin DOMAIN rules \/ Speakers(r, i) = {} => Of(i) = <<>>
             /\ i \in DOMAIN rules /\ Speakers(r, i) # {} => Of(i) = <<PlainRule(r, rules, i)>>
  <2>1. i \in DOMAIN rules <=> i <= Len(rules)
    BY <1>1
  <2>2. i \in DOMAIN rules <=> ~(i > Len(rules))
    BY <1>1
  <2> QED
    BY <2>1, <2>2 DEF PlainRule, UpgradeRule
<1> HIDE DEF Of
<1>4. ASSUME NEW i \in DOMAIN r.sources
      PROVE  /\ IsList(Of(i))
             /\ \A x : x \in ToSet(Of(i)) <=> i \in DOMAIN rules /\ Speakers(r, i) # {} /\ x = PlainRule(r, rules, i)
  <2>1. CASE i \notin DOMAIN rules \/ Speakers(r, i) = {}
    BY <1>3, <2>1, EmptyList
  <2>2. CASE i \in DOMAIN rules /\ Speakers(r, i) # {}
    <3> PICK rule : rule = PlainRule(r, rules, i)
      OBVIOUS
    <3>1. rule \in {rule}
      OBVIOUS
    <3>2. <<rule>> \in Seq({rule}) /\ ToSet(<<rule>>) = {rule}
      BY <3>1, LiteralHolds
    <3>3. IsList(<<rule>>)
      BY <3>2, SeqIsList
    <3> QED
      BY <1>3, <2>2, <3>2, <3>3
  <2> QED
    BY <2>1, <2>2
<1>5. DOMAIN f = DOMAIN r.sources /\ (\A i \in DOMAIN r.sources : f[i] = Of(i)) /\ f \in [DOMAIN r.sources -> X]
  BY <1>1
<1> HIDE DEF f, X
<1>6. IsList(f)
  BY <1>5, MadeList
<1>7. IsList(s) /\ \A x : x \in ToSet(s) <=> \E i \in DOMAIN f : x \in ToSet(f[i])
  BY <1>2, <1>4, <1>5, <1>6, FlattenList
<1>8. \A x : x \in ToSet(s) <=> \E i \in DOMAIN r.sources :
        i \in DOMAIN rules /\ Speakers(r, i) # {} /\ x = PlainRule(r, rules, i)
  BY <1>4, <1>5, <1>7
<1>9. ASSUME NEW i \in DOMAIN rules PROVE ShapedRule(PlainRule(r, rules, i))
  <2>1. ShapedRule(rules[i])
    BY InToSet DEF ShapedRules
  <2> PICK ms : ms = rules[i].matches
    OBVIOUS
  <2>2. IsList(ms)
    BY <2>1 DEF ShapedRule
  <2>3. ShapedRule(UpgradeRule(ms))
    BY <2>2, MadeShaped DEF UpgradeRule
  <2> QED
    BY <2>1, <2>3 DEF PlainRule
<1> QED
  BY <1>7, <1>8, <1>9 DEF ShapedRules

(* Rules behind rules.                                                     *)
LEMMA RulesJoined ==
  ASSUME NEW a, ShapedRules(a), NEW b, ShapedRules(b), NEW c, c = a \o b
  PROVE  /\ ShapedRules(c) /\ ToSet(c) = ToSet(a) \cup ToSet(b)
         /\ \A i \in DOMAIN a : i \in DOMAIN c /\ c[i] = a[i]
         /\ \A n \in DOMAIN c \ DOMAIN a : c[n] \in ToSet(b)
<1>0. IsList(a) /\ IsList(b)
  BY DEF ShapedRules
<1>1. /\ IsList(c) /\ \A i \in DOMAIN a : i \in DOMAIN c /\ c[i] = a[i]
      /\ \A n \in DOMAIN c \ DOMAIN a : c[n] \in ToSet(b)
      /\ \A e \in ToSet(b) : \E n \in DOMAIN c \ DOMAIN a : c[n] = e
  <2>1. Behind(a, b, c)
    BY <1>0, ConcatBehind
  <2> QED
    BY <2>1 DEF Behind
<1>2. ASSUME NEW x PROVE x \in ToSet(c) <=> x \in ToSet(a) \/ x \in ToSet(b)
  <2>1. ASSUME x \in ToSet(c) PROVE x \in ToSet(a) \/ x \in ToSet(b)
    <3>1. PICK n \in DOMAIN c : c[n] = x
      BY <2>1, InToSet
    <3>2. CASE n \in DOMAIN a
      <4>1. a[n] = x
        BY <1>1, <3>1, <3>2
      <4> QED
        BY <3>2, <4>1, InToSet
    <3>3. CASE n \notin DOMAIN a
      BY <1>1, <3>1, <3>3
    <3> QED
      BY <3>2, <3>3
  <2>2. ASSUME x \in ToSet(a) PROVE x \in ToSet(c)
    <3>1. PICK n \in DOMAIN a : a[n] = x
      BY <2>2, InToSet
    <3>2. n \in DOMAIN c /\ c[n] = x
      BY <1>1, <3>1
    <3> QED
      BY <3>2, InToSet
  <2>3. ASSUME x \in ToSet(b) PROVE x \in ToSet(c)
    <3>1. PICK n \in DOMAIN c : c[n] = x
      BY <1>1, <2>3
    <3> QED
      BY <3>1, InToSet
  <2> QED
    BY <2>1, <2>2, <2>3
<1>3. ToSet(c) = ToSet(a) \cup ToSet(b)
  BY <1>2
<1>4. ASSUME NEW rule \in ToSet(c) PROVE ShapedRule(rule)
  BY <1>2 DEF ShapedRules
<1> QED
  BY <1>1, <1>3, <1>4 DEF ShapedRules

(* Policies are finitely many.                                             *)
LEMMA PoliciesFinite ==
  ASSUME NEW r, IsList(r.rules)
  PROVE  IsFiniteSet(Policies(r))
<1> PICK n : n = Len(r.rules)
  OBVIOUS
<1>1. n \in Nat
  BY ListShape
<1> DEFINE Kinds == {"captures", "rewrite", "ipRange", "timeouts", "cors", "bodySize"}
           S == {NonCanary(r.sources[i]) : i \in 1..n}
           Y == UNION S
<1>2. \A p \in Rewrites(r) : p \in Kinds \X (1..n) \X Y
  BY DEF Rewrites, ByRule
<1>3. \A p \in IPRangeControls(r) \cup Timeouts(r) : p \in Kinds \X (1..n) \X Y
  BY DEF IPRangeControls, Timeouts, ByRule
<1>4. \A p \in CorsPolicies(r) \cup BodySizes(r) : p \in Kinds \X (1..n) \X Y
  <2>1. \A p \in CorsPolicies(r) : p \in Kinds \X (1..n) \X Y
    BY DEF CorsPolicies, ByRule
  <2>2. \A p \in BodySizes(r) : p \in Kinds \X (1..n) \X Y
    BY DEF BodySizes, ByRule
  <2> QED
    BY <2>1, <2>2
<1>5. IsFiniteSet(Y)
  <2>1. ASSUME NEW x \in S PROVE IsFiniteSet(x)
    <3>1. PICK i \in 1..n : x = NonCanary(r.sources[i])
      BY Zenon
    <3>2. PICK y : x \subseteq {y}
      BY <3>1, Zenon DEF NonCanary
    <3>3. IsFiniteSet({y})
      BY FS_Singleton
    <3> QED
      BY <3>2, <3>3, FS_Subset
  <2>2. IsFiniteSet(S)
    <3> DEFINE h == [i \in 1..n |-> NonCanary(r.sources[i])]
    <3>1. h \in Surjection(1..n, S)
      BY DEF Surjection
    <3>2. IsFiniteSet(1..n)
      <4>1. 1 \in Int /\ n \in Int
        BY <1>1
      <4> QED
        BY <4>1, FS_Interval
    <3> QED
      BY <3>1, <3>2, FS_Surjection
  <2> HIDE DEF S
  <2> QED
    BY <2>1, <2>2, FS_UNION
<1>6. IsFiniteSet(Kinds)
  <2>1. IsFiniteSet({"captures", "rewrite"}) /\ IsFiniteSet({"ipRange", "timeouts"}) /\ IsFiniteSet({"cors", "bodySize"})
    <3>3. ASSUME NEW a, NEW b PROVE IsFiniteSet({a, b})
      <4> DEFINE u == {a} \cup {b}
      <4>1. IsFiniteSet({a}) /\ IsFiniteSet({b})
        BY FS_Singleton
      <4>2. IsFiniteSet(u)
        BY <4>1, FS_Union
      <4>3. u = {a, b}
        OBVIOUS
      <4> HIDE DEF u
      <4> QED
        BY <4>2, <4>3
    <3> QED
      BY <3>3
  <2>2. Kinds = ({"captures", "rewrite"} \cup {"ipRange", "timeouts"}) \cup {"cors", "bodySize"}
    OBVIOUS
  <2> HIDE DEF Kinds
  <2> QED
    BY <2>1, <2>2, FS_Union
<1>7. IsFiniteSet(1..n)
  <2>1. 1 \in Int /\ n \in Int
    BY <1>1
  <2> QED
    BY <2>1, FS_Interval
<1>8. Policies(r) \subseteq UNION {{<<k, i, y>> : y \in Y, k \in Kinds} : i \in 1..n}
  <2>1. \A p \in Policies(r) : p \in Kinds \X (1..n) \X Y
    BY <1>2, <1>3, <1>4 DEF Policies
  <2> HIDE DEF Kinds, Y
  <2> QED
    BY <2>1
<1> HIDE DEF Kinds, S, Y
<1>9. \A i \in 1..n : IsFiniteSet({<<k, i, y>> : y \in Y, k \in Kinds})
  <2> TAKE i \in 1..n
  <2> DEFINE h == [q \in Kinds \X Y |-> <<q[1], i, q[2]>>]
             T == {<<k, i, y>> : y \in Y, k \in Kinds}
  <2>1. IsFiniteSet(Kinds \X Y)
    BY <1>5, <1>6, FS_Product
  <2>2. \A t : t \in T <=> \E k \in Kinds : \E y \in Y : t = <<k, i, y>>
    OBVIOUS
  <2>3. ASSUME NEW k \in Kinds, NEW y \in Y PROVE <<k, y>> \in DOMAIN h /\ h[<<k, y>>] = <<k, i, y>>
    OBVIOUS
  <2>4. \A q \in Kinds \X Y : h[q] \in T
    OBVIOUS
  <2> HIDE DEF T
  <2>5. h \in [Kinds \X Y -> T] /\ DOMAIN h = Kinds \X Y
    BY <2>4
  <2> HIDE DEF h
  <2>6. h \in Surjection(Kinds \X Y, T)
    <3>1. ASSUME NEW t \in T PROVE \E q \in Kinds \X Y : h[q] = t
      <4>1. PICK k \in Kinds : \E y \in Y : t = <<k, i, y>>
        BY <2>2
      <4>2. PICK y \in Y : t = <<k, i, y>>
        BY <4>1
      <4>3. <<k, y>> \in Kinds \X Y /\ h[<<k, y>>] = t
        BY <2>3, <2>5, <4>2
      <4> QED
        BY <4>3
    <3> QED
      BY <2>5, <3>1 DEF Surjection
  <2>7. IsFiniteSet(T)
    BY <2>1, <2>6, FS_Surjection
  <2> QED
    BY <2>7 DEF T
<1>10. IsFiniteSet({{<<k, i, y>> : y \in Y, k \in Kinds} : i \in 1..n})
  <2> DEFINE Of(i) == {<<k, i, y>> : y \in Y, k \in Kinds}
             h == [i \in 1..n |-> Of(i)]
             T == {Of(i) : i \in 1..n}
  <2> HIDE DEF Of
  <2>1. h \in Surjection(1..n, T)
    BY DEF Surjection
  <2>2. IsFiniteSet(T)
    BY <1>7, <2>1, FS_Surjection
  <2> QED
    BY <2>2 DEF Of
<1>11. IsFiniteSet(UNION {{<<k, i, y>> : y \in Y, k \in Kinds} : i \in 1..n})
  <2> DEFINE T == {{<<k, i, y>> : y \in Y, k \in Kinds} : i \in 1..n}
  <2>1. \A x \in T : IsFiniteSet(x)
    BY <1>9
  <2>2. IsFiniteSet(T)
    BY <1>10
  <2> HIDE DEF T
  <2>3. IsFiniteSet(UNION T)
    BY <2>1, <2>2, FS_UNION
  <2> QED
    BY <2>3 DEF T
<1> QED
  BY <1>8, <1>11, FS_Subset

(* A list of rules as its places and as its elements.                      *)
LEMMA RulesByPlace ==
  ASSUME NEW rules
  PROVE  ShapedRules(rules) <=> IsList(rules) /\ \A i \in DOMAIN rules : ShapedRule(rules[i])
<1>1. ASSUME ShapedRules(rules) PROVE IsList(rules) /\ \A i \in DOMAIN rules : ShapedRule(rules[i])
  BY <1>1, InToSet DEF ShapedRules
<1>2. ASSUME IsList(rules), \A i \in DOMAIN rules : ShapedRule(rules[i]) PROVE ShapedRules(rules)
  <2>1. ASSUME NEW rule \in ToSet(rules) PROVE ShapedRule(rule)
    <3>1. PICK i \in DOMAIN rules : rules[i] = rule
      BY InToSet
    <3> QED
      BY <1>2, <3>1
  <2> QED
    BY <1>2, <2>1 DEF ShapedRules
<1> QED
  BY <1>1, <1>2

(* The shape of a route is that of its rules.                               *)
LEMMA ShapedByRules ==
  ASSUME NEW e
  PROVE  Shaped(e) <=> DOMAIN e = EmitParts /\ ShapedRules(e.rules) /\ IsFiniteSet(e.policies)
<1>1. ShapedRules(e.rules) <=> IsList(e.rules) /\ \A i \in DOMAIN e.rules : ShapedRule(e.rules[i])
  BY RulesByPlace
<1> QED
  BY <1>1 DEF Shaped

(* What convert leaves has the shape of rules.                             *)
LEMMA ConvertedShaped ==
  ASSUME NEW a, NEW r, GoodRoute(r), Sited(a, r)
  PROVE  ShapedRules(r.rules) /\ IsList(r.sources)
<1>1. ASSUME NEW i \in DOMAIN r.rules PROVE ShapedRule(r.rules[i])
  <2>1. GoodRule(r.ns, r.rules[i], r.sources[i]) /\ SitedRule(r.host, r.rules[i])
    BY DEF GoodRoute, Sited
  <2>2. ASSUME NEW b \in ToSet(r.rules[i].backends) PROVE DOMAIN b = BackendParts
    <3>1. PICK j \in DOMAIN r.rules[i].backends : r.rules[i].backends[j] = b
      BY InToSet
    <3> QED
      BY <2>1, <3>1 DEF GoodRule, SourcedBy
  <2> QED
    BY <2>1, <2>2 DEF GoodRule, SitedRule, ShapedRule
<1> QED
  BY <1>1, RulesByPlace DEF GoodRoute

(* The routes that the passes make, from rules of their shape.             *)
LEMMA RulesExtended ==
  ASSUME NEW rules, ShapedRules(rules), NEW target
  PROVE  ShapedRules(rules \o SlashRules(rules, target))
<1> PICK s : s = SlashRules(rules, target)
  OBVIOUS
<1> PICK c : c = rules \o s
  OBVIOUS
<1>1. ShapedRules(s)
  BY SlashRulesAre
<1>2. ShapedRules(c)
  BY <1>1, RulesJoined
<1> QED
  BY <1>2

PlainParts(r, rules, slash, e) ==
  /\ Shaped(e) /\ e.ns = r.ns /\ e.host = r.host /\ Key(e) = PlainKey(r) /\ e.policies = {}
  /\ e.rules = PlainRules(r, rules) \o slash
  /\ e.refs = <<[gateway |-> r.parent, port |-> 80, section |-> <<>>]>>

(* The route for port 80.                                                   *)
LEMMA PlainShaped ==
  ASSUME NEW r, IsList(r.sources), NEW rules, ShapedRules(rules), NEW slash, ShapedRules(slash)
  PROVE  PlainParts(r, rules, slash, PlainRoute(r, rules, slash))
<1>e. PICK e : e = PlainRoute(r, rules, slash)
  OBVIOUS
<1>p. PICK plain : plain = PlainRules(r, rules)
  OBVIOUS
<1>c. PICK c : c = plain \o slash
  OBVIOUS
<1>1. ShapedRules(plain)
  BY <1>p, PlainRulesAre
<1>2. ShapedRules(c)
  BY <1>1, <1>c, RulesJoined
<1>3. /\ DOMAIN e = EmitParts /\ e.rules = PlainRules(r, rules) \o slash /\ e.policies = {} /\ e.ns = r.ns /\ e.host = r.host
      /\ e.name = r.name \o <<"http">>
      /\ e.refs = <<[gateway |-> r.parent, port |-> 80, section |-> <<>>]>>
  BY <1>e DEF PlainRoute, EmitParts
<1>4. IsFiniteSet({})
  BY FS_EmptySet
<1>5. ShapedRules(e.rules)
  BY <1>2, <1>3, <1>c, <1>p
<1>6. Shaped(e)
  BY <1>3, <1>4, <1>5, ShapedByRules
<1>7. Key(e) = PlainKey(r)
  BY <1>3 DEF Key, PlainKey
<1> QED
  BY <1>3, <1>6, <1>7, <1>e DEF PlainParts

Reruled(e, rules) == [e EXCEPT !.rules = rules]

(* A route with other rules.                                                *)
LEMMA MainShaped ==
  ASSUME NEW e, Shaped(e), NEW rules, ShapedRules(rules)
  PROVE  /\ Shaped(Reruled(e, rules)) /\ Reruled(e, rules).ns = e.ns /\ Reruled(e, rules).host = e.host
         /\ Reruled(e, rules).rules = rules /\ Reruled(e, rules).refs = e.refs
<1>m. PICK main : main = Reruled(e, rules)
  OBVIOUS
<1>1. DOMAIN e = EmitParts /\ IsFiniteSet(e.policies)
  BY DEF Shaped
<1>2. /\ DOMAIN main = EmitParts /\ main.ns = e.ns /\ main.host = e.host /\ main.rules = rules
      /\ main.policies = e.policies /\ main.refs = e.refs
  BY <1>1, <1>m DEF EmitParts, Reruled
<1>3. Shaped(main)
  BY <1>1, <1>2, ShapedByRules
<1> QED
  BY <1>2, <1>3, <1>m

BoundParts(e, port, section, b) ==
  /\ Shaped(b) /\ b.ns = e.ns /\ b.host = e.host /\ b.rules = e.rules
  /\ b.refs = [n \in 1..Len(e.refs) |-> BoundRef(e.refs[n], port, section)]

(* A route bound to a port and a section.                                   *)
LEMMA BoundShaped ==
  ASSUME NEW e, Shaped(e), NEW port, NEW section
  PROVE  BoundParts(e, port, section, Bound(e, port, section))
<1>b. PICK b : b = Bound(e, port, section)
  OBVIOUS
<1>r. PICK refs : refs = [n \in 1..Len(e.refs) |-> BoundRef(e.refs[n], port, section)]
  OBVIOUS
<1>1. DOMAIN e = EmitParts /\ IsFiniteSet(e.policies) /\ ShapedRules(e.rules)
  BY ShapedByRules
<1>2. b = [e EXCEPT !.refs = refs]
  BY <1>b, <1>r, <1>1 DEF Bound
<1>3. /\ DOMAIN b = EmitParts /\ b.ns = e.ns /\ b.host = e.host /\ b.rules = e.rules
      /\ b.policies = e.policies /\ b.refs = refs
  BY <1>1, <1>2 DEF EmitParts
<1>4. Shaped(b)
  BY <1>1, <1>3, ShapedByRules
<1> QED
  BY <1>3, <1>4, <1>b, <1>r DEF BoundParts

(* A sequence of one.                                                       *)
LEMMA OneElement ==
  ASSUME NEW x
  PROVE  DOMAIN <<x>> = {1} /\ <<x>>[1] = x /\ IsList(<<x>>) /\ ToSet(<<x>>) = {x}
<1>1. x \in {x}
  OBVIOUS
<1>2. <<x>> \in Seq({x}) /\ ToSet(<<x>>) = {x}
  BY <1>1, LiteralHolds
<1>3. IsList(<<x>>)
  BY <1>2, SeqIsList
<1>4. DOMAIN <<x>> = {1} /\ <<x>>[1] = x
  OBVIOUS
<1> QED
  BY <1>2, <1>3, <1>4

(* The route that redirects the other name.                                 *)
LEMMA WWWShaped ==
  ASSUME NEW r, NEW e, e = WWWRoute(r)
  PROVE  /\ Shaped(e) /\ e.ns = r.ns /\ e.host = OtherName(r.host) /\ Key(e) = WWWKey(r) /\ e.policies = {}
         /\ DOMAIN e.rules = {1} /\ e.rules[1].matches = <<>>
         /\ e.rules[1].filters = <<<<"redirect host", r.host>>>>
         /\ e.refs = <<[gateway |-> r.parent, port |-> 80, section |-> Append(Dashed(OtherName(r.host)), "http")],
                       [gateway |-> r.parent, port |-> 443, section |-> Append(Dashed(OtherName(r.host)), "https")]>>
<1> PICK rule : rule = [matches |-> <<>>, filters |-> <<<<"redirect host", r.host>>>>, backends |-> <<>>]
  OBVIOUS
<1> PICK rules : rules = <<rule>>
  OBVIOUS
<1>1. ShapedRule(rule) /\ rule.matches = <<>> /\ rule.filters = <<<<"redirect host", r.host>>>>
  <2>1. IsList(<<>>)
    BY EmptyList
  <2> QED
    BY <2>1, MadeShaped
<1>2. ShapedRules(rules) /\ DOMAIN rules = {1} /\ rules[1] = rule
  <2>1. IsList(<<rule>>) /\ ToSet(<<rule>>) = {rule} /\ DOMAIN <<rule>> = {1} /\ <<rule>>[1] = rule
    BY OneElement
  <2>2. ShapedRules(<<rule>>)
    BY <1>1, <2>1 DEF ShapedRules
  <2> QED
    BY <2>1, <2>2
<1>3. /\ DOMAIN e = EmitParts /\ e.rules = rules /\ e.policies = {} /\ e.ns = r.ns /\ e.host = OtherName(r.host)
      /\ e.refs = <<[gateway |-> r.parent, port |-> 80, section |-> Append(Dashed(OtherName(r.host)), "http")],
                    [gateway |-> r.parent, port |-> 443, section |-> Append(Dashed(OtherName(r.host)), "https")]>>
  BY DEF WWWRoute, EmitParts
<1>4. IsFiniteSet({})
  BY FS_EmptySet
<1>5. Key(e) = WWWKey(r)
  BY DEF WWWKey
<1> QED
  BY <1>1, <1>2, <1>3, <1>4, <1>5, ShapedByRules

(* What ApplyPolicies makes of a route.                                     *)
LEMMA EmittableShaped ==
  ASSUME NEW r, ShapedRules(r.rules), NEW e, e = Emittable(r)
  PROVE  /\ Shaped(e) /\ e.ns = r.ns /\ e.host = r.host /\ e.rules = r.rules /\ e.policies = Policies(r)
         /\ e.refs = <<[gateway |-> r.parent, port |-> 0, section |-> <<>>]>>
<1>1. /\ DOMAIN e = EmitParts /\ e.ns = r.ns /\ e.host = r.host /\ e.rules = r.rules /\ e.policies = Policies(r)
      /\ e.refs = <<[gateway |-> r.parent, port |-> 0, section |-> <<>>]>>
  BY DEF Emittable, EmitParts
<1>2. IsFiniteSet(Policies(r))
  <2>1. IsList(r.rules)
    BY DEF ShapedRules
  <2> QED
    BY <2>1, PoliciesFinite
<1> QED
  BY <1>1, <1>2, ShapedByRules

(* One ref of a route of its own.                                          *)
OneRef(r, port, section) == <<[gateway |-> r.parent, port |-> port, section |-> section]>>

(* A reference that is bound.                                               *)
LEMMA RefBound ==
  ASSUME NEW gw, NEW old, NEW none, NEW port, NEW section
  PROVE  BoundRef([gateway |-> gw, port |-> old, section |-> none], port, section) =
           [gateway |-> gw, port |-> port, section |-> section]
<1>r. PICK ref : ref = [gateway |-> gw, port |-> old, section |-> none]
  OBVIOUS
<1>n. PICK new : new = BoundRef(ref, port, section)
  OBVIOUS
<1>1. ref = [x \in {"gateway", "port", "section"} |-> ref[x]] /\ ref.gateway = gw
  BY <1>r
<1>2. new = [x \in DOMAIN ref |-> IF x = "port" THEN port ELSE IF x = "section" THEN section ELSE ref[x]]
  BY <1>n, <1>1 DEF BoundRef
<1>3. new = [x \in {"gateway", "port", "section"} |-> IF x = "port" THEN port ELSE IF x = "section" THEN section ELSE gw]
  BY <1>1, <1>2
<1>4. [gateway |-> gw, port |-> port, section |-> section] =
        [x \in {"gateway", "port", "section"} |-> IF x = "port" THEN port ELSE IF x = "section" THEN section ELSE gw]
  OBVIOUS
<1> QED
  BY <1>3, <1>4, <1>n, <1>r

(* The two forms that a route can take on its way.                          *)
LEMMA FormsShaped ==
  ASSUME NEW r, ShapedRules(r.rules), IsList(r.sources)
  PROVE  /\ ShapedRules(MainRules(r))
         /\ Shaped(MainForm(r)) /\ MainForm(r).ns = r.ns /\ MainForm(r).host = r.host
         /\ MainForm(r).rules = MainRules(r)
         /\ MainForm(r).refs = IF MainSplits(r) THEN OneRef(r, 443, ListenerName(r.host, "https"))
                               ELSE OneRef(r, 0, <<>>)
         /\ Shaped(PlainForm(r)) /\ PlainForm(r).ns = r.ns /\ PlainForm(r).host = r.host
         /\ PlainForm(r).rules = PlainRules(r, MainRules(r)) \o SlashRules(r.rules, "https slash")
         /\ PlainForm(r).refs = OneRef(r, 80, <<>>) /\ PlainForm(r).policies = {}
         /\ Key(PlainForm(r)) = PlainKey(r)
<1>a. PICK e : e = Emittable(r)
  OBVIOUS
<1>b. PICK rules : rules = MainRules(r)
  OBVIOUS
<1>c. PICK main : main = Reruled(e, rules)
  OBVIOUS
<1>d. PICK new : new = MainForm(r)
  OBVIOUS
<1>e. PICK section : section = ListenerName(r.host, "https")
  OBVIOUS
<1>1. ShapedRules(rules)
  BY <1>b, RulesExtended DEF MainRules
<1>2. /\ Shaped(e) /\ e.ns = r.ns /\ e.host = r.host
      /\ e.refs = <<[gateway |-> r.parent, port |-> 0, section |-> <<>>]>>
  BY <1>a, EmittableShaped
<1>3. new = IF MainSplits(r) THEN Bound(main, 443, section) ELSE main
  BY <1>a, <1>b, <1>c, <1>d, <1>e DEF MainForm, Extended, Reruled
<1>4. /\ Shaped(new) /\ new.ns = e.ns /\ new.host = e.host /\ new.rules = rules
      /\ new = main => new.refs = e.refs
      /\ MainSplits(r) => new.refs = [n \in 1..Len(e.refs) |-> BoundRef(e.refs[n], 443, section)]
  <2>1. Shaped(main) /\ main.ns = e.ns /\ main.host = e.host /\ main.rules = rules /\ main.refs = e.refs
    BY <1>1, <1>2, <1>c, MainShaped
  <2>2. /\ Shaped(Bound(main, 443, section)) /\ Bound(main, 443, section).ns = main.ns
        /\ Bound(main, 443, section).host = main.host /\ Bound(main, 443, section).rules = main.rules
        /\ Bound(main, 443, section).refs = [n \in 1..Len(main.refs) |-> BoundRef(main.refs[n], 443, section)]
    BY <2>1, BoundShaped DEF BoundParts
  <2> QED
    BY <1>3, <2>1, <2>2
<1>5. [n \in 1..Len(e.refs) |-> BoundRef(e.refs[n], 443, section)] = OneRef(r, 443, section)
  <2>1. PICK ref : ref = [gateway |-> r.parent, port |-> 0, section |-> <<>>]
    OBVIOUS
  <2>2. BoundRef(ref, 443, section) = [gateway |-> r.parent, port |-> 443, section |-> section]
    BY <2>1, RefBound
  <2>3. e.refs = <<ref>>
    BY <1>2, <2>1
  <2>4. [n \in 1..Len(<<ref>>) |-> BoundRef(<<ref>>[n], 443, section)] = <<BoundRef(ref, 443, section)>>
    OBVIOUS
  <2> QED
    BY <2>2, <2>3, <2>4 DEF OneRef
<1>6. new.refs = IF MainSplits(r) THEN OneRef(r, 443, section) ELSE OneRef(r, 0, <<>>)
  BY <1>2, <1>3, <1>4, <1>5 DEF OneRef
<1>f. PICK slash : slash = SlashRules(r.rules, "https slash")
  OBVIOUS
<1>g. PICK plain : plain = PlainForm(r)
  OBVIOUS
<1>7. ShapedRules(slash)
  BY <1>f, SlashRulesAre
<1>8. plain = PlainRoute(r, rules, slash)
  BY <1>b, <1>f, <1>g DEF PlainForm
<1>9. /\ Shaped(plain) /\ plain.ns = r.ns /\ plain.host = r.host /\ Key(plain) = PlainKey(r) /\ plain.policies = {}
      /\ plain.rules = PlainRules(r, rules) \o slash
      /\ plain.refs = <<[gateway |-> r.parent, port |-> 80, section |-> <<>>]>>
  BY <1>1, <1>7, <1>8, PlainShaped DEF PlainParts
<1> QED
  BY <1>1, <1>2, <1>4, <1>6, <1>9, <1>b, <1>d, <1>e, <1>f, <1>g DEF OneRef

-----------------------------------------------------------------------------
(* The visit of a route by addSSLAndTrailingSlashRedirects, wherever the   *)
(* route of that name comes from.                                          *)
LEMMA VisitShapes ==
  ASSUME NEW r, IsList(r.sources), NEW old, Shaped(old),
         NEW rules, ShapedRules(rules), NEW slash, ShapedRules(slash), NEW port, NEW section
  PROVE  /\ Shaped(Bound(Reruled(old, rules), port, section))
         /\ Bound(Reruled(old, rules), port, section).ns = old.ns
         /\ Shaped(PlainRoute(r, rules, slash)) /\ PlainRoute(r, rules, slash).ns = r.ns
         /\ Key(PlainRoute(r, rules, slash)) = PlainKey(r)
<1>1. Shaped(Reruled(old, rules)) /\ Reruled(old, rules).ns = old.ns
  BY MainShaped
<1>2. BoundParts(Reruled(old, rules), port, section, Bound(Reruled(old, rules), port, section))
  BY <1>1, BoundShaped
<1>3. PlainParts(r, rules, slash, PlainRoute(r, rules, slash))
  BY PlainShaped
<1> QED
  BY <1>1, <1>2, <1>3 DEF BoundParts, PlainParts

VisitKeeps(routes, r, new, k) ==
  /\ DOMAIN routes \subseteq DOMAIN new /\ DOMAIN new \subseteq DOMAIN routes \cup {PlainKey(r)}
  /\ \A x \in DOMAIN new : x \notin {k, PlainKey(r)} => new[x] = routes[x]
  /\ Shaped(new[k]) /\ new[k].ns = routes[k].ns
  /\ PlainKey(r) \in DOMAIN new /\ PlainKey(r) # k =>
       \/ PlainKey(r) \in DOMAIN routes /\ new[PlainKey(r)] = routes[PlainKey(r)]
       \/ Shaped(new[PlainKey(r)]) /\ new[PlainKey(r)].ns = r.ns

(* The visit, whatever route has the name.                                  *)
LEMMA RedirectsShape ==
  ASSUME NEW routes, NEW r, Key(r) \in DOMAIN routes, Shaped(routes[Key(r)]), IsList(r.sources)
  PROVE  VisitKeeps(routes, r, WithRedirects(routes, r), Key(r))
<1>k. PICK k : k = Key(r)
  OBVIOUS
<1>n. PICK new : new = WithRedirects(routes, r)
  OBVIOUS
<1>0. k \in DOMAIN routes /\ Shaped(routes[k])
  BY <1>k
<1>a. PICK old : old = routes[k]
  OBVIOUS
<1>b. PICK rules : rules = old.rules \o SlashRules(old.rules, "slash")
  OBVIOUS
<1>c. PICK slash : slash = SlashRules(old.rules, "https slash")
  OBVIOUS
<1>d. PICK main : main = Reruled(old, rules)
  OBVIOUS
<1>e. PICK plain : plain = PlainRoute(r, rules, slash)
  OBVIOUS
<1>f. PICK section : section = ListenerName(old.host, "https")
  OBVIOUS
<1>g. PICK bound : bound = Bound(main, 443, section)
  OBVIOUS
<1>1. ShapedRules(old.rules)
  BY <1>0, <1>a, ShapedByRules
<1>2. ShapedRules(rules) /\ ShapedRules(slash)
  BY <1>1, <1>b, <1>c, RulesExtended, SlashRulesAre
<1>3. Shaped(main) /\ main.ns = old.ns /\ Shaped(bound) /\ bound.ns = old.ns
  <2>1. Shaped(old)
    BY <1>0, <1>a
  <2>2. Shaped(main) /\ main.ns = old.ns
    BY <1>2, <1>d, <2>1, MainShaped
  <2>3. Shaped(bound) /\ bound.ns = old.ns
    <3>1. Shaped(Bound(main, 443, section)) /\ Bound(main, 443, section).ns = main.ns
      BY <1>2, <1>d, <2>1, <2>2, VisitShapes
    <3> QED
      BY <1>g, <2>2, <3>1
  <2> QED
    BY <2>2, <2>3
<1>4. Shaped(plain) /\ plain.ns = r.ns /\ Key(plain) = PlainKey(r)
  <2>1. /\ Shaped(PlainRoute(r, rules, slash)) /\ PlainRoute(r, rules, slash).ns = r.ns
        /\ Key(PlainRoute(r, rules, slash)) = PlainKey(r)
    BY <1>0, <1>2, <1>a, VisitShapes
  <2> QED
    BY <1>e, <2>1
<1>5. new = IF ~SplitsOff(r, rules) THEN [routes EXCEPT ![k] = main]
            ELSE [x \in DOMAIN routes \cup {Key(plain)} |->
                    CASE x = k -> bound [] x # k /\ x = Key(plain) -> plain [] OTHER -> routes[x]]
  BY <1>a, <1>b, <1>c, <1>d, <1>e, <1>f, <1>g, <1>k, <1>n, ZenonT(30) DEF WithRedirects, Reruled
<1>6. ASSUME ~SplitsOff(r, rules) PROVE VisitKeeps(routes, r, new, k)
  <2>1. new = [routes EXCEPT ![k] = main]
    BY <1>5, <1>6
  <2>2. DOMAIN new = DOMAIN routes /\ new[k] = main /\ \A x \in DOMAIN routes : x # k => new[x] = routes[x]
    BY <1>0, <2>1
  <2> QED
    BY <1>0, <1>3, <1>6, <1>a, <2>2 DEF VisitKeeps
<1>7. ASSUME SplitsOff(r, rules) PROVE VisitKeeps(routes, r, new, k)
  <2>1. new = [x \in DOMAIN routes \cup {PlainKey(r)} |->
                 CASE x = k -> bound [] x # k /\ x = PlainKey(r) -> plain [] OTHER -> routes[x]]
    BY <1>4, <1>5, <1>7
  <2>2. /\ DOMAIN new = DOMAIN routes \cup {PlainKey(r)} /\ new[k] = bound
        /\ PlainKey(r) # k => new[PlainKey(r)] = plain
        /\ \A x \in DOMAIN new : x \notin {k, PlainKey(r)} => new[x] = routes[x]
    BY <1>0, <2>1
  <2> QED
    BY <1>0, <1>3, <1>4, <1>a, <2>2 DEF VisitKeeps
<1> QED
  BY <1>6, <1>7, <1>k, <1>n

(* The visit of a route that is as ToEmitterIR made it.                    *)
LEMMA RedirectsMade ==
  ASSUME NEW routes, NEW r, NEW k, k = Key(r), k \in DOMAIN routes, routes[k] = Emittable(r), k # PlainKey(r),
         ShapedRules(r.rules), IsList(r.sources),
         NEW new, new = WithRedirects(routes, r)
  PROVE  /\ k \in DOMAIN new /\ new[k] = MainForm(r)
         /\ MainSplits(r) => PlainKey(r) \in DOMAIN new /\ new[PlainKey(r)] = PlainForm(r)
         /\ ~MainSplits(r) => DOMAIN new = DOMAIN routes
<1>a. PICK old : old = routes[k]
  OBVIOUS
<1>b. PICK main : main = [old EXCEPT !.rules = MainRules(r)]
  OBVIOUS
<1>1. old.rules = r.rules /\ old.host = r.host /\ main = Extended(r)
  BY <1>a, <1>b, EmittableShaped DEF Extended
<1>2. old.rules \o SlashRules(old.rules, "slash") = MainRules(r)
  BY <1>1 DEF MainRules
<1>c. PICK plain : plain = PlainRoute(r, MainRules(r), SlashRules(old.rules, "https slash"))
  OBVIOUS
<1>3. plain = PlainForm(r) /\ Key(plain) = PlainKey(r)
  BY <1>1, <1>c, FormsShaped DEF PlainForm
<1>4. new = IF ~SplitsOff(r, MainRules(r)) THEN [routes EXCEPT ![k] = main]
            ELSE [x \in DOMAIN routes \cup {Key(plain)} |->
                    CASE x = k -> Bound(main, 443, ListenerName(old.host, "https"))
                      [] x # k /\ x = Key(plain) -> plain [] OTHER -> routes[x]]
  BY <1>2, <1>a, <1>b, <1>c, ZenonT(30) DEF WithRedirects
<1>5. CASE ~MainSplits(r)
  <2>1. new = [routes EXCEPT ![k] = main]
    BY <1>4, <1>5 DEF MainSplits
  <2>2. MainForm(r) = main
    BY <1>1, <1>5 DEF MainForm
  <2> QED
    BY <1>5, <2>1, <2>2
<1>6. CASE MainSplits(r)
  <2>1. new = [x \in DOMAIN routes \cup {PlainKey(r)} |->
                 CASE x = k -> Bound(main, 443, ListenerName(old.host, "https"))
                   [] x # k /\ x = PlainKey(r) -> plain [] OTHER -> routes[x]]
    BY <1>3, <1>4, <1>6 DEF MainSplits
  <2>2. MainForm(r) = Bound(main, 443, ListenerName(old.host, "https"))
    BY <1>1, <1>6 DEF MainForm
  <2> QED
    BY <1>3, <1>6, <2>1, <2>2
<1> QED
  BY <1>5, <1>6

-----------------------------------------------------------------------------
(* From ApplyPolicies on nothing that the forms of a route are made from   *)
(* changes.                                                                *)
LEMMA FormsStay ==
  ASSUME UNCHANGED vars
  PROVE  /\ \A r : Emittable(r)' = Emittable(r) /\ MainForm(r)' = MainForm(r) /\ PlainForm(r)' = PlainForm(r)
         /\ \A r : (MainSplits(r)' <=> MainSplits(r)) /\ (AsksWWW(r)' <=> AsksWWW(r)) /\ (BadWWW(r)' <=> BadWWW(r))
<1>1. input' = input
  BY DEF vars
<1>2. \A id : Ann(id)' = Ann(id)
  BY FlowsStay
<1>3. \A s : NonCanary(s)' = NonCanary(s)
  BY <1>2 DEF NonCanary
<1>4. \A r, i : Speakers(r, i)' = Speakers(r, i)
  BY <1>3 DEF Speakers
<1>5. \A r, i : Upgraded(r, i)' <=> Upgraded(r, i)
  BY <1>2, <1>4 DEF Upgraded, Upgrades
<1>6. HostsWithTLS' = HostsWithTLS
  BY <1>1 DEF HostsWithTLS, TLSHosts
<1>7. RegexHosts' = RegexHosts
  BY <1>1 DEF RegexHosts
<1>8. \A r : Policies(r)' = Policies(r)
  <2>1. \A r : Rewrites(r)' = Rewrites(r)
    BY <1>2, <1>3, <1>7 DEF Rewrites, ByRule
  <2>2. \A r : IPRangeControls(r)' = IPRangeControls(r)
    BY <1>2, <1>3 DEF IPRangeControls, ByRule
  <2>3. \A r : Timeouts(r)' = Timeouts(r)
    BY <1>2, <1>3 DEF Timeouts, ByRule
  <2>4. \A r : CorsPolicies(r)' = CorsPolicies(r)
    BY <1>2, <1>3 DEF CorsPolicies, ByRule
  <2>5. \A r : BodySizes(r)' = BodySizes(r)
    BY <1>2, <1>3 DEF BodySizes, ByRule
  <2> QED
    BY <2>1, <2>2, <2>3, <2>4, <2>5 DEF Policies
<1>9. \A r, rules : SplitsOff(r, rules)' <=> SplitsOff(r, rules)
  BY <1>5, <1>6 DEF SplitsOff
<1>10. \A r, rules : PlainRules(r, rules)' = PlainRules(r, rules)
  <2>1. ASSUME NEW CONSTANT r, NEW CONSTANT rules PROVE PlainRules(r, rules)' = PlainRules(r, rules)
    <3> DEFINE Of(i) == CASE Speakers(r, i) = {} \/ i > Len(rules) -> <<>>
                          [] Speakers(r, i) # {} /\ i <= Len(rules) /\ Upgraded(r, i) ->
                               <<[matches |-> rules[i].matches, filters |-> <<<<"redirect", "https">>>>, backends |-> <<>>]>>
                          [] OTHER -> <<rules[i]>>
               f == [i \in 1..Len(r.sources) |-> Of(i)]
    <3>1. \A i : Of(i)' = Of(i)
      BY <1>4, <1>5
    <3>2. PlainRules(r, rules) = FlattenSeq(f)
      BY DEF PlainRules
    <3>3. (PlainRules(r, rules) = FlattenSeq(f))'
      BY DEF PlainRules
    <3> HIDE DEF Of
    <3>4. f' = f
      BY <3>1
    <3> HIDE DEF f
    <3> QED
      BY <3>2, <3>3, <3>4
  <2> QED
    BY <2>1
<1>11. \A r : Emittable(r)' = Emittable(r)
  BY <1>8 DEF Emittable
<1>12. \A r : MainSplits(r)' <=> MainSplits(r)
  BY <1>9 DEF MainSplits
<1>13. \A r : MainForm(r)' = MainForm(r)
  BY <1>11, <1>12 DEF MainForm, Extended
<1>14. \A r : PlainForm(r)' = PlainForm(r)
  BY <1>10 DEF PlainForm, PlainRoute
<1>15. \A r : WWWOf(r)' = WWWOf(r)
  <2>1. ASSUME NEW CONSTANT r PROVE WWWOf(r)' = WWWOf(r)
    <3> DEFINE Of(i) == {<<i, ing>> : ing \in {x \in Speakers(r, i) : Ann(x).www # ""}}
    <3>1. \A i : Of(i)' = Of(i)
      <4>1. \A i : {x \in Speakers(r, i) : Ann(x).www # ""}' = {x \in Speakers(r, i) : Ann(x).www # ""}
        BY <1>2, <1>4
      <4> QED
        BY <4>1
    <3>2. WWWOf(r) = UNION {Of(i) : i \in 1..Len(r.sources)}
      BY DEF WWWOf
    <3>3. (WWWOf(r) = UNION {Of(i) : i \in 1..Len(r.sources)})'
      BY DEF WWWOf
    <3> HIDE DEF Of
    <3> QED
      BY <3>1, <3>2, <3>3
  <2> QED
    BY <2>1
<1>16. \A r : (AsksWWW(r)' <=> AsksWWW(r)) /\ (BadWWW(r)' <=> BadWWW(r))
  BY <1>2, <1>15 DEF AsksWWW, BadWWW
<1> QED
  BY <1>11, <1>12, <1>13, <1>14, <1>16

-----------------------------------------------------------------------------
(* The invariant of the passes: what has become of each route of the       *)
(* ProviderIR under the names that are its own.                            *)

RoutesGood ==
  \A k \in DOMAIN pir.http :
    /\ Key(pir.http[k]) = k /\ k[1] = pir.http[k].ns
    /\ ShapedRules(pir.http[k].rules) /\ IsList(pir.http[k].sources)
    /\ IsList(pir.http[k].name) /\ NamedHost(pir.http[k].host)

Free(k) == \A o \in DOMAIN pir.http : o # k => NamesOf(pir.http[k]) \cap NamesOf(pir.http[o]) = {}

(* A route is as the pass made it until the emitters work on it.           *)
As(form, x, http, ph) ==
  /\ x \in DOMAIN http
  /\ IF ph \in {"redirects", "www"} THEN http[x] = form ELSE Like(form, http[x])

Unvisited(r, http) == Key(r) \in DOMAIN http /\ http[Key(r)] = Emittable(r) /\ PlainKey(r) \notin DOMAIN http

Rerouted(r, http, ph) ==
  /\ As(MainForm(r), Key(r), http, ph)
  /\ IF MainSplits(r) THEN As(PlainForm(r), PlainKey(r), http, ph) ELSE PlainKey(r) \notin DOMAIN http

Renamed(r, http, ph, waiting, errs) ==
  /\ WWWKey(r) \in DOMAIN http => ph # "redirects" /\ WWWMade(r) /\ As(WWWRoute(r), WWWKey(r), http, ph)
  /\ ph # "redirects" /\ Key(r) \notin waiting /\ errs = {} /\ WWWMade(r) => WWWKey(r) \in DOMAIN http

Followed(r, http, ph, waiting, errs) ==
  /\ ph = "redirects" /\ Key(r) \in waiting => Unvisited(r, http)
  /\ ~(ph = "redirects" /\ Key(r) \in waiting) => Rerouted(r, http, ph)
  /\ Renamed(r, http, ph, waiting, errs)

AllFollowed(http, ph, waiting, errs) ==
  \A k \in DOMAIN pir.http : Free(k) => Followed(pir.http[k], http, ph, waiting, errs)

(* Every route has one of these names.                                     *)
AllNamed(http, ph) ==
  /\ DOMAIN pir.http \subseteq DOMAIN http
  /\ \A x \in DOMAIN http :
       /\ http[x].ns = x[1] /\ \E k \in DOMAIN pir.http : x \in NamesOf(pir.http[k])
       /\ ph # "done" => Shaped(http[x])

Sound(ls) == IsList(ls) /\ \A l \in ToSet(ls) : Proper(l) \/ l.mode = "Passthrough"

WWWHeard(r, old, new) ==
  /\ Listens(new, OtherName(r.host), 80)
  /\ Listens(old, r.host, 443) => Listens(new, OtherName(r.host), 443)

GatewaysKept(gws) ==
  /\ DOMAIN pir.gateways \subseteq DOMAIN gws
  /\ \A g \in DOMAIN pir.gateways : ToSet(pir.gateways[g]) \subseteq ToSet(gws[g])
  /\ \A g \in DOMAIN gws : Sound(gws[g])

AllHeard(gws, ph, waiting, errs) ==
  \A k \in DOMAIN pir.http :
    ph \notin {"convert", "redirects"} /\ k \notin waiting /\ errs = {} /\ WWWMade(pir.http[k])
      /\ GatewayOf(pir.http[k]) \in DOMAIN pir.gateways
    => WWWHeard(pir.http[k], pir.gateways[GatewayOf(pir.http[k])], gws[GatewayOf(pir.http[k])])

Passing(ph, waiting, errs, e) ==
  /\ DOMAIN e = {"gateways", "http"}
  /\ ph \in {"common", "done"} => waiting = {}
  /\ waiting \subseteq DOMAIN pir.http
  /\ AllNamed(e.http, ph) /\ AllFollowed(e.http, ph, waiting, errs)
  /\ GatewaysKept(e.gateways) /\ AllHeard(e.gateways, ph, waiting, errs)

EmitInv ==
  /\ phase \in {"convert", "redirects", "www", "common", "done"}
  /\ stage = "failed" => errors # {}
  /\ phase # "convert" =>
       /\ pc = "done" /\ stage \in {"failed", "converted"}
       /\ stage = "converted" => Passing(phase, left, wwwErrors, eir)

(* What the features leave is fit for the passes.                           *)
LEMMA ConvertedRoutes ==
  ASSUME IInv, ShapesInv, NginxInv, SitesInv, stage = "converted"
  PROVE  RoutesGood /\ Mixed(pir.gateways)
<1>1. pc = "done" /\ errors = {} /\ Mixed(pir.gateways) /\ DOMAIN pir.http \subseteq DOMAIN ir.http
      /\ \A k \in DOMAIN pir.http : Sited(ir.http[k], pir.http[k])
  BY DEF SitesInv, AfterCanary
<1>2. NamedBy(ir.http)
  BY <1>1, StoredNamed
<1>3. ASSUME NEW k \in DOMAIN pir.http
      PROVE  /\ Key(pir.http[k]) = k /\ k[1] = pir.http[k].ns
             /\ ShapedRules(pir.http[k].rules) /\ IsList(pir.http[k].sources)
             /\ IsList(pir.http[k].name) /\ NamedHost(pir.http[k].host)
  <2>1. SameHead(ir.http[k], pir.http[k]) /\ k \in DOMAIN ir.http
    BY <1>1, <1>3 DEF Sited
  <2>2. Key(ir.http[k]) = k /\ IsList(ir.http[k].name) /\ NamedHost(ir.http[k].host)
    BY <1>2, <2>1 DEF NamedBy
  <2>3. Key(pir.http[k]) = k
    BY <2>1, <2>2 DEF Key, SameHead
  <2>4. k[1] = pir.http[k].ns
    BY <2>3 DEF Key
  <2>5. ShapedRules(pir.http[k].rules) /\ IsList(pir.http[k].sources)
    BY <1>1, <1>3, ConvertedShaped DEF NginxInv
  <2> QED
    BY <2>1, <2>2, <2>3, <2>4, <2>5 DEF SameHead
<1> QED
  BY <1>1, <1>3 DEF RoutesGood

(* The names of a free route are those of no other.                         *)
LEMMA FreeNames ==
  ASSUME RoutesGood, NEW k \in DOMAIN pir.http, Free(k), NEW r, r = pir.http[k]
  PROVE  /\ Key(r) = k /\ Key(r) # PlainKey(r) /\ Key(r) # WWWKey(r) /\ PlainKey(r) # WWWKey(r)
         /\ {Key(r), PlainKey(r), WWWKey(r)} = NamesOf(r)
         /\ PlainKey(r) \notin DOMAIN pir.http /\ WWWKey(r) \notin DOMAIN pir.http
         /\ \A o \in DOMAIN pir.http \ {k} :
              /\ Key(pir.http[o]) \notin NamesOf(r) /\ PlainKey(pir.http[o]) \notin NamesOf(r)
              /\ WWWKey(pir.http[o]) \notin NamesOf(r)
<1>1. \A o \in DOMAIN pir.http : LET q == pir.http[o] IN
        /\ Key(q) = o /\ Key(q) # PlainKey(q) /\ Key(q) # WWWKey(q) /\ PlainKey(q) # WWWKey(q)
        /\ NamesOf(q) = {Key(q), PlainKey(q), WWWKey(q)}
  BY NamesApart DEF RoutesGood
<1>2. \A o \in DOMAIN pir.http \ {k} : NamesOf(r) \cap NamesOf(pir.http[o]) = {}
  BY DEF Free
<1>3. \A o \in DOMAIN pir.http \ {k} :
        /\ Key(pir.http[o]) \notin NamesOf(r) /\ PlainKey(pir.http[o]) \notin NamesOf(r)
        /\ WWWKey(pir.http[o]) \notin NamesOf(r)
  BY <1>1, <1>2
<1>4. PlainKey(r) \notin DOMAIN pir.http /\ WWWKey(r) \notin DOMAIN pir.http
  BY <1>1, <1>3
<1> QED
  BY <1>1, <1>3, <1>4

(* Nothing that happens under other names concerns a route.                *)
LEMMA Undisturbed ==
  ASSUME NEW r, Key(r) # PlainKey(r), NEW http, NEW new,
         \A x \in {Key(r), PlainKey(r), WWWKey(r)} :
           (x \in DOMAIN new <=> x \in DOMAIN http) /\ (x \in DOMAIN http => new[x] = http[x]),
         NEW ph, NEW waiting, NEW rest, Key(r) \in waiting <=> Key(r) \in rest, NEW errs,
         Followed(r, http, ph, waiting, errs)
  PROVE  Followed(r, new, ph, rest, errs)
<1>1. \A form : \A x \in {Key(r), PlainKey(r), WWWKey(r)} : As(form, x, http, ph) => As(form, x, new, ph)
  BY DEF As
<1>2. Unvisited(r, http) => Unvisited(r, new)
  BY DEF Unvisited
<1>3. Rerouted(r, http, ph) => Rerouted(r, new, ph)
  BY <1>1 DEF Rerouted
<1>4. Renamed(r, http, ph, waiting, errs) => Renamed(r, new, ph, rest, errs)
  BY <1>1 DEF Renamed
<1> QED
  BY <1>2, <1>3, <1>4 DEF Followed

(* With the ProviderIR the invariant of the passes stays.                   *)
LEMMA PassingStays ==
  ASSUME UNCHANGED <<vars, nginxVars>>, Passing(phase', left', wwwErrors', eir')
  PROVE  Passing(phase, left, wwwErrors, eir)'
<1>1. pir' = pir /\ UNCHANGED vars
  BY DEF nginxVars
<1>2. \A r : Emittable(r)' = Emittable(r) /\ MainForm(r)' = MainForm(r) /\ PlainForm(r)' = PlainForm(r)
  BY <1>1, FormsStay
<1>3. \A r : (MainSplits(r)' <=> MainSplits(r)) /\ (AsksWWW(r)' <=> AsksWWW(r))
  BY <1>1, FormsStay
<1>4. AllNamed(eir'.http, phase') => AllNamed(eir.http, phase)'
  BY <1>1 DEF AllNamed
<1>5. GatewaysKept(eir'.gateways) => GatewaysKept(eir.gateways)'
  BY <1>1 DEF GatewaysKept
<1>6. AllHeard(eir'.gateways, phase', left', wwwErrors') => AllHeard(eir.gateways, phase, left, wwwErrors)'
  BY <1>1, <1>3 DEF AllHeard, WWWMade
<1>7. ASSUME NEW k \in DOMAIN pir.http, Followed(pir.http[k], eir'.http, phase', left', wwwErrors')
      PROVE  Followed(pir.http[k], eir.http, phase, left, wwwErrors)'
  BY <1>1, <1>2, <1>3, <1>7 DEF Followed, Unvisited, Rerouted, Renamed, As, WWWMade
<1>8. \A k : Free(k)' <=> Free(k)
  BY <1>1 DEF Free
<1>9. AllFollowed(eir'.http, phase', left', wwwErrors') => AllFollowed(eir.http, phase, left, wwwErrors)'
  BY <1>1, <1>7, <1>8 DEF AllFollowed
<1> QED
  BY <1>1, <1>4, <1>5, <1>6, <1>9 DEF Passing

(* ToEmitterIR and the policies: every route on its own.                   *)
LEMMA PoliciesPass ==
  ASSUME RoutesGood, Mixed(pir.gateways), ApplyPolicies
  PROVE  Passing(phase', left', wwwErrors', eir')
<1>1. phase' = "redirects" /\ left' = DOMAIN pir.http
  BY DEF ApplyPolicies
<1> DEFINE e == ToEmitterIR(pir)
           f == [k \in DOMAIN e.http |-> WithPolicies(e.http[k], Policies(pir.http[k]))]
<1>2. eir' = [e EXCEPT !.http = f]
  BY DEF ApplyPolicies
<1>3. DOMAIN e = {"gateways", "http"} /\ e.gateways = pir.gateways /\ DOMAIN e.http = DOMAIN pir.http
  BY DEF ToEmitterIR
<1>4. ASSUME NEW k \in DOMAIN pir.http
      PROVE  WithPolicies(e.http[k], Policies(pir.http[k])) = Emittable(pir.http[k])
  <2>1. e.http[k] = [ns |-> pir.http[k].ns, name |-> pir.http[k].name, host |-> pir.http[k].host,
                     rules |-> pir.http[k].rules, policies |-> {},
                     refs |-> <<[gateway |-> pir.http[k].parent, port |-> 0, section |-> <<>>]>>]
    BY DEF ToEmitterIR
  <2> HIDE DEF e
  <2> QED
    BY <2>1 DEF WithPolicies, Emittable
<1> HIDE DEF e
<1>5. DOMAIN f = DOMAIN pir.http /\ \A k \in DOMAIN pir.http : f[k] = Emittable(pir.http[k])
  BY <1>3, <1>4
<1> HIDE DEF f
<1>6. DOMAIN eir' = {"gateways", "http"} /\ eir'.gateways = pir.gateways /\ eir'.http = f
  BY <1>2, <1>3
<1>7. AllNamed(f, "redirects")
  <2>1. ASSUME NEW k \in DOMAIN pir.http PROVE f[k].ns = k[1] /\ Shaped(f[k]) /\ k \in NamesOf(pir.http[k])
    <3>1. Shaped(Emittable(pir.http[k])) /\ Emittable(pir.http[k]).ns = pir.http[k].ns
      BY EmittableShaped DEF RoutesGood
    <3>2. k \in NamesOf(pir.http[k])
      BY DEF RoutesGood, NamesOf
    <3> QED
      BY <1>5, <3>1, <3>2 DEF RoutesGood
  <2> QED
    BY <1>5, <2>1 DEF AllNamed
<1>8. AllFollowed(f, "redirects", DOMAIN pir.http, wwwErrors')
  <2>1. ASSUME NEW k \in DOMAIN pir.http, Free(k)
        PROVE  Followed(pir.http[k], f, "redirects", DOMAIN pir.http, wwwErrors')
    <3>1. Key(pir.http[k]) = k /\ PlainKey(pir.http[k]) \notin DOMAIN f /\ WWWKey(pir.http[k]) \notin DOMAIN f
      BY <1>5, <2>1, FreeNames
    <3> QED
      BY <1>5, <3>1 DEF Followed, Unvisited, Renamed
  <2> QED
    BY <2>1 DEF AllFollowed
<1>9. GatewaysKept(pir.gateways)
  BY DEF GatewaysKept, Mixed, Sound
<1>10. AllHeard(pir.gateways, "redirects", DOMAIN pir.http, wwwErrors')
  BY DEF AllHeard
<1> QED
  BY <1>1, <1>6, <1>7, <1>8, <1>9, <1>10 DEF Passing

(* addSSLAndTrailingSlashRedirects visits a route.                         *)
LEMMA RedirectsPass ==
  ASSUME RoutesGood, Passing(phase, left, wwwErrors, eir), AddRedirects
  PROVE  Passing(phase', left', wwwErrors', eir')
<1>1. phase = "redirects" /\ phase' = "redirects" /\ wwwErrors' = wwwErrors
  BY DEF AddRedirects
<1>2. PICK k \in left : /\ left' = left \ {k}
                        /\ eir' = [eir EXCEPT !.http = WithRedirects(@, pir.http[k])]
  BY DEF AddRedirects
<1>a. PICK r : r = pir.http[k]
  OBVIOUS
<1>b. PICK http : http = eir.http
  OBVIOUS
<1>c. PICK new : new = WithRedirects(http, r)
  OBVIOUS
<1>3. DOMAIN eir' = {"gateways", "http"} /\ eir'.gateways = eir.gateways /\ eir'.http = new
  BY <1>2, <1>a, <1>b, <1>c DEF Passing
<1>4. AllNamed(http, "redirects") /\ AllFollowed(http, "redirects", left, wwwErrors) /\ k \in DOMAIN pir.http
  BY <1>1, <1>b DEF Passing
<1>5. /\ Key(r) = k /\ r.ns = k[1] /\ ShapedRules(r.rules) /\ IsList(r.sources)
      /\ IsList(r.name) /\ NamedHost(r.host)
  BY <1>4, <1>a DEF RoutesGood
<1>6. /\ Key(r) # PlainKey(r) /\ Key(r) # WWWKey(r) /\ PlainKey(r) # WWWKey(r)
      /\ NamesOf(r) = {Key(r), PlainKey(r), WWWKey(r)} /\ PlainKey(r)[1] = r.ns
  BY <1>5, NamesApart
<1>7. k \in DOMAIN http /\ Shaped(http[k])
  BY <1>4 DEF AllNamed
<1>8. VisitKeeps(http, r, WithRedirects(http, r), Key(r))
  BY <1>5, <1>7, RedirectsShape
<1>9. VisitKeeps(http, r, new, k)
  BY <1>5, <1>8, <1>c
<1>10. AllNamed(new, "redirects")
  <2>1. DOMAIN pir.http \subseteq DOMAIN new
    BY <1>4, <1>9 DEF VisitKeeps, AllNamed
  <2>2. ASSUME NEW x \in DOMAIN new
        PROVE  new[x].ns = x[1] /\ (\E o \in DOMAIN pir.http : x \in NamesOf(pir.http[o])) /\ Shaped(new[x])
    <3>1. CASE x = k
      BY <1>4, <1>5, <1>6, <1>7, <1>9, <1>a, <3>1 DEF VisitKeeps, AllNamed
    <3>2. CASE x # k /\ x \in DOMAIN http /\ new[x] = http[x]
      BY <1>4, <3>2 DEF AllNamed
    <3>3. CASE x = PlainKey(r) /\ Shaped(new[x]) /\ new[x].ns = r.ns
      BY <1>4, <1>6, <1>a, <3>3
    <3> QED
      BY <1>5, <1>6, <1>9, <3>1, <3>2, <3>3 DEF VisitKeeps
  <2> QED
    BY <2>1, <2>2 DEF AllNamed
<1>11. AllFollowed(new, "redirects", left', wwwErrors)
  <2>1. ASSUME NEW o \in DOMAIN pir.http, Free(o)
        PROVE  Followed(pir.http[o], new, "redirects", left', wwwErrors)
    <3>1. Followed(pir.http[o], http, "redirects", left, wwwErrors)
      BY <1>4, <2>1 DEF AllFollowed
    <3>2. CASE o = k
      <4>1. http[k] = Emittable(r) /\ WWWKey(r) \notin DOMAIN http /\ PlainKey(r) \notin DOMAIN http
        BY <1>2, <1>5, <1>a, <3>1, <3>2 DEF Followed, Unvisited, Renamed
      <4>2. /\ k \in DOMAIN new /\ new[k] = MainForm(r)
            /\ MainSplits(r) => PlainKey(r) \in DOMAIN new /\ new[PlainKey(r)] = PlainForm(r)
            /\ ~MainSplits(r) => DOMAIN new = DOMAIN http
        BY <1>5, <1>6, <1>7, <1>c, <4>1, RedirectsMade
      <4>3. WWWKey(r) \notin DOMAIN new
        BY <1>6, <1>9, <4>1 DEF VisitKeeps
      <4>4. k \notin left'
        BY <1>2
      <4> QED
        BY <1>5, <1>a, <3>2, <4>1, <4>2, <4>3, <4>4 DEF Followed, Rerouted, Renamed, As
    <3>3. CASE o # k
      <4>a. PICK q : q = pir.http[o]
        OBVIOUS
      <4>1. /\ Key(q) = o /\ Key(q) # PlainKey(q) /\ NamesOf(q) = {Key(q), PlainKey(q), WWWKey(q)}
            /\ k \notin NamesOf(q) /\ PlainKey(r) \notin NamesOf(q)
        BY <1>4, <1>5, <1>a, <2>1, <3>3, <4>a, FreeNames
      <4>2. \A x \in {Key(q), PlainKey(q), WWWKey(q)} :
              (x \in DOMAIN new <=> x \in DOMAIN http) /\ (x \in DOMAIN http => new[x] = http[x])
        BY <1>9, <4>1 DEF VisitKeeps
      <4>3. Key(q) \in left <=> Key(q) \in left'
        BY <1>2, <3>3, <4>1
      <4>4. Followed(q, http, "redirects", left, wwwErrors)
        BY <3>1, <4>a
      <4>5. Followed(q, new, "redirects", left', wwwErrors)
        BY <4>1, <4>2, <4>3, <4>4, Undisturbed
      <4> QED
        BY <4>5, <4>a
    <3> QED
      BY <3>2, <3>3
  <2> QED
    BY <2>1 DEF AllFollowed
<1>12. AllHeard(eir.gateways, "redirects", left', wwwErrors)
  BY DEF AllHeard
<1>13. left' \subseteq DOMAIN pir.http
  BY <1>2 DEF Passing
<1>14. GatewaysKept(eir.gateways)
  BY DEF Passing
<1> QED
  BY <1>1, <1>3, <1>10, <1>11, <1>12, <1>13, <1>14 DEF Passing

(* Between the passes.                                                     *)
LEMMA StartPasses ==
  ASSUME RoutesGood, Passing(phase, left, wwwErrors, eir), StartWWW
  PROVE  Passing(phase', left', wwwErrors', eir')
<1>1. phase = "redirects" /\ phase' = "www" /\ left = {} /\ left' = DOMAIN pir.http /\ eir' = eir
      /\ wwwErrors' = wwwErrors
  BY DEF StartWWW
<1>2. ASSUME NEW k \in DOMAIN pir.http, Free(k)
      PROVE  Followed(pir.http[k], eir.http, "www", DOMAIN pir.http, wwwErrors)
  <2>1. Followed(pir.http[k], eir.http, "redirects", {}, wwwErrors)
    BY <1>1, <1>2 DEF Passing, AllFollowed
  <2>2. Key(pir.http[k]) = k
    BY DEF RoutesGood
  <2> QED
    BY <2>1, <2>2 DEF Followed, Rerouted, Renamed, As
<1>3. AllFollowed(eir.http, "www", DOMAIN pir.http, wwwErrors)
  BY <1>2 DEF AllFollowed
<1>4. AllNamed(eir.http, "www")
  BY <1>1 DEF Passing, AllNamed
<1>5. AllHeard(eir.gateways, "www", DOMAIN pir.http, wwwErrors)
  BY DEF AllHeard
<1> QED
  BY <1>1, <1>3, <1>4, <1>5 DEF Passing

(* An invalid value ends the pass.                                         *)
LEMMA RejectPasses ==
  ASSUME Passing(phase, left, wwwErrors, eir), RejectWWW
  PROVE  Passing(phase', left', wwwErrors', eir')
<1>1. phase = "www" /\ phase' = "www" /\ left' = {} /\ eir' = eir /\ wwwErrors' # {}
  BY DEF RejectWWW
<1>2. ASSUME NEW k \in DOMAIN pir.http, Free(k)
      PROVE  Followed(pir.http[k], eir.http, "www", {}, wwwErrors')
  <2>1. Followed(pir.http[k], eir.http, "www", left, wwwErrors)
    BY <1>1, <1>2 DEF Passing, AllFollowed
  <2> QED
    BY <1>1, <2>1 DEF Followed, Renamed
<1>3. AllFollowed(eir.http, "www", {}, wwwErrors')
  BY <1>2 DEF AllFollowed
<1>4. AllHeard(eir.gateways, "www", {}, wwwErrors')
  BY <1>1 DEF AllHeard
<1> QED
  BY <1>1, <1>3, <1>4 DEF Passing

(* The www listeners of a route join those of its gateway.                 *)
LEMMA ListensOn ==
  ASSUME NEW old, NEW new, ToSet(old) \subseteq ToSet(new), NEW host, NEW port, Listens(old, host, port)
  PROVE  Listens(new, host, port)
BY DEF Listens

NewListener(o, port, scheme, certs) ==
  [name |-> Append(Dashed(o), scheme), host |-> o, port |-> port, certs |-> certs, mode |-> "Terminate"]

NewListenerParts(o, port, l) == Proper(l) /\ l.host = o /\ l.port = port /\ l.mode = "Terminate"

(* A listener that addWWWRedirect makes is named for its host.              *)
LEMMA NewListenerProper ==
  ASSUME NEW o, ListenerName(o, "http") = Append(Dashed(o), "http"),
         ListenerName(o, "https") = Append(Dashed(o), "https"), NEW certs
  PROVE  /\ NewListenerParts(o, 80, NewListener(o, 80, "http", certs))
         /\ NewListenerParts(o, 443, NewListener(o, 443, "https", certs))
BY DEF NewListener, NewListenerParts, Proper

(* The listeners of the other name are there afterwards.                    *)
LEMMA WWWListenersMade ==
  ASSUME NEW ls, Sound(ls), NEW r, NamedHost(r.host), NEW new, new = WithWWWListeners(ls, r)
  PROVE  Sound(new) /\ ToSet(ls) \subseteq ToSet(new) /\ WWWHeard(r, ls, new)
<1>a. PICK o : o = OtherName(r.host)
  OBVIOUS
<1>1. /\ ListenerName(o, "http") = Append(Dashed(o), "http")
      /\ ListenerName(o, "https") = Append(Dashed(o), "https")
  BY <1>a, OtherNamed
<1>b. PICK certs : certs = UNION {l.certs : l \in {x \in ToSet(ls) : x.host = r.host /\ x.port = 443}}
  OBVIOUS
<1>c. PICK plain : plain = NewListener(o, 80, "http", {})
  OBVIOUS
<1>d. PICK secure : secure = NewListener(o, 443, "https", certs)
  OBVIOUS
<1>2. NewListenerParts(o, 80, plain) /\ NewListenerParts(o, 443, secure)
  BY <1>1, <1>c, <1>d, NewListenerProper
<1>e. PICK p : p = IF Listens(ls, o, 80) THEN <<>> ELSE <<plain>>
  OBVIOUS
<1>f. PICK s : s = IF Listens(ls, o, 443) \/ ~Listens(ls, r.host, 443) THEN <<>> ELSE <<secure>>
  OBVIOUS
<1>3. new = ls \o p \o s
  BY <1>a, <1>b, <1>c, <1>d, <1>e, <1>f DEF WithWWWListeners, NewListener
<1>4. IsList(p) /\ ToSet(p) = IF Listens(ls, o, 80) THEN {} ELSE {plain}
  BY <1>e, EmptyList, OneElement
<1>5. IsList(s) /\ ToSet(s) = IF Listens(ls, o, 443) \/ ~Listens(ls, r.host, 443) THEN {} ELSE {secure}
  BY <1>f, EmptyList, OneElement
<1> DEFINE X == ToSet(ls) \cup ToSet(p) \cup ToSet(s)
<1>6. ls \in Seq(X) /\ p \in Seq(X) /\ s \in Seq(X)
  <2>1. ls \in Seq(ToSet(ls)) /\ p \in Seq(ToSet(p)) /\ s \in Seq(ToSet(s))
    BY <1>4, <1>5, ListShape DEF Sound
  <2>2. ToSet(ls) \subseteq X /\ ToSet(p) \subseteq X /\ ToSet(s) \subseteq X
    OBVIOUS
  <2> HIDE DEF X
  <2> QED
    BY <2>1, <2>2
<1>7. X = ToSet(ls) \cup ToSet(p) \cup ToSet(s)
  OBVIOUS
<1> HIDE DEF X
<1>8. ls \o p \in Seq(X) /\ ToSet(ls \o p) = ToSet(ls) \cup ToSet(p)
  BY <1>6, ConcatHolds
<1>9. new \in Seq(X) /\ ToSet(new) = X
  <2>a. PICK ps : ps = ls \o p
    OBVIOUS
  <2>1. ps \in Seq(X) /\ ToSet(ps) = ToSet(ls) \cup ToSet(p)
    BY <1>8, <2>a
  <2>2. ps \o s \in Seq(X) /\ ToSet(ps \o s) = ToSet(ps) \cup ToSet(s)
    BY <1>6, <2>1, ConcatHolds
  <2>3. new = ps \o s
    BY <1>3, <2>a
  <2> QED
    BY <1>7, <2>1, <2>2, <2>3
<1>10. IsList(new)
  BY <1>9, SeqIsList
<1>11. \A l \in ToSet(new) : l \in ToSet(ls) \/ l = plain \/ l = secure
  BY <1>4, <1>5, <1>7, <1>9
<1>12. Sound(new)
  BY <1>2, <1>10, <1>11 DEF Sound, NewListenerParts
<1>13. ToSet(ls) \subseteq ToSet(new)
  BY <1>7, <1>9
<1>14. Listens(new, o, 80)
  <2>1. CASE Listens(ls, o, 80)
    BY <1>13, <2>1, ListensOn
  <2>2. CASE ~Listens(ls, o, 80)
    BY <1>2, <1>4, <1>7, <1>9, <2>2 DEF Listens, NewListenerParts
  <2> QED
    BY <2>1, <2>2
<1>15. Listens(ls, r.host, 443) => Listens(new, o, 443)
  <2>1. CASE Listens(ls, o, 443)
    BY <1>13, <2>1, ListensOn
  <2>2. CASE ~Listens(ls, o, 443) /\ Listens(ls, r.host, 443)
    BY <1>2, <1>5, <1>7, <1>9, <2>2 DEF Listens, NewListenerParts
  <2> QED
    BY <2>1, <2>2
<1> QED
  BY <1>12, <1>13, <1>14, <1>15, <1>a DEF WWWHeard

(* The route of the other name is one the emitter can print.               *)
LEMMA WWWIsShaped ==
  ASSUME NEW r, NEW w, w = WWWRoute(r)
  PROVE  Shaped(w) /\ w.ns = r.ns /\ w.policies = {}
BY WWWShaped, ZenonT(30)

(* The www redirect of a route.                                            *)
LEMMA WWWPasses ==
  ASSUME RoutesGood, Passing(phase, left, wwwErrors, eir), AddWWWRedirect
  PROVE  Passing(phase', left', wwwErrors', eir')
<1>1. phase = "www" /\ phase' = "www" /\ wwwErrors' = wwwErrors
  BY DEF AddWWWRedirect
<1>2. PICK k \in left : /\ left' = left \ {k}
                        /\ eir' = IF WWWMade(pir.http[k]) THEN WithWWW(eir, pir.http[k]) ELSE eir
  BY DEF AddWWWRedirect, WWWMade
<1>a. PICK r : r = pir.http[k]
  OBVIOUS
<1>b. PICK http : http = eir.http
  OBVIOUS
<1>c. PICK new : new = eir'.http
  OBVIOUS
<1>d. PICK gws : gws = eir.gateways
  OBVIOUS
<1>e. PICK fresh : fresh = eir'.gateways
  OBVIOUS
<1>3. AllNamed(http, "www") /\ AllFollowed(http, "www", left, wwwErrors) /\ k \in DOMAIN pir.http
      /\ GatewaysKept(gws) /\ AllHeard(gws, "www", left, wwwErrors)
  BY <1>1, <1>b, <1>d DEF Passing
<1>4. Key(r) = k /\ r.ns = k[1] /\ IsList(r.name) /\ NamedHost(r.host)
  BY <1>3, <1>a DEF RoutesGood
<1>5. /\ Key(r) # PlainKey(r) /\ Key(r) # WWWKey(r) /\ PlainKey(r) # WWWKey(r)
      /\ NamesOf(r) = {Key(r), PlainKey(r), WWWKey(r)} /\ WWWKey(r)[1] = r.ns
  BY <1>4, NamesApart
<1>6. DOMAIN eir' = {"gateways", "http"}
  BY <1>2 DEF WithWWW, Passing
<1>7. /\ DOMAIN new = DOMAIN http \cup (IF WWWMade(r) THEN {WWWKey(r)} ELSE {})
      /\ \A x \in DOMAIN new : new[x] = IF WWWMade(r) /\ x = WWWKey(r) THEN WWWRoute(r) ELSE http[x]
  <2>1. CASE WWWMade(r)
    <3>1. new = [x \in DOMAIN http \cup {WWWKey(r)} |-> IF x = WWWKey(r) THEN WWWRoute(r) ELSE http[x]]
      BY <1>2, <1>a, <1>b, <1>c, <2>1 DEF WithWWW, WWWKey
    <3> QED
      BY <2>1, <3>1
  <2>2. CASE ~WWWMade(r)
    BY <1>2, <1>a, <1>b, <1>c, <2>2
  <2> QED
    BY <2>1, <2>2
<1>8. /\ DOMAIN fresh = DOMAIN gws
      /\ \A g \in DOMAIN gws : fresh[g] = IF WWWMade(r) /\ g = GatewayOf(r) THEN WithWWWListeners(gws[g], r) ELSE gws[g]
  <2>1. CASE WWWMade(r)
    BY <1>2, <1>a, <1>d, <1>e, <2>1 DEF WithWWW, GatewayOf
  <2>2. CASE ~WWWMade(r)
    BY <1>2, <1>a, <1>d, <1>e, <2>2
  <2> QED
    BY <2>1, <2>2
<1>9. AllNamed(new, "www")
  <2>1. DOMAIN pir.http \subseteq DOMAIN new
    BY <1>3, <1>7 DEF AllNamed
  <2>2. ASSUME NEW x \in DOMAIN new
        PROVE  new[x].ns = x[1] /\ (\E o \in DOMAIN pir.http : x \in NamesOf(pir.http[o])) /\ Shaped(new[x])
    <3>1. CASE WWWMade(r) /\ x = WWWKey(r)
      <4> PICK w : w = WWWRoute(r)
        OBVIOUS
      <4>1. Shaped(w) /\ w.ns = r.ns
        BY WWWIsShaped
      <4> QED
        BY <1>3, <1>5, <1>7, <1>a, <3>1, <4>1
    <3>2. CASE ~(WWWMade(r) /\ x = WWWKey(r))
      BY <1>3, <1>7, <3>2 DEF AllNamed
    <3> QED
      BY <3>1, <3>2
  <2> QED
    BY <2>1, <2>2 DEF AllNamed
<1>10. AllFollowed(new, "www", left', wwwErrors)
  <2>1. ASSUME NEW o \in DOMAIN pir.http, Free(o)
        PROVE  Followed(pir.http[o], new, "www", left', wwwErrors)
    <3>1. Followed(pir.http[o], http, "www", left, wwwErrors)
      BY <1>3, <2>1 DEF AllFollowed
    <3>2. CASE o = k
      <4>1. Rerouted(r, http, "www") /\ Renamed(r, http, "www", left, wwwErrors)
        BY <1>a, <3>1, <3>2 DEF Followed
      <4>2. \A form : \A x \in {Key(r), PlainKey(r)} : As(form, x, http, "www") => As(form, x, new, "www")
        BY <1>5, <1>7 DEF As
      <4>3. Rerouted(r, new, "www")
        BY <1>5, <1>7, <4>1, <4>2 DEF Rerouted
      <4>4. Renamed(r, new, "www", left', wwwErrors)
        BY <1>7, <4>1 DEF Renamed, As
      <4> QED
        BY <1>a, <3>2, <4>3, <4>4 DEF Followed
    <3>3. CASE o # k
      <4>a. PICK q : q = pir.http[o]
        OBVIOUS
      <4>1. /\ Key(q) = o /\ Key(q) # PlainKey(q) /\ NamesOf(q) = {Key(q), PlainKey(q), WWWKey(q)}
            /\ WWWKey(r) \notin NamesOf(q)
        BY <1>3, <1>a, <2>1, <3>3, <4>a, FreeNames
      <4>2. \A x \in {Key(q), PlainKey(q), WWWKey(q)} :
              (x \in DOMAIN new <=> x \in DOMAIN http) /\ (x \in DOMAIN http => new[x] = http[x])
        BY <1>7, <4>1
      <4>3. Key(q) \in left <=> Key(q) \in left'
        BY <1>2, <3>3, <4>1
      <4>4. Followed(q, http, "www", left, wwwErrors)
        BY <3>1, <4>a
      <4>5. Followed(q, new, "www", left', wwwErrors)
        BY <4>1, <4>2, <4>3, <4>4, Undisturbed
      <4> QED
        BY <4>5, <4>a
    <3> QED
      BY <3>2, <3>3
  <2> QED
    BY <2>1 DEF AllFollowed
<1>11. ASSUME NEW g \in DOMAIN gws
       PROVE  Sound(fresh[g]) /\ ToSet(gws[g]) \subseteq ToSet(fresh[g])
              /\ (WWWMade(r) /\ g = GatewayOf(r) => WWWHeard(r, gws[g], fresh[g]))
  <2>1. Sound(gws[g])
    BY <1>3 DEF GatewaysKept
  <2>2. CASE WWWMade(r) /\ g = GatewayOf(r)
    <3>1. fresh[g] = WithWWWListeners(gws[g], r)
      BY <1>8, <2>2
    <3> QED
      BY <1>4, <2>1, <3>1, WWWListenersMade
  <2>3. CASE ~(WWWMade(r) /\ g = GatewayOf(r))
    BY <1>8, <2>1, <2>3
  <2> QED
    BY <2>2, <2>3
<1>12. GatewaysKept(fresh)
  BY <1>3, <1>8, <1>11 DEF GatewaysKept
<1>13. AllHeard(fresh, "www", left', wwwErrors)
  <2>1. ASSUME NEW o \in DOMAIN pir.http, o \notin left', wwwErrors = {}, WWWMade(pir.http[o]),
               GatewayOf(pir.http[o]) \in DOMAIN pir.gateways
        PROVE  WWWHeard(pir.http[o], pir.gateways[GatewayOf(pir.http[o])], fresh[GatewayOf(pir.http[o])])
    <3>a. PICK q : q = pir.http[o]
      OBVIOUS
    <3>b. PICK g : g = GatewayOf(pir.http[o])
      OBVIOUS
    <3>1. g \in DOMAIN gws /\ ToSet(pir.gateways[g]) \subseteq ToSet(gws[g])
      BY <1>3, <2>1, <3>b DEF GatewaysKept
    <3>2. ToSet(gws[g]) \subseteq ToSet(fresh[g])
      BY <1>11, <3>1
    <3>3. \A host, port : Listens(gws[g], host, port) => Listens(fresh[g], host, port)
      BY <3>2, ListensOn
    <3>4. \A host, port : Listens(pir.gateways[g], host, port) => Listens(gws[g], host, port)
      BY <3>1, ListensOn
    <3>5. CASE o = k
      <4>1. WWWHeard(r, gws[g], fresh[g])
        BY <1>11, <1>a, <2>1, <3>1, <3>5, <3>b
      <4>2. WWWHeard(r, pir.gateways[g], fresh[g])
        BY <3>4, <4>1 DEF WWWHeard
      <4> QED
        BY <1>a, <3>5, <3>b, <4>2
    <3>6. CASE o # k
      <4>1. o \notin left
        BY <1>2, <2>1, <3>6
      <4>2. WWWHeard(q, pir.gateways[g], gws[g])
        BY <1>3, <2>1, <3>a, <3>b, <4>1 DEF AllHeard
      <4>3. WWWHeard(q, pir.gateways[g], fresh[g])
        BY <3>3, <4>2 DEF WWWHeard
      <4> QED
        BY <3>a, <3>b, <4>3
    <3> QED
      BY <3>5, <3>6
  <2> QED
    BY <2>1 DEF AllHeard
<1>14. left' \subseteq DOMAIN pir.http
  BY <1>2 DEF Passing
<1> QED
  BY <1>1, <1>6, <1>9, <1>10, <1>12, <1>13, <1>14, <1>c, <1>e DEF Passing

(* The emitters work on every route, and change nothing that is followed.  *)
Worked(new, http) ==
  /\ DOMAIN new = DOMAIN http
  /\ \A x \in DOMAIN http : \A q : Like(q, http[x]) => Like(q, new[x])

(* A route is like itself.                                                  *)
LEMMA LikeItself ==
  ASSUME NEW e
  PROVE  Like(e, e)
BY DEF Like, LikeRule

(* The emitters keep the names and work on each route alone.                *)
LEMMA WorkedOn ==
  ASSUME NEW http, NEW new, Worked(new, http), NEW ph, NEW waiting, NEW errs,
         ph # "redirects", NEW after \in {"common", "done"}, AllFollowed(http, ph, {}, errs)
  PROVE  AllFollowed(new, after, {}, errs) /\ \A x \in DOMAIN new : new[x].ns = http[x].ns
<1>1. \A form, x : As(form, x, http, ph) => As(form, x, new, after)
  BY LikeItself DEF As, Worked
<1>2. ASSUME NEW k \in DOMAIN pir.http, Free(k) PROVE Followed(pir.http[k], new, after, {}, errs)
  <2>1. Followed(pir.http[k], http, ph, {}, errs)
    BY <1>2 DEF AllFollowed
  <2>2. Rerouted(pir.http[k], new, after)
    BY <1>1, <2>1 DEF Followed, Rerouted, Worked
  <2>3. Renamed(pir.http[k], new, after, {}, errs)
    BY <1>1, <2>1 DEF Followed, Renamed, Worked
  <2> QED
    BY <2>2, <2>3 DEF Followed
<1>3. \A x \in DOMAIN new : new[x].ns = http[x].ns
  <2>1. \A x \in DOMAIN new : Like(http[x], new[x])
    BY LikeItself DEF Worked
  <2> QED
    BY <2>1 DEF Like
<1> QED
  BY <1>2, <1>3 DEF AllFollowed

(* The common emitter.                                                      *)
LEMMA CommonPasses ==
  ASSUME Passing(phase, left, wwwErrors, eir), CommonEmit
  PROVE  Passing(phase', left', wwwErrors', eir')
<1>1. phase = "www" /\ phase' = "common" /\ left = {} /\ left' = {} /\ wwwErrors' = wwwErrors
  BY DEF CommonEmit
<1>a. PICK http : http = eir.http
  OBVIOUS
<1>b. PICK new : new = eir'.http
  OBVIOUS
<1>2. DOMAIN eir' = {"gateways", "http"} /\ eir'.gateways = eir.gateways
      /\ new = [x \in DOMAIN http |-> Applied(http[x])]
  BY <1>a, <1>b DEF CommonEmit, Passing
<1>3. AllNamed(http, "www") /\ AllFollowed(http, "www", {}, wwwErrors) /\ AllHeard(eir.gateways, "www", {}, wwwErrors)
  BY <1>1, <1>a DEF Passing
<1>4. ASSUME NEW x \in DOMAIN http
      PROVE  Shaped(new[x]) /\ new[x].ns = http[x].ns /\ As(http[x], x, new, "common")
  <2>1. Shaped(http[x]) /\ new[x] = Applied(http[x])
    BY <1>2, <1>3 DEF AllNamed
  <2>2. Like(http[x], new[x]) /\ Shaped(new[x])
    BY <2>1, AppliedLike
  <2> QED
    BY <1>2, <2>2 DEF Like, As
<1>5. AllNamed(new, "common")
  BY <1>2, <1>3, <1>4 DEF AllNamed
<1>6. ASSUME NEW form, NEW x, As(form, x, http, "www") PROVE As(form, x, new, "common")
  BY <1>4, <1>6 DEF As
<1>7. ASSUME NEW k \in DOMAIN pir.http, Free(k) PROVE Followed(pir.http[k], new, "common", {}, wwwErrors)
  <2>1. Followed(pir.http[k], http, "www", {}, wwwErrors)
    BY <1>3, <1>7 DEF AllFollowed
  <2>2. Rerouted(pir.http[k], new, "common")
    BY <1>2, <1>6, <2>1 DEF Followed, Rerouted
  <2>3. Renamed(pir.http[k], new, "common", {}, wwwErrors)
    BY <1>2, <1>6, <2>1 DEF Followed, Renamed
  <2> QED
    BY <2>2, <2>3 DEF Followed
<1>8. AllFollowed(new, "common", {}, wwwErrors)
  BY <1>7 DEF AllFollowed
<1>9. AllHeard(eir.gateways, "common", {}, wwwErrors)
  BY <1>3 DEF AllHeard
<1> QED
  BY <1>1, <1>2, <1>5, <1>8, <1>9, <1>b DEF Passing

(* The last step, of any emitter.                                          *)
LastStep ==
  /\ phase = "common" /\ phase' = "done" /\ left' = left /\ wwwErrors' = wwwErrors
  /\ DOMAIN eir' = {"gateways", "http"} /\ DOMAIN eir'.http = DOMAIN eir.http
  /\ \A x \in DOMAIN eir.http :
       eir'.http[x] = Standard(eir.http[x]) \/ \E P : eir'.http[x] = [Emitted(eir.http[x]) EXCEPT !.policies = P]
  /\ DOMAIN eir.gateways \subseteq DOMAIN eir'.gateways
  /\ \A g \in DOMAIN eir'.gateways : eir'.gateways[g] = IF g \in DOMAIN eir.gateways THEN eir.gateways[g] ELSE <<>>

(* The last emitter, whichever it is.                                       *)
LEMMA LastPasses ==
  ASSUME Passing(phase, left, wwwErrors, eir), LastStep
  PROVE  Passing(phase', left', wwwErrors', eir')
<1>1. phase = "common" /\ phase' = "done" /\ left = {} /\ left' = {} /\ wwwErrors' = wwwErrors
  BY DEF LastStep, Passing
<1>a. PICK http : http = eir.http
  OBVIOUS
<1>b. PICK new : new = eir'.http
  OBVIOUS
<1>c. PICK gws : gws = eir.gateways
  OBVIOUS
<1>d. PICK fresh : fresh = eir'.gateways
  OBVIOUS
<1>2. AllNamed(http, "common") /\ AllFollowed(http, "common", {}, wwwErrors)
      /\ GatewaysKept(gws) /\ AllHeard(gws, "common", {}, wwwErrors)
  BY <1>1, <1>a, <1>c DEF Passing
<1>3. Worked(new, http)
  <2>1. DOMAIN new = DOMAIN http
    BY <1>a, <1>b DEF LastStep
  <2>2. ASSUME NEW x \in DOMAIN http, NEW q, Like(q, http[x]) PROVE Like(q, new[x])
    <3>1. Shaped(http[x])
      BY <1>2 DEF AllNamed
    <3>2. new[x] = Standard(http[x]) \/ \E P : new[x] = [Emitted(http[x]) EXCEPT !.policies = P]
      BY <1>a, <1>b DEF LastStep
    <3> QED
      BY <2>2, <3>1, <3>2, StandardLike
  <2> QED
    BY <2>1, <2>2 DEF Worked
<1>4. AllFollowed(new, "done", {}, wwwErrors) /\ \A x \in DOMAIN new : new[x].ns = http[x].ns
  BY <1>2, <1>3, WorkedOn
<1>5. AllNamed(new, "done")
  BY <1>2, <1>3, <1>4 DEF AllNamed, Worked
<1>6. Sound(<<>>)
  BY EmptyList DEF Sound
<1>7. /\ DOMAIN gws \subseteq DOMAIN fresh
      /\ \A g \in DOMAIN fresh : fresh[g] = IF g \in DOMAIN gws THEN gws[g] ELSE <<>>
  BY <1>c, <1>d DEF LastStep
<1>8. GatewaysKept(fresh)
  BY <1>2, <1>6, <1>7 DEF GatewaysKept
<1>9. AllHeard(fresh, "done", {}, wwwErrors)
  BY <1>2, <1>7 DEF AllHeard, GatewaysKept
<1> QED
  BY <1>1, <1>4, <1>5, <1>8, <1>9, <1>b, <1>d DEF Passing, LastStep

(* Every emitter is such a last step.                                       *)
LEMMA EmittersLast ==
  ASSUME DOMAIN eir = {"gateways", "http"},
         StandardEmit \/ EnvoyGatewayEmit \/ KgatewayEmit \/ AgentgatewayEmit \/ AirlockEmit
  PROVE  LastStep /\ UNCHANGED <<vars, nginxVars>>
<1>1. CASE StandardEmit
  BY <1>1 DEF StandardEmit, LastStep
<1>2. ASSUME NEW handled, eir' = [eir EXCEPT !.http = WithRules(handled)], NEW name, Emits(name, handled)
      PROVE  LastStep /\ UNCHANGED <<vars, nginxVars>>
  BY <1>2 DEF Emits, WithRules, LastStep
<1>3. CASE EnvoyGatewayEmit
  BY <1>2, <1>3 DEF EnvoyGatewayEmit
<1>4. CASE KgatewayEmit
  BY <1>2, <1>4 DEF KgatewayEmit
<1>5. CASE AgentgatewayEmit
  BY <1>2, <1>5 DEF AgentgatewayEmit
<1>6. CASE AirlockEmit
  BY <1>6 DEF AirlockEmit, Emits, WithRules, LastStep
<1> QED
  BY <1>1, <1>3, <1>4, <1>5, <1>6

(* After convert nothing moves but the passes.                             *)
LEMMA Terminal ==
  ASSUME pc = "done", stage \in {"failed", "converted"}, NginxNext
  PROVE  FALSE
<1>1. CASE Next
  BY <1>1 DEF Next, AddIngresses, ConvertGroup, ConvertDefaults, BuildGateway, Return
<1>2. CASE StartFeatures
  BY <1>2 DEF StartFeatures
<1>3. CASE CanaryFeature
  BY <1>3 DEF CanaryFeature
<1>4. CASE CreateBackendTLSPolicies
  BY <1>4 DEF CreateBackendTLSPolicies, Feature, Reached
<1>5. CASE RedirectFeature \/ HeaderModifierFeature \/ RegexFeature
  BY <1>5 DEF RedirectFeature, HeaderModifierFeature, RegexFeature, Feature, Reached
<1>6. CASE BackendTLSFeature \/ SessionAffinityFeature
  BY <1>6 DEF BackendTLSFeature, SessionAffinityFeature, Feature, Reached
<1>7. CASE SSLPassthroughFeature \/ PassthroughPanics \/ AppRootFeature
  BY <1>7 DEF SSLPassthroughFeature, PassthroughPanics, AppRootFeature, Feature, Reached
<1> QED
  BY <1>1, <1>2, <1>3, <1>4, <1>5, <1>6, <1>7 DEF NginxNext

(* Every step keeps the invariant of the passes.                            *)
LEMMA EmitStep ==
  ASSUME IInv, ShapesInv, NginxInv, FlowsInv, SitesInv, EmitInv, [EmittersNext]_emittersVars
  PROVE  EmitInv'
<1>1. CASE UNCHANGED <<vars, nginxVars>>
  <2>1. UNCHANGED <<pc, stage, errors, pir>>
    BY <1>1 DEF vars, nginxVars
  <2>2. CASE UNCHANGED emitVars
    <3>1. phase' = phase /\ left' = left /\ wwwErrors' = wwwErrors /\ eir' = eir
      BY <2>2 DEF emitVars
    <3>2. phase # "convert" /\ stage = "converted" => Passing(phase', left', wwwErrors', eir')
      BY <3>1 DEF EmitInv
    <3>3. phase # "convert" /\ stage = "converted" => Passing(phase, left, wwwErrors, eir)'
      BY <1>1, <3>2, PassingStays
    <3> QED
      BY <2>1, <3>1, <3>3 DEF EmitInv
  <2>3. CASE ApplyPolicies
    <3>1. phase' = "redirects" /\ stage \in {"failed", "converted"} /\ pc = "done"
      BY <2>3 DEF ApplyPolicies, FlowsInv
    <3>2. stage = "converted" => Passing(phase, left, wwwErrors, eir)'
      BY <1>1, <2>3, ConvertedRoutes, PoliciesPass, PassingStays
    <3> QED
      BY <2>1, <3>1, <3>2 DEF EmitInv
  <2>4. CASE AddRedirects \/ StartWWW \/ AddWWWRedirect \/ RejectWWW \/ CommonEmit
    <3>1. phase # "convert" /\ phase' \in {"redirects", "www", "common"}
      BY <2>4 DEF AddRedirects, StartWWW, AddWWWRedirect, RejectWWW, CommonEmit
    <3>2. ASSUME stage = "converted" PROVE Passing(phase, left, wwwErrors, eir)'
      <4>1. Passing(phase, left, wwwErrors, eir) /\ RoutesGood
        BY <3>1, <3>2, ConvertedRoutes DEF EmitInv
      <4>2. Passing(phase', left', wwwErrors', eir')
        BY <2>4, <4>1, RedirectsPass, StartPasses, WWWPasses, RejectPasses, CommonPasses
      <4> QED
        BY <1>1, <4>2, PassingStays
    <3> QED
      BY <2>1, <3>1, <3>2 DEF EmitInv
  <2>5. CASE StandardEmit \/ EnvoyGatewayEmit \/ KgatewayEmit \/ AgentgatewayEmit \/ AirlockEmit
    <3>1. phase = "common" /\ phase' = "done"
      BY <2>5 DEF StandardEmit, EnvoyGatewayEmit, KgatewayEmit, AgentgatewayEmit, AirlockEmit, Emits
    <3>2. ASSUME stage = "converted" PROVE Passing(phase, left, wwwErrors, eir)'
      <4>1. Passing(phase, left, wwwErrors, eir)
        BY <3>1, <3>2 DEF EmitInv
      <4>2. LastStep
        BY <2>5, <4>1, EmittersLast DEF Passing
      <4> QED
        BY <1>1, <4>1, <4>2, LastPasses, PassingStays
    <3> QED
      BY <2>1, <3>1, <3>2 DEF EmitInv
  <2> QED
    BY <2>2, <2>3, <2>4, <2>5 DEF EmittersNext, EmitNext, emittersVars, allVars
<1>2. CASE NginxNext /\ UNCHANGED emitVars
  <2>1. phase' = phase
    BY <1>2 DEF emitVars
  <2>2. phase = "convert"
    BY <1>2, Terminal DEF EmitInv
  <2>3. stage' = "failed" => errors' # {}
    <3>1. CASE Next /\ UNCHANGED nginxVars
      <4>1. stage = "failed" => pc = "done"
        BY DEF FlowsInv
      <4>2. pc # "done"
        BY <3>1 DEF Next, AddIngresses, ConvertGroup, ConvertDefaults, BuildGateway, Return
      <4> QED
        BY <3>1, <4>1, <4>2 DEF nginxVars
    <3>2. CASE StartFeatures
      BY <3>2 DEF StartFeatures, vars
    <3>3. CASE CanaryFeature \/ PassthroughPanics
      BY <3>3 DEF CanaryFeature, PassthroughPanics, Reached
    <3>4. CASE \/ CreateBackendTLSPolicies \/ RedirectFeature \/ HeaderModifierFeature \/ RegexFeature
               \/ BackendTLSFeature \/ SessionAffinityFeature \/ SSLPassthroughFeature \/ AppRootFeature
      BY <3>4, StagesAre DEF CreateBackendTLSPolicies, RedirectFeature, HeaderModifierFeature, RegexFeature,
        BackendTLSFeature, SessionAffinityFeature, SSLPassthroughFeature, AppRootFeature, Feature
    <3> QED
      BY <1>2, <3>1, <3>2, <3>3, <3>4 DEF NginxNext
  <2> QED
    BY <2>1, <2>2, <2>3 DEF EmitInv
<1>3. \/ NginxNext /\ UNCHANGED emitVars
      \/ UNCHANGED <<vars, nginxVars>>
  <2>1. CASE EmitNext
    BY <2>1 DEF EmitNext, ApplyPolicies, AddRedirects, StartWWW, AddWWWRedirect, RejectWWW, CommonEmit, StandardEmit
  <2>2. CASE EnvoyGatewayEmit \/ KgatewayEmit \/ AgentgatewayEmit \/ AirlockEmit
    BY <2>2 DEF EnvoyGatewayEmit, KgatewayEmit, AgentgatewayEmit, AirlockEmit, Emits
  <2>3. CASE UNCHANGED emittersVars
    BY <2>3 DEF emittersVars, allVars
  <2> QED
    BY <2>1, <2>2, <2>3 DEF EmittersNext
<1> QED
  BY <1>1, <1>2, <1>3

(* The invariant of the passes holds for every input, emitter and order.    *)
LEMMA EmitInvariant == EmittersSpec => []EmitInv
<1>1. EmittersInit => EmitInv
  BY DEF EmittersInit, EmitInit, NginxInit, EmitInv
<1>2. EmittersSpec /\ [](IInv /\ ShapesInv /\ NginxInv /\ FlowsInv /\ SitesInv) => []EmitInv
  BY <1>1, EmitStep, PTL DEF EmittersSpec
<1> QED
  BY <1>2, EmittersConvert, Invariant, ShapesInvariant, NginxInvariant, FlowsInvariant, SitesInvariant, PTL

-----------------------------------------------------------------------------
(* The printed resources.                                                  *)

PrintedParts ==
  /\ stage = "converted" /\ pc = "done" /\ errors = {}
  /\ RoutesGood /\ Mixed(pir.gateways) /\ Passing("done", {}, {}, eir)

(* What holds of the resources when no pass reported an error.              *)
LEMMA PrintedPasses ==
  ASSUME IInv, ShapesInv, NginxInv, SitesInv, EmitInv, Printed
  PROVE  PrintedParts
<1>1. phase = "done" /\ errors = {} /\ wwwErrors = {}
  BY DEF Printed
<1>2. stage = "converted" /\ pc = "done" /\ Passing(phase, left, wwwErrors, eir)
  BY <1>1 DEF EmitInv
<1>3. left = {}
  BY <1>1, <1>2 DEF Passing
<1> QED
  BY <1>1, <1>2, <1>3, ConvertedRoutes DEF PrintedParts

(* Names in the namespace of a clear route do not collide.                 *)
LEMMA ClearIsFree ==
  ASSUME RoutesGood, NEW k \in DOMAIN pir.http, NEW r, r = pir.http[k], Clear(r)
  PROVE  /\ k[1] = r.ns /\ GatewayOf(r) \in DOMAIN pir.gateways
         /\ \A o \in DOMAIN pir.http : o[1] = r.ns => Free(o)
<1>1. k[1] = r.ns
  BY DEF RoutesGood
<1>2. \A a, o \in DOMAIN pir.http :
        a # o /\ a[1] = r.ns => NamesOf(pir.http[a]) \cap NamesOf(pir.http[o]) = {}
  BY DEF Clear
<1> QED
  BY <1>1, <1>2 DEF Clear, Free

(* A listener of a gateway that is no tunnel is named for its host.        *)
LEMMA NamesSound ==
  ASSUME GatewaysKept(eir.gateways), NEW gw \in DOMAIN eir.gateways,
         NEW l \in ToSet(eir.gateways[gw]), l.mode = "Terminate"
  PROVE  /\ l.port = 80 => l.name = ListenerName(l.host, "http")
         /\ l.port = 443 => l.name = ListenerName(l.host, "https")
<1>1. Proper(l)
  BY DEF GatewaysKept, Sound
<1> QED
  BY <1>1 DEF Proper

(* The element of a sequence of one.                                        *)
LEMMA OneOf ==
  ASSUME NEW s, NEW x, s = <<x>>
  PROVE  ToSet(s) = {x}
BY DEF ToSet

(* The elements of a sequence of two.                                       *)
LEMMA TwoOf ==
  ASSUME NEW s, NEW x, NEW y, s = <<x, y>>
  PROVE  ToSet(s) = {x, y}
BY DEF ToSet

(* A www redirect is on the listeners of its name.                         *)
WWWParts(r, o, w) ==
  /\ w.ns = r.ns /\ w.host = o /\ w.policies = {} /\ DOMAIN w.rules = {1}
  /\ w.rules[1].matches = <<>> /\ ToSet(w.rules[1].filters) = {<<"redirect host", r.host>>}
  /\ ToSet(w.refs) = {[gateway |-> r.parent, port |-> 80, section |-> ListenerName(o, "http")],
                      [gateway |-> r.parent, port |-> 443, section |-> ListenerName(o, "https")]}

(* The parts of a www redirect.                                             *)
LEMMA WWWForm ==
  ASSUME NEW r, NamedHost(r.host)
  PROVE  WWWParts(r, OtherName(r.host), WWWRoute(r))
<1>a. PICK o : o = OtherName(r.host)
  OBVIOUS
<1>b. PICK w : w = WWWRoute(r)
  OBVIOUS
<1>c. PICK plain : plain = [gateway |-> r.parent, port |-> 80, section |-> ListenerName(o, "http")]
  OBVIOUS
<1>d. PICK secure : secure = [gateway |-> r.parent, port |-> 443, section |-> ListenerName(o, "https")]
  OBVIOUS
<1>e. PICK f : f = <<"redirect host", r.host>>
  OBVIOUS
<1>f. PICK rule : rule = [matches |-> <<>>, filters |-> <<f>>, backends |-> <<>>]
  OBVIOUS
<1>1. /\ ListenerName(o, "http") = Append(Dashed(o), "http")
      /\ ListenerName(o, "https") = Append(Dashed(o), "https")
  BY <1>a, OtherNamed
<1>2. w.ns = r.ns /\ w.host = o /\ w.policies = {} /\ w.rules = <<rule>> /\ w.refs = <<plain, secure>>
  BY <1>1, <1>a, <1>b, <1>c, <1>d, <1>e, <1>f DEF WWWRoute
<1>3. DOMAIN w.rules = {1} /\ w.rules[1] = rule
  BY <1>2
<1>4. ToSet(w.refs) = {plain, secure}
  BY <1>2, TwoOf
<1>5. rule.matches = <<>> /\ rule.filters = <<f>>
  BY <1>f
<1>6. ToSet(rule.filters) = {f}
  BY <1>5, OneOf
<1> QED
  BY <1>2, <1>3, <1>4, <1>5, <1>6, <1>a, <1>b, <1>c, <1>d, <1>e DEF WWWParts

WWWOn(r, o, gw, e, l) ==
  e.host = o /\ AttachedTo(e, gw, l) /\ <<"redirect host", r.host>> \in ToSet(e.rules[1].filters)

(* A www redirect attaches to the listeners of its name.                    *)
LEMMA WWWAttached ==
  ASSUME NEW r, NEW o, NEW w, WWWParts(r, o, w), NEW e, Like(w, e), NEW l, l.host = o, l.mode = "Terminate",
         \/ l.port = 80 /\ l.name = ListenerName(o, "http")
         \/ l.port = 443 /\ l.name = ListenerName(o, "https")
  PROVE  WWWOn(r, o, GatewayOf(r), e, l)
<1>1. e.ns = r.ns /\ e.host = o /\ e.refs = w.refs /\ e.rules[1].filters = w.rules[1].filters
  BY DEF Like, WWWParts
<1>2. <<"redirect host", r.host>> \in ToSet(e.rules[1].filters)
  BY <1>1 DEF WWWParts
<1>3. PICK ref \in ToSet(e.refs) : ref.gateway = r.parent /\ ref.port = l.port /\ ref.section = l.name
  <2>a. PICK ref : ref = [gateway |-> r.parent, port |-> l.port, section |-> l.name]
    OBVIOUS
  <2>1. ref \in ToSet(w.refs)
    BY <2>a DEF WWWParts
  <2>2. ref.gateway = r.parent /\ ref.port = l.port /\ ref.section = l.name
    BY <2>a
  <2> QED
    BY <1>1, <2>1, <2>2
<1>4. <<e.ns, ref.gateway>> = GatewayOf(r)
  BY <1>1, <1>3 DEF GatewayOf
<1> QED
  BY <1>1, <1>2, <1>3, <1>4 DEF AttachedTo, Accepts, WWWOn

WWWAt(r, gw, port) ==
  \E l \in ToSet(eir.gateways[gw]) : \E x \in DOMAIN eir.http :
    l.port = port /\ l.host = OtherName(r.host) /\ WWWOn(r, OtherName(r.host), gw, eir.http[x], l)

(* The other name is listened for and redirected.                           *)
LEMMA WWWListens ==
  ASSUME PrintedParts, NEW k \in DOMAIN pir.http, NEW r, r = pir.http[k], Clear(r), WWWMade(r),
         NEW gw, gw = GatewayOf(r)
  PROVE  WWWAt(r, gw, 80) /\ (Listens(pir.gateways[gw], r.host, 443) => WWWAt(r, gw, 443))
<1>1. RoutesGood /\ Passing("done", {}, {}, eir)
  BY DEF PrintedParts
<1>2. gw \in DOMAIN pir.gateways /\ Free(k)
  BY <1>1, ClearIsFree
<1>3. NamedHost(r.host) /\ Key(r) = k
  BY <1>1 DEF RoutesGood
<1>a. PICK o : o = OtherName(r.host)
  OBVIOUS
<1>4. WWWParts(r, o, WWWRoute(r))
  BY <1>3, <1>a, WWWForm
<1>5. Followed(r, eir.http, "done", {}, {})
  BY <1>1, <1>2 DEF Passing, AllFollowed
<1>6. WWWKey(r) \in DOMAIN eir.http /\ Like(WWWRoute(r), eir.http[WWWKey(r)])
  BY <1>5 DEF Followed, Renamed, As
<1>7. WWWHeard(r, pir.gateways[gw], eir.gateways[gw]) /\ gw \in DOMAIN eir.gateways
  BY <1>1, <1>2 DEF Passing, AllHeard, GatewaysKept
<1>8. ASSUME NEW port \in {80, 443}, Listens(eir.gateways[gw], o, port) PROVE WWWAt(r, gw, port)
  <2>1. PICK l \in ToSet(eir.gateways[gw]) : l.host = o /\ l.port = port /\ l.mode = "Terminate"
    BY <1>8 DEF Listens
  <2>2. \/ l.port = 80 /\ l.name = ListenerName(o, "http")
        \/ l.port = 443 /\ l.name = ListenerName(o, "https")
    BY <1>1, <1>7, <2>1, NamesSound DEF Passing
  <2>a. PICK e : e = eir.http[WWWKey(r)]
    OBVIOUS
  <2>b. PICK w : w = WWWRoute(r)
    OBVIOUS
  <2>3. WWWParts(r, o, w) /\ Like(w, e)
    BY <1>4, <1>6, <2>a, <2>b
  <2>4. WWWOn(r, o, gw, e, l)
    BY <2>1, <2>2, <2>3, WWWAttached
  <2> QED
    BY <1>6, <1>a, <2>1, <2>4, <2>a DEF WWWAt
<1> QED
  BY <1>7, <1>8, <1>a DEF WWWHeard

(* The same, in the words of the property.                                  *)
LEMMA WWWAtMeans ==
  ASSUME NEW r, NEW port, WWWAt(r, GatewayOf(r), port)
  PROVE  WWWAnswered(r, port)
<1>a. PICK gw : gw = GatewayOf(r)
  OBVIOUS
<1>1. PICK l \in ToSet(eir.gateways[gw]), x \in DOMAIN eir.http :
        l.port = port /\ l.host = OtherName(r.host) /\ WWWOn(r, OtherName(r.host), gw, eir.http[x], l)
  BY <1>a DEF WWWAt
<1>b. PICK e : e = eir.http[x]
  OBVIOUS
<1>c. PICK f : f = <<"redirect host", r.host>>
  OBVIOUS
<1>2. e.host = OtherName(r.host) /\ AttachedTo(e, gw, l) /\ f \in ToSet(e.rules[1].filters)
  BY <1>1, <1>b, <1>c DEF WWWOn
<1>3. \E h \in ToSet(eir.gateways[gw]) : \E y \in DOMAIN eir.http :
        /\ h.port = port /\ h.host = OtherName(r.host) /\ eir.http[y].host = h.host
        /\ AttachedTo(eir.http[y], gw, h) /\ f \in ToSet(eir.http[y].rules[1].filters)
  BY <1>1, <1>2, <1>b
<1> QED
  BY <1>3, <1>a, <1>c DEF WWWAnswered

(* The other name of a host that asks for it is redirected.                 *)
LEMMA WWWStep ==
  ASSUME IInv, ShapesInv, NginxInv, SitesInv, EmitInv
  PROVE  WWWAnswers
<1>1. ASSUME Printed, NEW k \in DOMAIN pir.http, NEW r, r = pir.http[k], Clear(r), r.host # NoHost, AsksWWW(r)
      PROVE  WWWAnswered(r, 80) /\ (Listens(pir.gateways[GatewayOf(r)], r.host, 443) => WWWAnswered(r, 443))
  <2>1. /\ WWWAt(r, GatewayOf(r), 80)
        /\ Listens(pir.gateways[GatewayOf(r)], r.host, 443) => WWWAt(r, GatewayOf(r), 443)
    BY <1>1, PrintedPasses, WWWListens DEF WWWMade
  <2> QED
    BY <2>1, WWWAtMeans
<1> QED
  BY <1>1 DEF WWWAnswers

(* Who answers for the host of a route.                                    *)
Attached(x, r, port) ==
  /\ x \in DOMAIN eir.http /\ eir.http[x].host = r.host
  /\ \E l \in ToSet(eir.gateways[GatewayOf(r)]) : l.port = port /\ AttachedTo(eir.http[x], GatewayOf(r), l)

(* The rules on a port are those of the routes attached there.              *)
LEMMA PortRules ==
  ASSUME NEW r, NEW port, NEW rule
  PROVE  rule \in OnPort(r, port) <=> \E x : Attached(x, r, port) /\ rule \in ToSet(eir.http[x].rules)
BY DEF OnPort, Attached

Answering(r, port, q, e) ==
  /\ q.ns = r.ns /\ q.parent = r.parent
  /\ \/ Like(MainForm(q), e) /\ q.host = r.host /\ (MainSplits(q) => port = 443)
     \/ Like(PlainForm(q), e) /\ q.host = r.host /\ MainSplits(q) /\ port = 80
     \/ Like(WWWRoute(q), e) /\ OtherName(q.host) = r.host

(* The only reference of a route.                                           *)
LEMMA OneRefSet ==
  ASSUME NEW r, NEW port, NEW section, NEW ref \in ToSet(OneRef(r, port, section))
  PROVE  ref.gateway = r.parent /\ ref.port = port /\ ref.section = section
BY OneOf DEF OneRef

(* The emitters keep the host and the references of a route.                *)
LEMMA LikeHead ==
  ASSUME NEW a, NEW b, Like(a, b)
  PROVE  b.ns = a.ns /\ b.host = a.host /\ b.refs = a.refs
BY DEF Like

(* The references of a www redirect.                                        *)
LEMMA WWWHead ==
  ASSUME NEW r, NEW o, NEW w, WWWParts(r, o, w)
  PROVE  w.host = o /\ \A ref \in ToSet(w.refs) : ref.gateway = r.parent
<1>1. w.host = o
  BY DEF WWWParts
<1>a. PICK plain : plain = [gateway |-> r.parent, port |-> 80, section |-> ListenerName(o, "http")]
  OBVIOUS
<1>b. PICK secure : secure = [gateway |-> r.parent, port |-> 443, section |-> ListenerName(o, "https")]
  OBVIOUS
<1>2. ToSet(w.refs) = {plain, secure}
  BY <1>a, <1>b DEF WWWParts
<1>3. plain.gateway = r.parent /\ secure.gateway = r.parent
  BY <1>a, <1>b
<1> QED
  BY <1>1, <1>2, <1>3

(* Whoever answers for a clear route comes from a route of its gateway.     *)
LEMMA WhoAnswers ==
  ASSUME PrintedParts, NEW k \in DOMAIN pir.http, NEW r, r = pir.http[k], Clear(r),
         NEW port \in {80, 443}, NEW x, Attached(x, r, port)
  PROVE  \E o \in DOMAIN pir.http : Answering(r, port, pir.http[o], eir.http[x])
<1>1. RoutesGood /\ Passing("done", {}, {}, eir)
  BY DEF PrintedParts
<1>2. x \in DOMAIN eir.http
  BY DEF Attached
<1>a. PICK e : e = eir.http[x]
  OBVIOUS
<1>3. PICK ref \in ToSet(e.refs) : e.ns = r.ns /\ ref.gateway = r.parent /\ ref.port \in {0, port}
  <2>1. PICK l \in ToSet(eir.gateways[GatewayOf(r)]) : l.port = port /\ AttachedTo(e, GatewayOf(r), l)
    BY <1>a DEF Attached
  <2>2. PICK ref \in ToSet(e.refs) : <<e.ns, ref.gateway>> = GatewayOf(r) /\ ref.port \in {0, l.port}
    BY <2>1 DEF AttachedTo
  <2> QED
    BY <2>1, <2>2 DEF GatewayOf
<1>4. e.host = r.host
  BY <1>a DEF Attached
<1>5. PICK o \in DOMAIN pir.http : e.ns = x[1] /\ x \in NamesOf(pir.http[o])
  BY <1>1, <1>2, <1>a DEF Passing, AllNamed
<1>b. PICK q : q = pir.http[o]
  OBVIOUS
<1>6. /\ Key(q) = o /\ o[1] = q.ns /\ ShapedRules(q.rules) /\ IsList(q.sources)
      /\ IsList(q.name) /\ NamedHost(q.host)
  BY <1>1, <1>b DEF RoutesGood
<1>7. /\ NamesOf(q) = {Key(q), PlainKey(q), WWWKey(q)}
      /\ Key(q)[1] = q.ns /\ PlainKey(q)[1] = q.ns /\ WWWKey(q)[1] = q.ns
  BY <1>6, NamesApart
<1>8. q.ns = r.ns /\ Free(o)
  <2>1. q.ns = r.ns
    BY <1>3, <1>5, <1>7, <1>b
  <2> QED
    BY <1>1, <1>6, <2>1, ClearIsFree
<1>9. Followed(q, eir.http, "done", {}, {})
  BY <1>1, <1>8, <1>b DEF Passing, AllFollowed
<1>10. /\ MainForm(q).host = q.host
       /\ MainForm(q).refs = IF MainSplits(q) THEN OneRef(q, 443, ListenerName(q.host, "https"))
                             ELSE OneRef(q, 0, <<>>)
       /\ PlainForm(q).host = q.host /\ PlainForm(q).refs = OneRef(q, 80, <<>>)
  BY <1>6, FormsShaped
<1>11. CASE x = Key(q)
  <2>1. Like(MainForm(q), e)
    BY <1>9, <1>11, <1>a DEF Followed, Rerouted, As
  <2>2. e.host = q.host /\ e.refs = IF MainSplits(q) THEN OneRef(q, 443, ListenerName(q.host, "https"))
                                    ELSE OneRef(q, 0, <<>>)
    BY <1>10, <2>1, LikeHead
  <2>3. ref.gateway = q.parent /\ (MainSplits(q) => ref.port = 443)
    BY <1>3, <2>2, OneRefSet
  <2> QED
    BY <1>3, <1>4, <1>8, <1>a, <1>b, <2>1, <2>2, <2>3 DEF Answering
<1>12. CASE x = PlainKey(q)
  <2>1. Like(PlainForm(q), e) /\ MainSplits(q)
    BY <1>2, <1>9, <1>12, <1>a DEF Followed, Rerouted, As
  <2>2. e.host = q.host /\ e.refs = OneRef(q, 80, <<>>)
    BY <1>10, <2>1, LikeHead
  <2>3. ref.gateway = q.parent /\ ref.port = 80
    BY <1>3, <2>2, OneRefSet
  <2> QED
    BY <1>3, <1>4, <1>8, <1>a, <1>b, <2>1, <2>2, <2>3 DEF Answering
<1>13. CASE x = WWWKey(q)
  <2>1. Like(WWWRoute(q), e)
    BY <1>2, <1>9, <1>13, <1>a DEF Followed, Renamed, As
  <2>a. PICK w : w = WWWRoute(q)
    OBVIOUS
  <2>b. PICK name : name = OtherName(q.host)
    OBVIOUS
  <2>2. WWWParts(q, name, w)
    BY <1>6, <2>a, <2>b, WWWForm
  <2>3. e.host = OtherName(q.host) /\ e.refs = w.refs
    <3>1. Like(w, e)
      BY <2>1, <2>a
    <3> QED
      BY <2>2, <2>b, <3>1, LikeHead, WWWHead
  <2>4. ref.gateway = q.parent
    <3>1. ref \in ToSet(w.refs)
      BY <1>3, <2>3
    <3> QED
      BY <2>2, <3>1, WWWHead
  <2> QED
    BY <1>4, <1>3, <1>8, <1>a, <1>b, <2>1, <2>3, <2>4 DEF Answering
<1> QED
  BY <1>5, <1>7, <1>11, <1>12, <1>13, <1>b

NoneLike(r, rule) == \A n \in DOMAIN r.rules : r.rules[n].matches # rule.matches

NoMatch(rule) == rule.matches = <<>>

(* A route and its www redirect are not mistaken for each other.           *)
LEMMA WWWAnswersNoRule ==
  ASSUME PrintedParts, SitesInv, NEW k \in DOMAIN pir.http, NEW r, r = pir.http[k],
         NEW o \in DOMAIN pir.http, NEW q, q = pir.http[o], NEW e, Like(WWWRoute(q), e), OtherName(q.host) = r.host,
         NEW rule \in ToSet(e.rules)
  PROVE  NoMatch(rule) /\ NoneLike(r, rule)
<1>1. NamedHost(q.host)
  BY DEF PrintedParts, RoutesGood
<1>2. OtherName(q.host) # NoHost
  BY <1>1, OtherNamed
<1>3. WWWParts(q, OtherName(q.host), WWWRoute(q))
  BY <1>1, WWWForm
<1>4. rule.matches = <<>>
  <2>1. PICK i \in DOMAIN e.rules : rule = e.rules[i]
    BY InToSet
  <2>a. PICK w : w = WWWRoute(q)
    OBVIOUS
  <2>2. DOMAIN w.rules = {1} /\ w.rules[1].matches = <<>>
    BY <1>3, <2>a DEF WWWParts
  <2>3. i = 1 /\ LikeRule(w.rules[1], e.rules[1])
    BY <2>1, <2>2, <2>a DEF Like
  <2> QED
    BY <2>1, <2>2, <2>3 DEF LikeRule
<1>5. ASSUME NEW i \in DOMAIN r.rules, r.rules[i].matches = <<>> PROVE FALSE
  <2>1. Sited(ir.http[k], r)
    BY DEF SitesInv, AfterCanary, PrintedParts
  <2>2. r.host = NoHost
    BY <1>5, <2>1 DEF Sited, SitedRule
  <2> QED
    BY <1>2, <2>2
<1> QED
  BY <1>4, <1>5 DEF NoMatch, NoneLike

(* Which rules a route answers with.                                       *)
LEMMA LikeRules ==
  ASSUME NEW a, NEW e, Like(a, e)
  PROVE  /\ \A rule \in ToSet(e.rules) : \E p \in ToSet(a.rules) :
              LikeRule(p, rule) /\ (a.policies = {} => rule.filters = p.filters)
         /\ \A p \in ToSet(a.rules) : \E rule \in ToSet(e.rules) : LikeRule(p, rule)
<1>1. ASSUME NEW rule \in ToSet(e.rules)
      PROVE  \E p \in ToSet(a.rules) : LikeRule(p, rule) /\ (a.policies = {} => rule.filters = p.filters)
  <2>1. PICK n \in DOMAIN e.rules : rule = e.rules[n]
    BY InToSet
  <2>2. n \in DOMAIN a.rules /\ LikeRule(a.rules[n], e.rules[n])
        /\ (a.policies = {} => e.rules[n].filters = a.rules[n].filters)
    BY <2>1 DEF Like
  <2>3. a.rules[n] \in ToSet(a.rules)
    BY <2>2, InToSet
  <2> QED
    BY <2>1, <2>2, <2>3
<1>2. ASSUME NEW p \in ToSet(a.rules) PROVE \E rule \in ToSet(e.rules) : LikeRule(p, rule)
  <2>1. PICK n \in DOMAIN a.rules : p = a.rules[n]
    BY InToSet
  <2>2. n \in DOMAIN e.rules /\ LikeRule(a.rules[n], e.rules[n])
    BY <2>1 DEF Like
  <2>3. e.rules[n] \in ToSet(e.rules)
    BY <2>2, InToSet
  <2> QED
    BY <2>1, <2>2, <2>3
<1> QED
  BY <1>1, <1>2

(* The rules of the original route.                                         *)
LEMMA MainOrigins ==
  ASSUME NEW q, ShapedRules(q.rules), IsList(q.sources), NEW p
  PROVE  p \in ToSet(MainForm(q).rules) <=>
           (\E n \in DOMAIN q.rules : p = q.rules[n]) \/ p \in ToSet(SlashRules(q.rules, "slash"))
<1>1. MainForm(q).rules = MainRules(q)
  BY FormsShaped
<1>2. ShapedRules(SlashRules(q.rules, "slash"))
  BY SlashRulesAre
<1>3. ToSet(MainRules(q)) = ToSet(q.rules) \cup ToSet(SlashRules(q.rules, "slash"))
  BY <1>2, RulesJoined DEF MainRules
<1>4. p \in ToSet(q.rules) <=> \E n \in DOMAIN q.rules : p = q.rules[n]
  BY InToSet
<1> QED
  BY <1>1, <1>3, <1>4

PlainOf(q, n) == IF Upgraded(q, n) THEN UpgradeRule(q.rules[n].matches) ELSE q.rules[n]

(* The rules of the route for port 80.                                      *)
LEMMA PlainOrigins ==
  ASSUME NEW q, ShapedRules(q.rules), IsList(q.sources), DOMAIN q.rules = DOMAIN q.sources, NEW p
  PROVE  p \in ToSet(PlainForm(q).rules) <=>
           \/ \E n \in DOMAIN q.rules : Speakers(q, n) # {} /\ p = PlainOf(q, n)
           \/ p \in ToSet(SlashRules(q.rules, "https slash"))
<1>1. ShapedRules(MainRules(q)) /\ PlainForm(q).rules = PlainRules(q, MainRules(q)) \o SlashRules(q.rules, "https slash")
  BY FormsShaped
<1>2. ShapedRules(SlashRules(q.rules, "https slash")) /\ ShapedRules(SlashRules(q.rules, "slash"))
  BY SlashRulesAre
<1>3. /\ ShapedRules(PlainRules(q, MainRules(q)))
      /\ \A x : x \in ToSet(PlainRules(q, MainRules(q))) <=> \E i \in DOMAIN q.sources :
           i \in DOMAIN MainRules(q) /\ Speakers(q, i) # {} /\ x = PlainRule(q, MainRules(q), i)
  BY <1>1, PlainRulesAre, ZenonT(30)
<1>4. ToSet(PlainForm(q).rules) = ToSet(PlainRules(q, MainRules(q))) \cup ToSet(SlashRules(q.rules, "https slash"))
  BY <1>1, <1>2, <1>3, RulesJoined
<1>5. \A i \in DOMAIN q.rules : i \in DOMAIN MainRules(q) /\ MainRules(q)[i] = q.rules[i]
  <2>a. PICK a : a = q.rules
    OBVIOUS
  <2>b. PICK b : b = SlashRules(q.rules, "slash")
    OBVIOUS
  <2>c. PICK c : c = a \o b
    OBVIOUS
  <2>1. ShapedRules(a) /\ ShapedRules(b)
    BY <1>2, <2>a, <2>b
  <2>2. \A i \in DOMAIN a : i \in DOMAIN c /\ c[i] = a[i]
    BY <2>1, <2>c, RulesJoined
  <2> QED
    BY <2>2, <2>a, <2>b, <2>c DEF MainRules
<1>6. \A i \in DOMAIN q.rules : PlainRule(q, MainRules(q), i) = PlainOf(q, i)
  BY <1>5 DEF PlainRule, PlainOf
<1>7. p \in ToSet(PlainRules(q, MainRules(q))) <=>
        \E n \in DOMAIN q.rules : Speakers(q, n) # {} /\ p = PlainOf(q, n)
  BY <1>3, <1>5, <1>6
<1> QED
  BY <1>4, <1>7

(* A rule for a path that lacks its slash has a match of its own.          *)
LEMMA SlashIsOwn ==
  ASSUME NEW rules, ShapedRules(rules), NEW target, NEW s \in ToSet(SlashRules(rules, target)), NEW i \in DOMAIN rules
  PROVE  rules[i].matches # s.matches
<1>a. PICK ms : ms = LiteralMatches(rules)
  OBVIOUS
<1>1. PICK p \in ToSet(SlashSources(rules)) : s = SlashRule(p, target)
  BY SlashRulesAre
<1>2. ~IsServed(ms, p)
  BY <1>a, SourcesAre
<1>3. ASSUME rules[i].matches = s.matches PROVE FALSE
  <2>a. PICK m : m = [type |-> "Exact", path |-> p, header |-> <<>>]
    OBVIOUS
  <2>1. s.matches = <<m>>
    BY <1>1, <2>a DEF SlashRule
  <2>2. ToSet(s.matches) = {m}
    BY <2>1, OneOf
  <2>3. m \in ToSet(rules[i].matches) /\ m.type = "Exact" /\ m.path = p
    BY <1>3, <2>2, <2>a
  <2>4. rules[i] \in ToSet(rules)
    BY InToSet
  <2>5. m \in ToSet(ms)
    BY <1>a, <2>3, <2>4, LiteralsAre
  <2> QED
    BY <1>2, <2>3, <2>5 DEF IsServed
<1> QED
  BY <1>3

SlashLike(s, rules, target) == \E t \in ToSet(SlashRules(rules, target)) : t.matches = s.matches

(* The rules for slashes match the same paths whatever their target.        *)
LEMMA SlashesAlike ==
  ASSUME NEW rules, ShapedRules(rules), NEW target, NEW other, NEW s, s \in ToSet(SlashRules(rules, target))
  PROVE  SlashLike(s, rules, other)
<1>1. PICK p \in ToSet(SlashSources(rules)) : s = SlashRule(p, target)
  BY SlashRulesAre
<1>2. SlashRule(p, other) \in ToSet(SlashRules(rules, other))
  BY SlashRulesAre
<1>3. SlashRule(p, other).matches = SlashRule(p, target).matches
  BY DEF SlashRule
<1> QED
  BY <1>1, <1>2, <1>3 DEF SlashLike

(* What the only rule with its match is taken for.                         *)
OnlyOne(r, i) ==
  \A k \in DOMAIN pir.http : SameSite(r, pir.http[k]) =>
    /\ \A j \in DOMAIN pir.http[k].rules : pir.http[k].rules[j].matches = r.rules[i].matches => k = Key(r) /\ i = j
    /\ \A target \in {"slash", "https slash"} : \A s \in ToSet(SlashRules(pir.http[k].rules, target)) :
         s.matches # r.rules[i].matches

(* OnlyRule, with the rules for slashes of the route itself.                *)
LEMMA OnlyIsOne ==
  ASSUME RoutesGood, NEW k \in DOMAIN pir.http, NEW r, r = pir.http[k], NEW i \in DOMAIN r.rules, OnlyRule(r, i)
  PROVE  OnlyOne(r, i)
<1>1. ASSUME NEW o \in DOMAIN pir.http, SameSite(r, pir.http[o]),
             NEW j \in DOMAIN pir.http[o].rules, pir.http[o].rules[j].matches = r.rules[i].matches
      PROVE  o = Key(r) /\ i = j
  <2>1. DOMAIN pir.http[o].rules = 1 .. Len(pir.http[o].rules)
    BY ListShape DEF RoutesGood, ShapedRules
  <2> QED
    BY <1>1, <2>1 DEF OnlyRule
<1>2. ASSUME NEW o \in DOMAIN pir.http, SameSite(r, pir.http[o]), NEW target \in {"slash", "https slash"},
             NEW s \in ToSet(SlashRules(pir.http[o].rules, target)), s.matches = r.rules[i].matches
      PROVE  FALSE
  <2>1. ShapedRules(pir.http[o].rules) /\ Key(r) = k
    BY DEF RoutesGood
  <2>2. CASE o = k
    BY <1>2, <2>1, <2>2, SlashIsOwn
  <2>3. CASE o # k
    <3>1. PICK t \in ToSet(SlashRules(pir.http[o].rules, "slash")) : t.matches = s.matches
      <4>a. PICK rules : rules = pir.http[o].rules
        OBVIOUS
      <4>1. ShapedRules(rules) /\ s \in ToSet(SlashRules(rules, target))
        BY <1>2, <2>1, <4>a
      <4>2. SlashLike(s, rules, "slash")
        BY <4>1, SlashesAlike
      <4> QED
        BY <4>2, <4>a DEF SlashLike
    <3> QED
      BY <1>2, <2>1, <2>3, <3>1 DEF OnlyRule
  <2> QED
    BY <2>2, <2>3
<1> QED
  BY <1>1, <1>2 DEF OnlyOne

(* The answers for a match that only one rule has come from this rule.     *)
AnswersFor(r, i, port, rule) ==
  \/ LikeRule(r.rules[i], rule) /\ (MainSplits(r) => port = 443)
  \/ /\ MainSplits(r) /\ port = 80 /\ Speakers(r, i) # {}
     /\ LikeRule(PlainOf(r, i), rule) /\ rule.filters = PlainOf(r, i).filters

Routed(k, r) == k \in DOMAIN pir.http /\ r = pir.http[k]

IsPort(port) == port \in {80, 443}

(* A rule for port 80 matches what the rule it is made from matches.        *)
LEMMA PlainOfMatches ==
  ASSUME NEW q, NEW n
  PROVE  PlainOf(q, n).matches = q.rules[n].matches
BY DEF PlainOf, UpgradeRule

Foreign(rules, o, r, i) ==
  /\ \A j \in DOMAIN rules : rules[j].matches = r.rules[i].matches => o = Key(r) /\ i = j
  /\ \A target \in {"slash", "https slash"} : \A s \in ToSet(SlashRules(rules, target)) :
       s.matches # r.rules[i].matches

(* No rule of another route of the site has the match.                      *)
LEMMA OnlyHere ==
  ASSUME NEW r, NEW i, OnlyOne(r, i), NEW o, o \in DOMAIN pir.http, SameSite(r, pir.http[o])
  PROVE  Foreign(pir.http[o].rules, o, r, i)
BY DEF OnlyOne, Foreign

(* Every answer for such a match comes from this rule.                      *)
LEMMA AnswersAre ==
  ASSUME PrintedParts, SitesInv, NEW k, NEW r, Routed(k, r), Clear(r),
         NEW i \in DOMAIN r.rules, OnlyRule(r, i), NEW port, IsPort(port), NEW rule \in Answers(r, i, port)
  PROVE  AnswersFor(r, i, port, rule)
<1>0. k \in DOMAIN pir.http /\ r = pir.http[k]
  BY DEF Routed
<1>1. RoutesGood /\ Key(r) = k
  BY <1>0 DEF PrintedParts, RoutesGood
<1>2. OnlyOne(r, i)
  BY <1>0, <1>1, OnlyIsOne
<1>3. rule \in OnPort(r, port) /\ rule.matches = r.rules[i].matches
  BY DEF Answers
<1>4. PICK x : Attached(x, r, port) /\ rule \in ToSet(eir.http[x].rules)
  BY <1>3, PortRules
<1>a. PICK e : e = eir.http[x]
  OBVIOUS
<1>5. PICK o \in DOMAIN pir.http : Answering(r, port, pir.http[o], e)
  BY <1>0, <1>4, <1>a, WhoAnswers DEF IsPort
<1>b. PICK q : q = pir.http[o]
  OBVIOUS
<1>6. ShapedRules(q.rules) /\ IsList(q.sources) /\ Answering(r, port, q, e) /\ rule \in ToSet(e.rules)
  BY <1>1, <1>4, <1>5, <1>a, <1>b DEF RoutesGood
<1>7. DOMAIN q.rules = DOMAIN q.sources
  BY <1>b DEF SitesInv, AfterCanary, PrintedParts, Sited
<1>7a. q.host = r.host => Foreign(q.rules, o, r, i)
  <2>1. ASSUME q.host = r.host PROVE Foreign(pir.http[o].rules, o, r, i)
    <3>1. SameSite(r, pir.http[o])
      BY <1>6, <1>b, <2>1 DEF SameSite, Answering
    <3> QED
      BY <1>2, <3>1, OnlyHere
  <2> QED
    BY <2>1, <1>b
<1>8. ASSUME q.host = r.host
      PROVE  \A target \in {"slash", "https slash"} : \A s \in ToSet(SlashRules(q.rules, target)) :
               s.matches # rule.matches
  <2> QED
    BY <1>3, <1>7a, <1>8 DEF Foreign
<1>9. ASSUME q.host = r.host, NEW n \in DOMAIN q.rules, q.rules[n].matches = rule.matches
      PROVE  q = r /\ n = i
  <2>2. o = Key(r) /\ i = n
    BY <1>3, <1>7a, <1>9 DEF Foreign
  <2> QED
    BY <1>0, <1>1, <1>b, <2>2
<1>10. CASE Like(MainForm(q), e) /\ q.host = r.host /\ (MainSplits(q) => port = 443)
  <2>1. PICK p \in ToSet(MainForm(q).rules) : LikeRule(p, rule)
    BY <1>6, <1>10, LikeRules
  <2>2. p.matches = rule.matches
    BY <2>1 DEF LikeRule
  <2>3. PICK n \in DOMAIN q.rules : p = q.rules[n]
    <3>1. (\E n \in DOMAIN q.rules : p = q.rules[n]) \/ p \in ToSet(SlashRules(q.rules, "slash"))
      BY <1>6, <2>1, MainOrigins
    <3>2. p \notin ToSet(SlashRules(q.rules, "slash"))
      BY <1>8, <1>10, <2>2
    <3> QED
      BY <3>1, <3>2
  <2>4. q = r /\ n = i
    BY <1>9, <1>10, <2>2, <2>3
  <2> QED
    BY <1>10, <2>1, <2>3, <2>4 DEF AnswersFor
<1>11. CASE Like(PlainForm(q), e) /\ q.host = r.host /\ MainSplits(q) /\ port = 80
  <2>1. PlainForm(q).policies = {}
    BY <1>6, FormsShaped
  <2>2. PICK p \in ToSet(PlainForm(q).rules) : LikeRule(p, rule) /\ rule.filters = p.filters
    BY <1>6, <1>11, <2>1, LikeRules
  <2>3. p.matches = rule.matches
    BY <2>2 DEF LikeRule
  <2>4. PICK n \in DOMAIN q.rules : Speakers(q, n) # {} /\ p = PlainOf(q, n)
    <3>1. \/ \E n \in DOMAIN q.rules : Speakers(q, n) # {} /\ p = PlainOf(q, n)
          \/ p \in ToSet(SlashRules(q.rules, "https slash"))
      BY <1>6, <1>7, <2>2, PlainOrigins
    <3>2. p \notin ToSet(SlashRules(q.rules, "https slash"))
      BY <1>8, <1>11, <2>3
    <3> QED
      BY <3>1, <3>2
  <2>5. q = r /\ n = i
    BY <1>9, <1>11, <2>3, <2>4, PlainOfMatches
  <2> QED
    BY <1>11, <2>2, <2>4, <2>5 DEF AnswersFor
<1>12. CASE Like(WWWRoute(q), e) /\ OtherName(q.host) = r.host
  <2>1. NoneLike(r, rule)
    BY <1>0, <1>6, <1>12, <1>b, WWWAnswersNoRule
  <2>2. FALSE
    BY <1>3, <2>1 DEF NoneLike
  <2> QED
    BY <2>2
<1> QED
  BY <1>6, <1>10, <1>11, <1>12 DEF Answering

(* Where the routes made for a route are attached.                         *)
LEMMA OneRefIs ==
  ASSUME NEW r, NEW port, NEW section
  PROVE  \E ref \in ToSet(OneRef(r, port, section)) :
           ref.gateway = r.parent /\ ref.port = port /\ ref.section = section
<1>a. PICK ref : ref = [gateway |-> r.parent, port |-> port, section |-> section]
  OBVIOUS
<1>b. PICK refs : refs = OneRef(r, port, section)
  OBVIOUS
<1>1. refs = <<ref>>
  BY <1>a, <1>b DEF OneRef
<1>2. ToSet(refs) = {ref}
  BY <1>1, OneOf
<1>3. ref.gateway = r.parent /\ ref.port = port /\ ref.section = section
  BY <1>a
<1> QED
  BY <1>2, <1>3, <1>b

RefersTo(form, r, l) ==
  \/ form.refs = OneRef(r, 0, <<>>)
  \/ form.refs = OneRef(r, 80, <<>>) /\ l.port = 80
  \/ form.refs = OneRef(r, 443, l.name) /\ l.port = 443

(* A route attaches to a listener that its only reference allows.           *)
LEMMA AttachedBy ==
  ASSUME NEW r, NEW x, x \in DOMAIN eir.http, NEW form, Like(form, eir.http[x]), form.ns = r.ns, form.host = r.host,
         NEW l \in ToSet(eir.gateways[GatewayOf(r)]), l.mode = "Terminate", Accepts(l, r.host), RefersTo(form, r, l)
  PROVE  Attached(x, r, l.port)
<1>a. PICK e : e = eir.http[x]
  OBVIOUS
<1>1. e.ns = r.ns /\ e.host = r.host /\ e.refs = form.refs
  BY <1>a, LikeHead
<1>2. \E ref \in ToSet(e.refs) : ref.gateway = r.parent /\ ref.port \in {0, l.port} /\ ref.section \in {<<>>, l.name}
  <2>1. CASE form.refs = OneRef(r, 0, <<>>)
    <3>1. PICK ref \in ToSet(OneRef(r, 0, <<>>)) : ref.gateway = r.parent /\ ref.port = 0 /\ ref.section = <<>>
      BY OneRefIs
    <3> QED
      BY <1>1, <2>1, <3>1
  <2>2. CASE form.refs = OneRef(r, 80, <<>>) /\ l.port = 80
    <3>1. PICK ref \in ToSet(OneRef(r, 80, <<>>)) : ref.gateway = r.parent /\ ref.port = 80 /\ ref.section = <<>>
      BY OneRefIs
    <3> QED
      BY <1>1, <2>2, <3>1
  <2>3. CASE form.refs = OneRef(r, 443, l.name) /\ l.port = 443
    <3>1. PICK ref \in ToSet(OneRef(r, 443, l.name)) : ref.gateway = r.parent /\ ref.port = 443 /\ ref.section = l.name
      BY OneRefIs
    <3> QED
      BY <1>1, <2>3, <3>1
  <2> QED
    BY <2>1, <2>2, <2>3 DEF RefersTo
<1>3. AttachedTo(e, GatewayOf(r), l)
  BY <1>1, <1>2 DEF AttachedTo, GatewayOf
<1> QED
  BY <1>1, <1>3, <1>a DEF Attached

(* A route is on all ports, or split into one on 80 and one on 443.         *)
LEMMA FormsAttached ==
  ASSUME PrintedParts, NEW k, NEW r, Routed(k, r), Clear(r),
         NEW l \in ToSet(eir.gateways[GatewayOf(r)]), l.mode = "Terminate", Accepts(l, r.host)
  PROVE  /\ ~MainSplits(r) \/ (l.port = 443 /\ l.host = r.host) =>
              Attached(k, r, l.port) /\ Like(MainForm(r), eir.http[k])
         /\ MainSplits(r) /\ l.port = 80 =>
              Attached(PlainKey(r), r, 80) /\ Like(PlainForm(r), eir.http[PlainKey(r)])
<1>0. k \in DOMAIN pir.http /\ r = pir.http[k]
  BY DEF Routed
<1>1. RoutesGood /\ Passing("done", {}, {}, eir)
  BY DEF PrintedParts
<1>2. GatewayOf(r) \in DOMAIN eir.gateways /\ Free(k)
  BY <1>0, <1>1, ClearIsFree DEF Passing, GatewaysKept
<1>3. Key(r) = k /\ ShapedRules(r.rules) /\ IsList(r.sources)
  BY <1>0, <1>1 DEF RoutesGood
<1>4. Followed(r, eir.http, "done", {}, {})
  BY <1>0, <1>1, <1>2 DEF Passing, AllFollowed
<1>5. /\ MainForm(r).ns = r.ns /\ MainForm(r).host = r.host
      /\ MainForm(r).refs = IF MainSplits(r) THEN OneRef(r, 443, ListenerName(r.host, "https"))
                            ELSE OneRef(r, 0, <<>>)
      /\ PlainForm(r).ns = r.ns /\ PlainForm(r).host = r.host /\ PlainForm(r).refs = OneRef(r, 80, <<>>)
  BY <1>3, FormsShaped
<1>6. k \in DOMAIN eir.http /\ Like(MainForm(r), eir.http[k])
  BY <1>3, <1>4 DEF Followed, Rerouted, As
<1>7. MainSplits(r) => PlainKey(r) \in DOMAIN eir.http /\ Like(PlainForm(r), eir.http[PlainKey(r)])
  BY <1>4 DEF Followed, Rerouted, As
<1>8. CASE ~MainSplits(r)
  <2>1. MainForm(r).refs = OneRef(r, 0, <<>>)
    BY <1>5, <1>8
  <2>a. PICK form : form = MainForm(r)
    OBVIOUS
  <2>2. Like(form, eir.http[k]) /\ form.ns = r.ns /\ form.host = r.host /\ RefersTo(form, r, l)
    BY <1>5, <1>6, <2>1, <2>a DEF RefersTo
  <2>3. Attached(k, r, l.port)
    BY <1>6, <2>2, AttachedBy
  <2> QED
    BY <1>6, <1>8, <2>3
<1>9. CASE MainSplits(r)
  <2>1. ASSUME l.port = 443, l.host = r.host PROVE Attached(k, r, l.port)
    <3>a. PICK form : form = MainForm(r)
      OBVIOUS
    <3>1. MainForm(r).refs = OneRef(r, 443, ListenerName(r.host, "https"))
      BY <1>5, <1>9
    <3>2. l.name = ListenerName(r.host, "https")
      BY <1>1, <1>2, <2>1, NamesSound DEF Passing
    <3>3. Like(form, eir.http[k]) /\ form.ns = r.ns /\ form.host = r.host /\ RefersTo(form, r, l)
      BY <1>5, <1>6, <2>1, <3>1, <3>2, <3>a DEF RefersTo
    <3> QED
      BY <1>6, <3>3, AttachedBy
  <2>2. ASSUME l.port = 80 PROVE Attached(PlainKey(r), r, 80)
    <3>a. PICK form : form = PlainForm(r)
      OBVIOUS
    <3>b. PICK x : x = PlainKey(r)
      OBVIOUS
    <3>1. /\ x \in DOMAIN eir.http /\ Like(form, eir.http[x])
          /\ form.ns = r.ns /\ form.host = r.host /\ RefersTo(form, r, l)
      BY <1>5, <1>7, <1>9, <2>2, <3>a, <3>b DEF RefersTo
    <3>2. Attached(x, r, l.port)
      BY <3>1, AttachedBy
    <3> QED
      BY <2>2, <3>2, <3>b
  <2> QED
    BY <1>6, <1>7, <1>9, <2>1, <2>2
<1> QED
  BY <1>8, <1>9

(* Every route with rules has a listener on port 80.                       *)
LEMMA PlainListener ==
  ASSUME IInv, PathsInv, ShapesInv, PlacesInv, RoutesReachListener, SitesInv, PrintedParts,
         NEW k \in DOMAIN pir.http, NEW r, r = pir.http[k], Clear(r), r.rules # <<>>
  PROVE  \E l \in ToSet(eir.gateways[GatewayOf(r)]) : l.port = 80 /\ l.mode = "Terminate" /\ Accepts(l, r.host)
<1>a. PICK a : a = ir.http[k]
  OBVIOUS
<1>b. PICK gw : gw = GatewayOf(r)
  OBVIOUS
<1>1. pc = "done" /\ errors = {} /\ k \in DOMAIN ir.http /\ Sited(a, r) /\ ListenersStay(ir.gateways, pir.gateways)
  BY <1>a DEF SitesInv, AfterCanary, PrintedParts
<1>2. RoutesGood /\ gw \in DOMAIN pir.gateways /\ ~HostNamesake(r)
  BY <1>b DEF PrintedParts, Clear
<1>3. gw \in DOMAIN ir.gateways /\ ToSet(ir.gateways[gw]) \subseteq ToSet(eir.gateways[gw])
  BY <1>1, <1>2 DEF ListenersStay, PrintedParts, Passing, GatewaysKept
<1>4. a.rules # <<>> /\ a.ns = r.ns /\ a.parent = r.parent /\ a.host = r.host
  BY <1>1 DEF Sited, SameHead
<1>5. OfRules(a) \/ AtDefault(a)
  BY <1>1, <1>a, StoredFull
<1>6. ListensOn80(ir.gateways[gw]) /\ AllProper(ir.gateways[gw])
  BY <1>1, <1>3, StoredListens
<1>7. \A l \in ToSet(ir.gateways[gw]) : l.mode = "Terminate"
  BY <1>6 DEF AllProper, Proper
<1>8. CASE AtDefault(a)
  <2>1. r.host = NoHost
    BY <1>4, <1>8 DEF AtDefault
  <2> QED
    BY <1>3, <1>6, <1>7, <1>b, <2>1 DEF ListensOn80, Accepts
<1>9. CASE OfRules(a)
  <2>1. ~HostNamesake(a)
    BY <1>2, <1>4 DEF HostNamesake
  <2>2. <<a.ns, a.parent>> = gw
    BY <1>4, <1>b DEF GatewayOf
  <2>3. \E l \in ToSet(ir.gateways[gw]) : l.port = 80 /\ (a.host = NoHost \/ l.host = a.host)
    BY <1>1, <1>4, <1>9, <1>a, <2>1, <2>2, StoredReaches
  <2> QED
    BY <1>3, <1>4, <1>7, <1>b, <2>3 DEF Accepts
<1> QED
  BY <1>5, <1>8, <1>9

(* The rules of a route that is attached to a listener answer there.       *)
LEMMA MainAnswers ==
  ASSUME PrintedParts, NEW k, NEW r, Routed(k, r), Clear(r), NEW i \in DOMAIN r.rules,
         NEW l \in ToSet(eir.gateways[GatewayOf(r)]), l.mode = "Terminate", Accepts(l, r.host),
         ~MainSplits(r) \/ (l.port = 443 /\ l.host = r.host)
  PROVE  \E rule \in Answers(r, i, l.port) : LikeRule(r.rules[i], rule)
<1>1. Attached(k, r, l.port) /\ Like(MainForm(r), eir.http[k])
  BY FormsAttached
<1>2. ShapedRules(r.rules) /\ IsList(r.sources)
  BY DEF PrintedParts, RoutesGood, Routed
<1>a. PICK p : p = r.rules[i]
  OBVIOUS
<1>3. p \in ToSet(MainForm(r).rules)
  BY <1>2, <1>a, MainOrigins
<1>4. PICK rule \in ToSet(eir.http[k].rules) : LikeRule(p, rule)
  BY <1>1, <1>3, LikeRules
<1>5. rule \in OnPort(r, l.port)
  BY <1>1, PortRules
<1>6. rule.matches = p.matches
  BY <1>4 DEF LikeRule
<1> QED
  BY <1>4, <1>5, <1>6, <1>a DEF Answers

(* On port 80 the rules of the route made for this port.                   *)
LEMMA PlainAnswers ==
  ASSUME PrintedParts, NEW k, NEW r, Routed(k, r), Clear(r), NEW i \in DOMAIN r.rules, DOMAIN r.rules = DOMAIN r.sources,
         NEW l \in ToSet(eir.gateways[GatewayOf(r)]), l.mode = "Terminate", Accepts(l, r.host), l.port = 80,
         MainSplits(r), Speakers(r, i) # {}
  PROVE  \E rule \in Answers(r, i, 80) : LikeRule(PlainOf(r, i), rule)
<1>1. Attached(PlainKey(r), r, 80) /\ Like(PlainForm(r), eir.http[PlainKey(r)])
  BY FormsAttached
<1>2. ShapedRules(r.rules) /\ IsList(r.sources)
  BY DEF PrintedParts, RoutesGood, Routed
<1>a. PICK p : p = PlainOf(r, i)
  OBVIOUS
<1>b. PICK x : x = PlainKey(r)
  OBVIOUS
<1>3. p \in ToSet(PlainForm(r).rules)
  BY <1>2, <1>a, PlainOrigins
<1>4. PICK rule \in ToSet(eir.http[x].rules) : LikeRule(p, rule)
  BY <1>1, <1>3, <1>b, LikeRules
<1>5. rule \in OnPort(r, 80)
  BY <1>1, <1>b, PortRules
<1>6. rule.matches = r.rules[i].matches
  BY <1>4, <1>a, PlainOfMatches DEF LikeRule
<1> QED
  BY <1>4, <1>5, <1>6, <1>a DEF Answers

(* A rule that the emitters keep answers as before.                         *)
LEMMA LikeIsAsBefore ==
  ASSUME NEW r, NEW i, NEW rule, LikeRule(r.rules[i], rule)
  PROVE  AsBefore(r, i, rule)
BY DEF LikeRule, AsBefore

(* A rule to upgrade on a host with TLS gives the route one for port 80.   *)
LEMMA UpgradeSplits ==
  ASSUME NEW r, ShapedRules(r.rules), IsList(r.sources), DOMAIN r.rules = DOMAIN r.sources
  PROVE  MainSplits(r) <=> r.host \in HostsWithTLS /\ \E i \in DOMAIN r.rules : Upgraded(r, i)
<1>1. ShapedRules(SlashRules(r.rules, "slash"))
  BY SlashRulesAre
<1>a. PICK a : a = r.rules
  OBVIOUS
<1>b. PICK b : b = SlashRules(r.rules, "slash")
  OBVIOUS
<1>c. PICK c : c = a \o b
  OBVIOUS
<1>2. ShapedRules(c) /\ (\A i \in DOMAIN a : i \in DOMAIN c)
  <2>1. ShapedRules(a) /\ ShapedRules(b)
    BY <1>1, <1>a, <1>b
  <2> QED
    BY <2>1, <1>c, RulesJoined
<1>3. DOMAIN c = 1 .. Len(c) /\ DOMAIN r.sources = 1 .. Len(r.sources)
  BY <1>2, ListShape DEF ShapedRules
<1>4. \A i \in DOMAIN r.rules : i \in 1 .. Len(r.sources) /\ i <= Len(c)
  BY <1>2, <1>3, <1>a
<1>5. c = MainRules(r)
  BY <1>a, <1>b, <1>c DEF MainRules
<1> QED
  BY <1>3, <1>4, <1>5 DEF MainSplits, SplitsOff

Upgrading(r, i) ==
  /\ Answers(r, i, 80) # {}
  /\ \A rule \in Answers(r, i, 80) : rule.filters = <<<<"redirect", "https">>>> /\ rule.backends = <<>>

(* The redirect to HTTPS.                                                   *)
LEMMA UpgradeForm ==
  ASSUME NEW ms
  PROVE  UpgradeRule(ms).filters = <<<<"redirect", "https">>>> /\ UpgradeRule(ms).backends = <<>>
BY DEF UpgradeRule

(* Port 80, for one rule.                                                   *)
LEMMA PlainSide ==
  ASSUME IInv, PathsInv, ShapesInv, PlacesInv, RoutesReachListener, SitesInv, PrintedParts,
         NEW k, NEW r, Routed(k, r), Clear(r), NEW i \in DOMAIN r.rules, Speakers(r, i) # {}, OnlyRule(r, i)
  PROVE  IF r.host \in HostsWithTLS /\ Upgraded(r, i) THEN Upgrading(r, i)
         ELSE \E rule \in Answers(r, i, 80) : AsBefore(r, i, rule)
<1>1. k \in DOMAIN pir.http /\ r = pir.http[k]
  BY DEF Routed
<1>2. ShapedRules(r.rules) /\ IsList(r.sources)
  BY <1>1 DEF PrintedParts, RoutesGood
<1>3. DOMAIN r.rules = DOMAIN r.sources
  BY <1>1 DEF SitesInv, AfterCanary, PrintedParts, Sited
<1>4. r.rules # <<>>
  OBVIOUS
<1>5. PICK l \in ToSet(eir.gateways[GatewayOf(r)]) : l.port = 80 /\ l.mode = "Terminate" /\ Accepts(l, r.host)
  BY <1>1, <1>4, PlainListener
<1>6. MainSplits(r) => \E rule \in Answers(r, i, 80) : LikeRule(PlainOf(r, i), rule)
  BY <1>3, <1>5, PlainAnswers
<1>7. ~MainSplits(r) => \E rule \in Answers(r, i, 80) : LikeRule(r.rules[i], rule)
  <2>1. ~MainSplits(r) => \E rule \in Answers(r, i, l.port) : LikeRule(r.rules[i], rule)
    BY <1>5, MainAnswers
  <2> QED
    BY <1>5, <2>1
<1>8. MainSplits(r) <=> r.host \in HostsWithTLS /\ \E n \in DOMAIN r.rules : Upgraded(r, n)
  BY <1>2, <1>3, UpgradeSplits
<1>9. ASSUME r.host \in HostsWithTLS, Upgraded(r, i) PROVE Upgrading(r, i)
  <2>1. MainSplits(r)
    BY <1>8, <1>9
  <2>2. PlainOf(r, i) = UpgradeRule(r.rules[i].matches)
    BY <1>9 DEF PlainOf
  <2>3. ASSUME NEW rule \in Answers(r, i, 80)
        PROVE  rule.filters = <<<<"redirect", "https">>>> /\ rule.backends = <<>>
    <3>1. AnswersFor(r, i, 80, rule)
      BY AnswersAre DEF IsPort
    <3>2. LikeRule(UpgradeRule(r.rules[i].matches), rule) /\ rule.filters = UpgradeRule(r.rules[i].matches).filters
      BY <2>1, <2>2, <3>1 DEF AnswersFor
    <3> QED
      BY <3>2, UpgradeForm DEF LikeRule
  <2> QED
    BY <1>6, <2>1, <2>3 DEF Upgrading
<1>10. ASSUME ~(r.host \in HostsWithTLS /\ Upgraded(r, i))
       PROVE  \E rule \in Answers(r, i, 80) : AsBefore(r, i, rule)
  <2>1. MainSplits(r) => PlainOf(r, i) = r.rules[i]
    BY <1>8, <1>10 DEF PlainOf
  <2>2. \E rule \in Answers(r, i, 80) : LikeRule(r.rules[i], rule)
    BY <1>6, <1>7, <2>1
  <2> QED
    BY <2>2, LikeIsAsBefore
<1> QED
  BY <1>9, <1>10

(* Port 443, for one rule.                                                  *)
LEMMA SecureSide ==
  ASSUME SitesInv, PrintedParts, NEW k, NEW r, Routed(k, r), Clear(r),
         Listens(eir.gateways[GatewayOf(r)], r.host, 443), NEW i \in DOMAIN r.rules, OnlyRule(r, i)
  PROVE  Answers(r, i, 443) # {} /\ \A rule \in Answers(r, i, 443) : AsBefore(r, i, rule)
<1>1. PICK l \in ToSet(eir.gateways[GatewayOf(r)]) : l.host = r.host /\ l.port = 443 /\ l.mode = "Terminate"
  BY DEF Listens
<1>2. Accepts(l, r.host)
  BY <1>1 DEF Accepts
<1>3. \E rule \in Answers(r, i, l.port) : LikeRule(r.rules[i], rule)
  BY <1>1, <1>2, MainAnswers
<1>4. ASSUME NEW rule \in Answers(r, i, 443) PROVE AsBefore(r, i, rule)
  <2>1. AnswersFor(r, i, 443, rule)
    BY AnswersAre DEF IsPort
  <2> QED
    BY <2>1, LikeIsAsBefore DEF AnswersFor
<1> QED
  BY <1>1, <1>3, <1>4

(* The places of rules count from one.                                      *)
LEMMA RulePlaces ==
  ASSUME PrintedParts, NEW k \in DOMAIN pir.http
  PROVE  DOMAIN pir.http[k].rules = 1 .. Len(pir.http[k].rules)
BY ListShape DEF PrintedParts, RoutesGood, ShapedRules

(* On port 80 paths are redirected to HTTPS or answered as without TLS.    *)
LEMMA PlainSideStep ==
  ASSUME IInv, PathsInv, ShapesInv, PlacesInv, RoutesReachListener, NginxInv, SitesInv, EmitInv
  PROVE  PlainSideAnswers
<1>1. ASSUME Printed, NEW k \in DOMAIN pir.http, Clear(pir.http[k]), NEW i \in 1 .. Len(pir.http[k].rules),
             Speakers(pir.http[k], i) # {}, OnlyRule(pir.http[k], i)
      PROVE  IF pir.http[k].host \in HostsWithTLS /\ Upgraded(pir.http[k], i) THEN Upgrading(pir.http[k], i)
             ELSE \E rule \in Answers(pir.http[k], i, 80) : AsBefore(pir.http[k], i, rule)
  <2>1. PrintedParts
    BY <1>1, PrintedPasses
  <2>2. i \in DOMAIN pir.http[k].rules /\ Routed(k, pir.http[k])
    BY <2>1, RulePlaces DEF Routed
  <2> QED
    BY <1>1, <2>1, <2>2, PlainSide
<1> QED
  BY <1>1 DEF PlainSideAnswers, Upgrading

(* On port 443 as the ProviderIR says.                                     *)
LEMMA SecureSideStep ==
  ASSUME IInv, ShapesInv, NginxInv, SitesInv, EmitInv
  PROVE  SecureSideAnswers
<1>1. ASSUME Printed, NEW k \in DOMAIN pir.http, Clear(pir.http[k]),
             Listens(eir.gateways[GatewayOf(pir.http[k])], pir.http[k].host, 443),
             NEW i \in 1 .. Len(pir.http[k].rules), OnlyRule(pir.http[k], i)
      PROVE  /\ Answers(pir.http[k], i, 443) # {}
             /\ \A rule \in Answers(pir.http[k], i, 443) : AsBefore(pir.http[k], i, rule)
  <2>1. PrintedParts
    BY <1>1, PrintedPasses
  <2>2. i \in DOMAIN pir.http[k].rules /\ Routed(k, pir.http[k])
    BY <2>1, RulePlaces DEF Routed
  <2> QED
    BY <1>1, <2>1, <2>2, SecureSide
<1> QED
  BY <1>1 DEF SecureSideAnswers

-----------------------------------------------------------------------------
(* The redirects for slashes.                                              *)
SlashMatch(p) == <<[type |-> "Exact", path |-> p, header |-> <<>>]>>

Hops == {"slash", "https slash"}

(* A rule on the port redirects just this path to t.                       *)
Hopping(x, p, t) == x.matches = SlashMatch(p) /\ t \in Hops /\ \E f \in Redirects(x) : f[2] = t

(* A target is that of a redirect for just this path.                       *)
LEMMA TargetsAre ==
  ASSUME NEW r, NEW p, NEW port, NEW t
  PROVE  t \in SlashTargets(r, p, port) <=> \E x \in OnPort(r, port) : Hopping(x, p, t)
<1> DEFINE rules == {x \in OnPort(r, port) : x.matches = SlashMatch(p)}
           fs == UNION {Redirects(rule) : rule \in rules}
<1>1. SlashTargets(r, p, port) = {f[2] : f \in fs} \cap Hops
  BY DEF SlashTargets, SlashMatch, Hops
<1>2. \A f : f \in fs <=> \E x \in OnPort(r, port) : x.matches = SlashMatch(p) /\ f \in Redirects(x)
  OBVIOUS
<1> HIDE DEF rules, fs
<1>3. t \in {f[2] : f \in fs} <=> \E f \in fs : f[2] = t
  OBVIOUS
<1> QED
  BY <1>1, <1>2, <1>3 DEF Hopping

(* The match for just a path tells the path.                                *)
LEMMA MatchesOfPaths ==
  ASSUME NEW p, NEW q, SlashMatch(p) = SlashMatch(q)
  PROVE  p = q
<1>a. PICK a : a = [type |-> "Exact", path |-> p, header |-> <<>>]
  OBVIOUS
<1>b. PICK b : b = [type |-> "Exact", path |-> q, header |-> <<>>]
  OBVIOUS
<1>1. ToSet(SlashMatch(p)) = {a} /\ ToSet(SlashMatch(q)) = {b}
  BY <1>a, <1>b, OneOf DEF SlashMatch
<1>2. a = b
  BY <1>1
<1>3. a.path = p /\ b.path = q
  BY <1>a, <1>b
<1> QED
  BY <1>2, <1>3

(* The match for just a path is one.                                        *)
LEMMA MatchIsSome ==
  ASSUME NEW p
  PROVE  SlashMatch(p) # <<>>
<1>a. PICK a : a = [type |-> "Exact", path |-> p, header |-> <<>>]
  OBVIOUS
<1>1. ToSet(SlashMatch(p)) = {a}
  BY <1>a, OneOf DEF SlashMatch
<1>2. ToSet(<<>>) = {}
  BY DEF ToSet
<1> QED
  BY <1>1, <1>2

(* A redirect to "url", "root" or "https" adds no slash.                   *)
LEMMA SlashRuleHops ==
  ASSUME NEW p, NEW t
  PROVE  SlashRule(p, t).matches = SlashMatch(p) /\ \A f : f \in Redirects(SlashRule(p, t)) <=> f = <<"redirect", t>>
<1>a. PICK g : g = <<"redirect", t>>
  OBVIOUS
<1>b. PICK rule : rule = SlashRule(p, t)
  OBVIOUS
<1>1. rule.filters = <<g>> /\ rule.matches = SlashMatch(p)
  BY <1>a, <1>b DEF SlashRule, SlashMatch
<1>2. ToSet(rule.filters) = {g} /\ g[1] = "redirect"
  BY <1>1, <1>a, OneOf
<1> QED
  BY <1>1, <1>2, <1>a, <1>b DEF Redirects

(* A redirect to HTTPS has no other target.                                 *)
LEMMA UpgradeHops ==
  ASSUME NEW ms, NEW f \in Redirects(UpgradeRule(ms))
  PROVE  f[2] = "https"
<1>a. PICK g : g = <<"redirect", "https">>
  OBVIOUS
<1>b. PICK rule : rule = UpgradeRule(ms)
  OBVIOUS
<1>1. rule.filters = <<g>>
  BY <1>a, <1>b DEF UpgradeRule
<1>2. ToSet(rule.filters) = {g} /\ g[2] = "https"
  BY <1>1, <1>a, OneOf
<1> QED
  BY <1>2, <1>b DEF Redirects

(* A path with a slash has a rule, and its route comes from rules.         *)
LEMMA SlashedByRules ==
  ASSUME IInv, PathsInv, ShapesInv, PlacesInv, SitesInv, PrintedParts, NEW k \in DOMAIN pir.http,
         NEW m \in ToSet(LiteralMatches(pir.http[k].rules)), Slashed(m.path)
  PROVE  OfRules(ir.http[k]) /\ k \in DOMAIN ir.http /\ SameHead(ir.http[k], pir.http[k])
<1>a. PICK a : a = ir.http[k]
  OBVIOUS
<1>b. PICK q : q = pir.http[k]
  OBVIOUS
<1>1. pc = "done" /\ errors = {} /\ k \in DOMAIN ir.http /\ Sited(a, q)
  BY <1>a, <1>b DEF SitesInv, AfterCanary, PrintedParts
<1>2. OfRules(a) \/ AtDefault(a)
  BY <1>1, <1>a, StoredFull
<1>3. ShapedRules(q.rules)
  BY <1>b DEF PrintedParts, RoutesGood
<1>4. PICK rule \in ToSet(q.rules) : m \in ToSet(rule.matches)
  BY <1>3, <1>b, LiteralsAre
<1>5. PICK i \in DOMAIN q.rules : rule = q.rules[i]
  BY InToSet
<1>6. ~OnlyRoots(rule)
  BY <1>4 DEF OnlyRoots, Slashed
<1>7. ~AtDefault(a)
  BY <1>1, <1>5, <1>6 DEF Sited
<1> QED
  BY <1>1, <1>2, <1>7, <1>a, <1>b DEF Sited

(* The route of a rule for a slash, where other routes have none for it.   *)
LEMMA SlashesOfOne ==
  ASSUME IInv, PathsInv, ShapesInv, PlacesInv, SitesInv, PrintedParts,
         NEW k \in DOMAIN pir.http, NEW m \in ToSet(LiteralMatches(pir.http[k].rules)), Slashed(m.path),
         NEW o \in DOMAIN pir.http, SameSite(pir.http[k], pir.http[o]), NEW p \in ToSet(SlashSources(pir.http[o].rules))
  PROVE  o = k
<1>1. OfRules(ir.http[k]) /\ k \in DOMAIN ir.http /\ SameHead(ir.http[k], pir.http[k])
  BY SlashedByRules
<1>2. ShapedRules(pir.http[o].rules)
  BY DEF PrintedParts, RoutesGood
<1>3. \E n \in ToSet(LiteralMatches(pir.http[o].rules)) : Slashed(n.path)
  BY <1>2, SourcesAre
<1>4. OfRules(ir.http[o]) /\ o \in DOMAIN ir.http /\ SameHead(ir.http[o], pir.http[o])
  BY <1>3, SlashedByRules
<1>5. Site(ir.http[k]) = Site(ir.http[o])
  BY <1>1, <1>4 DEF SameHead, SameSite, Site
<1>6. pc = "done" /\ errors = {}
  BY DEF PrintedParts
<1> QED
  BY <1>1, <1>4, <1>5, <1>6, StoredApart

(* The emitters keep the redirects for slashes.                             *)
LEMMA LikeHops ==
  ASSUME NEW a, NEW b, LikeRule(a, b), NEW p, NEW t
  PROVE  Hopping(a, p, t) <=> Hopping(b, p, t)
BY DEF LikeRule, Hopping

(* The features make none.                                                  *)
LEMMA SitedHopsNot ==
  ASSUME NEW host, NEW rule, SitedRule(host, rule), NEW p, NEW t
  PROVE  ~Hopping(rule, p, t)
BY DEF SitedRule, Hopping, Redirects, Hops

(* Neither does the upgrade to HTTPS.                                       *)
LEMMA UpgradeHopsNot ==
  ASSUME NEW ms, NEW p, NEW t
  PROVE  ~Hopping(UpgradeRule(ms), p, t)
BY UpgradeHops DEF Hopping, Hops

(* They are the rules for slashes, each for its own path.                   *)
LEMMA SlashHops ==
  ASSUME NEW rules, ShapedRules(rules), NEW target, NEW rule \in ToSet(SlashRules(rules, target)),
         NEW p, NEW t, Hopping(rule, p, t)
  PROVE  p \in ToSet(SlashSources(rules)) /\ t = target
<1>1. PICK q \in ToSet(SlashSources(rules)) : rule = SlashRule(q, target)
  BY SlashRulesAre
<1>2. rule.matches = SlashMatch(q) /\ \A f \in Redirects(rule) : f[2] = target
  <2>a. PICK g : g = <<"redirect", target>>
    OBVIOUS
  <2>1. g[2] = target
    BY <2>a
  <2>2. rule.matches = SlashMatch(q) /\ \A f \in Redirects(rule) : f = g
    BY <1>1, <2>a, SlashRuleHops
  <2> QED
    BY <2>1, <2>2
<1>3. q = p
  BY <1>2, MatchesOfPaths DEF Hopping
<1> QED
  BY <1>2, <1>3 DEF Hopping

HopOf(r, port) == IF MainSplits(r) /\ port = 80 THEN "https slash" ELSE "slash"

(* Who answers for a path with a redirect for its slash.                   *)
LEMMA HopsOrigin ==
  ASSUME SitesInv, PrintedParts, NEW k, NEW r, Routed(k, r), Clear(r), NEW port, IsPort(port),
         NEW rule \in OnPort(r, port), NEW p, NEW t, Hopping(rule, p, t)
  PROVE  \E o \in DOMAIN pir.http :
           SameSite(r, pir.http[o]) /\ p \in ToSet(SlashSources(pir.http[o].rules)) /\ t = HopOf(pir.http[o], port)
<1>0. k \in DOMAIN pir.http /\ r = pir.http[k]
  BY DEF Routed
<1>1. RoutesGood
  BY DEF PrintedParts
<1>4. PICK x : Attached(x, r, port) /\ rule \in ToSet(eir.http[x].rules)
  BY PortRules
<1>a. PICK e : e = eir.http[x]
  OBVIOUS
<1>5. PICK o \in DOMAIN pir.http : Answering(r, port, pir.http[o], e)
  BY <1>0, <1>4, <1>a, WhoAnswers DEF IsPort
<1>b. PICK q : q = pir.http[o]
  OBVIOUS
<1>6. ShapedRules(q.rules) /\ IsList(q.sources) /\ Answering(r, port, q, e) /\ rule \in ToSet(e.rules)
  BY <1>1, <1>4, <1>5, <1>a, <1>b DEF RoutesGood
<1>7. DOMAIN q.rules = DOMAIN q.sources /\ \A n \in DOMAIN q.rules : SitedRule(q.host, q.rules[n])
  BY <1>b DEF SitesInv, AfterCanary, PrintedParts, Sited
<1>8. q.host = r.host => SameSite(r, q)
  BY <1>6 DEF SameSite, Answering
<1>10. CASE Like(MainForm(q), e) /\ q.host = r.host /\ (MainSplits(q) => port = 443)
  <2>1. PICK a \in ToSet(MainForm(q).rules) : LikeRule(a, rule)
    BY <1>6, <1>10, LikeRules
  <2>2. Hopping(a, p, t)
    BY <2>1, LikeHops
  <2>3. (\E n \in DOMAIN q.rules : a = q.rules[n]) \/ a \in ToSet(SlashRules(q.rules, "slash"))
    BY <1>6, <2>1, MainOrigins
  <2>4. a \in ToSet(SlashRules(q.rules, "slash"))
    BY <1>7, <2>2, <2>3, SitedHopsNot
  <2>5. p \in ToSet(SlashSources(q.rules)) /\ t = "slash"
    BY <1>6, <2>2, <2>4, SlashHops
  <2>6. HopOf(q, port) = "slash"
    BY <1>10 DEF HopOf
  <2> QED
    BY <1>8, <1>10, <1>b, <2>5, <2>6
<1>11. CASE Like(PlainForm(q), e) /\ q.host = r.host /\ MainSplits(q) /\ port = 80
  <2>1. PICK a \in ToSet(PlainForm(q).rules) : LikeRule(a, rule)
    BY <1>6, <1>11, LikeRules
  <2>2. Hopping(a, p, t)
    BY <2>1, LikeHops
  <2>3. \/ \E n \in DOMAIN q.rules : Speakers(q, n) # {} /\ a = PlainOf(q, n)
        \/ a \in ToSet(SlashRules(q.rules, "https slash"))
    BY <1>6, <1>7, <2>1, PlainOrigins
  <2>4. \A n \in DOMAIN q.rules : ~Hopping(PlainOf(q, n), p, t)
    <3>1. ASSUME NEW n \in DOMAIN q.rules PROVE ~Hopping(PlainOf(q, n), p, t)
      <4>1. CASE Upgraded(q, n)
        <5>1. PlainOf(q, n) = UpgradeRule(q.rules[n].matches)
          BY <4>1 DEF PlainOf
        <5> QED
          BY <5>1, UpgradeHopsNot
      <4>2. CASE ~Upgraded(q, n)
        <5>1. PlainOf(q, n) = q.rules[n]
          BY <4>2 DEF PlainOf
        <5> QED
          BY <1>7, <5>1, SitedHopsNot
      <4> QED
        BY <4>1, <4>2
    <3> QED
      BY <3>1
  <2>5. a \in ToSet(SlashRules(q.rules, "https slash"))
    BY <2>2, <2>3, <2>4
  <2>6. p \in ToSet(SlashSources(q.rules)) /\ t = "https slash"
    BY <1>6, <2>2, <2>5, SlashHops
  <2>7. HopOf(q, port) = "https slash"
    BY <1>11 DEF HopOf
  <2> QED
    BY <1>8, <1>11, <1>b, <2>6, <2>7
<1>12. CASE Like(WWWRoute(q), e) /\ OtherName(q.host) = r.host
  <2>1. NoMatch(rule)
    BY <1>0, <1>6, <1>12, <1>b, WWWAnswersNoRule
  <2>2. FALSE
    BY <2>1, MatchIsSome DEF NoMatch, Hopping
  <2> QED
    BY <2>2
<1> QED
  BY <1>6, <1>10, <1>11, <1>12 DEF Answering

(* And each of these is one.                                                *)
LEMMA SlashRuleHopping ==
  ASSUME NEW p, NEW t \in Hops
  PROVE  Hopping(SlashRule(p, t), p, t)
<1>a. PICK g : g = <<"redirect", t>>
  OBVIOUS
<1>1. g \in Redirects(SlashRule(p, t)) /\ g[2] = t
  BY <1>a, SlashRuleHops
<1>2. SlashRule(p, t).matches = SlashMatch(p)
  BY SlashRuleHops
<1> QED
  BY <1>1, <1>2 DEF Hopping

(* A path to redirect is redirected wherever the host has a listener.      *)
LEMMA SlashAnswers ==
  ASSUME PrintedParts, NEW k, NEW r, Routed(k, r), Clear(r), DOMAIN r.rules = DOMAIN r.sources,
         NEW port, IsPort(port), Listens(eir.gateways[GatewayOf(r)], r.host, port),
         NEW p \in ToSet(SlashSources(r.rules))
  PROVE  \E rule \in OnPort(r, port) : Hopping(rule, p, HopOf(r, port))
<1>1. PICK l \in ToSet(eir.gateways[GatewayOf(r)]) : l.host = r.host /\ l.port = port /\ l.mode = "Terminate"
  BY DEF Listens
<1>2. Accepts(l, r.host)
  BY <1>1 DEF Accepts
<1>3. ShapedRules(r.rules) /\ IsList(r.sources)
  BY DEF PrintedParts, RoutesGood, Routed
<1>4. /\ ~MainSplits(r) \/ (l.port = 443 /\ l.host = r.host) =>
           Attached(k, r, l.port) /\ Like(MainForm(r), eir.http[k])
      /\ MainSplits(r) /\ l.port = 80 =>
           Attached(PlainKey(r), r, 80) /\ Like(PlainForm(r), eir.http[PlainKey(r)])
  BY <1>1, <1>2, FormsAttached
<1>5. ASSUME NEW x, NEW form, Attached(x, r, port), Like(form, eir.http[x]),
             SlashRule(p, HopOf(r, port)) \in ToSet(form.rules)
      PROVE  \E rule \in OnPort(r, port) : Hopping(rule, p, HopOf(r, port))
  <2>1. HopOf(r, port) \in Hops
    BY DEF HopOf, Hops
  <2>2. PICK rule \in ToSet(eir.http[x].rules) : LikeRule(SlashRule(p, HopOf(r, port)), rule)
    BY <1>5, LikeRules
  <2>3. Hopping(rule, p, HopOf(r, port))
    BY <2>1, <2>2, SlashRuleHopping, LikeHops
  <2>4. rule \in OnPort(r, port)
    BY <1>5, PortRules
  <2> QED
    BY <2>3, <2>4
<1>6. CASE MainSplits(r) /\ port = 80
  <2>1. HopOf(r, port) = "https slash"
    BY <1>6 DEF HopOf
  <2>2. SlashRule(p, "https slash") \in ToSet(SlashRules(r.rules, "https slash"))
    BY <1>3, SlashRulesAre
  <2>3. SlashRule(p, HopOf(r, port)) \in ToSet(PlainForm(r).rules)
    BY <1>3, <2>1, <2>2, PlainOrigins
  <2> QED
    BY <1>1, <1>4, <1>5, <1>6, <2>3
<1>7. CASE ~(MainSplits(r) /\ port = 80)
  <2>1. HopOf(r, port) = "slash"
    BY <1>7 DEF HopOf
  <2>2. SlashRule(p, "slash") \in ToSet(SlashRules(r.rules, "slash"))
    BY <1>3, SlashRulesAre
  <2>3. SlashRule(p, HopOf(r, port)) \in ToSet(MainForm(r).rules)
    BY <1>3, <2>1, <2>2, MainOrigins
  <2>4. ~MainSplits(r) \/ l.port = 443
    BY <1>1, <1>7 DEF IsPort
  <2> QED
    BY <1>1, <1>4, <1>5, <2>3, <2>4
<1> QED
  BY <1>6, <1>7

(* The redirects for the slash of a path are those that it should have.    *)
LEMMA SlashesSide ==
  ASSUME IInv, PathsInv, ShapesInv, PlacesInv, SitesInv, PrintedParts, NEW k, NEW r, Routed(k, r), Clear(r),
         NEW m \in ToSet(LiteralMatches(r.rules)), Slashed(m.path), NEW p, p = Front(m.path),
         NEW port, IsPort(port), Listens(eir.gateways[GatewayOf(r)], r.host, port)
  PROVE  SlashTargets(r, p, port) = IF IsServed(LiteralMatches(r.rules), p) THEN {} ELSE {HopOf(r, port)}
<1>0. k \in DOMAIN pir.http /\ r = pir.http[k]
  BY DEF Routed
<1>1. ShapedRules(r.rules)
  BY <1>0 DEF PrintedParts, RoutesGood
<1>2. DOMAIN r.rules = DOMAIN r.sources
  BY <1>0 DEF SitesInv, AfterCanary, PrintedParts, Sited
<1>3. ASSUME NEW t \in SlashTargets(r, p, port)
      PROVE  p \in ToSet(SlashSources(r.rules)) /\ t = HopOf(r, port)
  <2>1. PICK rule \in OnPort(r, port) : Hopping(rule, p, t)
    BY <1>3, TargetsAre
  <2>2. PICK o \in DOMAIN pir.http :
          SameSite(r, pir.http[o]) /\ p \in ToSet(SlashSources(pir.http[o].rules)) /\ t = HopOf(pir.http[o], port)
    BY <2>1, HopsOrigin
  <2>3. o = k
    BY <1>0, <2>2, SlashesOfOne
  <2> QED
    BY <1>0, <2>2, <2>3
<1>4. p \in ToSet(SlashSources(r.rules)) <=> ~IsServed(LiteralMatches(r.rules), p)
  BY <1>1, SourcesAre
<1>5. p \in ToSet(SlashSources(r.rules)) => HopOf(r, port) \in SlashTargets(r, p, port)
  BY <1>2, SlashAnswers, TargetsAre
<1> QED
  BY <1>3, <1>4, <1>5

ServedPath(r, path) ==
  \E m \in ToSet(LiteralMatches(r.rules)) : m.path = path \/ (m.type \in PrefixTypes /\ Covers(m.path, path))

UpgradingHost(r) == r.host \in HostsWithTLS /\ \E i \in 1..Len(r.rules) : Upgraded(r, i)

SlashWanted(r, path, port) ==
  IF ServedPath(r, path) THEN {} ELSE IF UpgradingHost(r) /\ port = 80 THEN {"https slash"} ELSE {"slash"}

(* The same, in the words of the property.                                  *)
LEMMA SlashesWanted ==
  ASSUME IInv, PathsInv, ShapesInv, PlacesInv, SitesInv, PrintedParts, NEW k, NEW r, Routed(k, r), Clear(r),
         NEW m \in ToSet(LiteralMatches(r.rules)), Slashed(m.path),
         NEW port, IsPort(port), Listens(eir.gateways[GatewayOf(r)], r.host, port)
  PROVE  SlashTargets(r, Front(m.path), port) = SlashWanted(r, Front(m.path), port)
<1>a. PICK p : p = Front(m.path)
  OBVIOUS
<1>0. k \in DOMAIN pir.http /\ r = pir.http[k]
  BY DEF Routed
<1>1. SlashTargets(r, p, port) = IF IsServed(LiteralMatches(r.rules), p) THEN {} ELSE {HopOf(r, port)}
  BY <1>a, SlashesSide
<1>2. ServedPath(r, p) <=> IsServed(LiteralMatches(r.rules), p)
  BY DEF IsServed, ServedPath
<1>3. UpgradingHost(r) <=> MainSplits(r)
  <2>1. ShapedRules(r.rules) /\ IsList(r.sources)
    BY <1>0 DEF PrintedParts, RoutesGood
  <2>2. DOMAIN r.rules = DOMAIN r.sources
    BY <1>0 DEF SitesInv, AfterCanary, PrintedParts, Sited
  <2>3. DOMAIN r.rules = 1 .. Len(r.rules)
    BY <1>0, RulePlaces
  <2>4. MainSplits(r) <=> r.host \in HostsWithTLS /\ \E i \in DOMAIN r.rules : Upgraded(r, i)
    BY <2>1, <2>2, UpgradeSplits
  <2> QED
    BY <2>3, <2>4 DEF UpgradingHost
<1> QED
  BY <1>1, <1>2, <1>3, <1>a DEF HopOf, SlashWanted

(* nginx redirects a path without its slash where only that is served.     *)
LEMMA SlashesStep ==
  ASSUME IInv, PathsInv, ShapesInv, PlacesInv, NginxInv, SitesInv, EmitInv
  PROVE  SlashesRedirected
<1>1. ASSUME Printed, NEW k \in DOMAIN pir.http, Clear(pir.http[k]),
             NEW m \in ToSet(LiteralMatches(pir.http[k].rules)), Slashed(m.path),
             NEW port \in {80, 443}, Listens(eir.gateways[GatewayOf(pir.http[k])], pir.http[k].host, port)
      PROVE  SlashTargets(pir.http[k], Front(m.path), port) = SlashWanted(pir.http[k], Front(m.path), port)
  <2>1. PrintedParts
    BY <1>1, PrintedPasses
  <2>2. Routed(k, pir.http[k]) /\ IsPort(port)
    BY DEF Routed, IsPort
  <2> QED
    BY <1>1, <2>1, <2>2, SlashesWanted
<1> QED
  BY <1>1 DEF SlashesRedirected, SlashWanted, ServedPath, UpgradingHost

-----------------------------------------------------------------------------
(* The theorems: for every input, emitter, and order of the passes.        *)

(* From-to-www-redirect: once every pass is done, the other name of a      *)
(* host that asks for it has listeners of its own and a redirect on them   *)
(* (addWWWRedirect, redirect.go).                                          *)
THEOREM WWWIsAnswered == EmittersSpec => []WWWAnswers
<1>1. IInv /\ ShapesInv /\ NginxInv /\ SitesInv /\ EmitInv => WWWAnswers
  BY WWWStep
<1> QED
  BY <1>1, EmittersConvert, Invariant, ShapesInvariant, NginxInvariant, SitesInvariant, EmitInvariant, PTL

(* On port 443 every path of a host with a listener there is answered as   *)
(* the ProviderIR says, by the route that addSSLAndTrailingSlashRedirects  *)
(* moved to the HTTPS listener or left on all.                             *)
THEOREM SecureSideIsAnswered == EmittersSpec => []SecureSideAnswers
<1>1. IInv /\ ShapesInv /\ NginxInv /\ SitesInv /\ EmitInv => SecureSideAnswers
  BY SecureSideStep
<1> QED
  BY <1>1, EmittersConvert, Invariant, ShapesInvariant, NginxInvariant, SitesInvariant, EmitInvariant, PTL

(* On port 80 a path of a host with TLS is redirected to HTTPS and served  *)
(* in no other way, or answered as before where ssl-redirect is off.       *)
THEOREM PlainSideIsAnswered == EmittersSpec => []PlainSideAnswers
<1>1. IInv /\ PathsInv /\ ShapesInv /\ PlacesInv /\ RoutesReachListener /\ NginxInv /\ SitesInv /\ EmitInv
        => PlainSideAnswers
  BY PlainSideStep
<1> QED
  BY <1>1, EmittersConvert, Invariant, PathsInvariant, ShapesInvariant, PlacesInvariant, RoutesArrive,
     NginxInvariant, SitesInvariant, EmitInvariant, PTL

(* The redirects that add a slash are those that nginx would make, on both *)
(* ports, and none is in the way of a rule                                 *)
(* (buildTrailingSlashRedirectRules, redirect.go).                         *)
THEOREM SlashesAreRedirected == EmittersSpec => []SlashesRedirected
<1>1. IInv /\ PathsInv /\ ShapesInv /\ PlacesInv /\ NginxInv /\ SitesInv /\ EmitInv => SlashesRedirected
  BY SlashesStep
<1> QED
  BY <1>1, EmittersConvert, Invariant, PathsInvariant, ShapesInvariant, PlacesInvariant, NginxInvariant,
     SitesInvariant, EmitInvariant, PTL

-----------------------------------------------------------------------------
(* The filters of the features: a rule has the headers its Ingress asks    *)
(* for once the pass for them is over, but for routes with a tunnel.       *)
SetsHeaders(rule) == \E f \in ToSet(rule.filters) : f[1] = "headers"

HeadedRule(rule) == \A f \in ToSet(rule.filters) : f[1] \in {"redirect", "headers"}

Headed(r, tls, set) ==
  /\ \A i \in DOMAIN r.rules : HeadedRule(r.rules[i])
  /\ Key(TLSRoute(r)) \notin DOMAIN tls =>
       \A i \in DOMAIN r.rules : SetsHeaders(r.rules[i]) <=> set /\ AsksHeaders(r, i)

HeadersSet(st) == st \notin {"redirect", "headers"}

HeadedInv ==
  stage \in AfterCanary => \A k \in DOMAIN pir.http : Headed(pir.http[k], pir.tls, HeadersSet(stage))

-----------------------------------------------------------------------------
(* The policies on their way.                                              *)
Indexed(e) == \A p \in e.policies : p = <<p[1], p[2], p[3]>> /\ p[2] \in 1..Len(e.rules)

Owned(http) == \A x \in DOMAIN http : Key(http[x]) = x /\ Indexed(http[x])

Collected(http) == \A k \in DOMAIN pir.http : Free(k) => http[k] = Applied(MainForm(pir.http[k]))

-----------------------------------------------------------------------------
(* A filter more, of another kind.                                         *)
LEMMA FilterMore ==
  ASSUME NEW rule, IsList(rule.filters), NEW f, NEW new, new.filters = Append(rule.filters, f)
  PROVE  ToSet(new.filters) = ToSet(rule.filters) \cup {f}
BY ListAppended

(* A redirect says nothing of headers.                                     *)
LEMMA RedirectHeads ==
  ASSUME NEW rule, DOMAIN rule = RuleParts, IsList(rule.filters), HeadedRule(rule),
         NEW target, NEW new, new = Redirecting(rule, <<"redirect", target>>)
  PROVE  HeadedRule(new) /\ (SetsHeaders(new) <=> SetsHeaders(rule))
<1> PICK f : f = <<"redirect", target>>
  OBVIOUS
<1>1. new.filters = Append(rule.filters, f) /\ f[1] = "redirect"
  BY DEF Redirecting, RuleParts
<1>2. ToSet(new.filters) = ToSet(rule.filters) \cup {f}
  BY <1>1, FilterMore
<1> QED
  BY <1>1, <1>2 DEF HeadedRule, SetsHeaders

(* Headers are set.                                                        *)
LEMMA HeadersHead ==
  ASSUME NEW rule, DOMAIN rule = RuleParts, IsList(rule.filters), HeadedRule(rule),
         NEW new, new = SettingHeaders(rule)
  PROVE  HeadedRule(new) /\ SetsHeaders(new)
<1> PICK f : f = <<"headers", "set">>
  OBVIOUS
<1>1. new.filters = Append(rule.filters, f) /\ f[1] = "headers"
  BY DEF SettingHeaders, RuleParts
<1>2. ToSet(new.filters) = ToSet(rule.filters) \cup {f}
  BY <1>1, FilterMore
<1> QED
  BY <1>1, <1>2 DEF HeadedRule, SetsHeaders

(* Rule by rule.                                                           *)
LEMMA HeadedOn ==
  ASSUME NEW r, NEW q, SameHead(r, q), q.sources = r.sources, DOMAIN q.rules = DOMAIN r.rules,
         NEW tls, NEW set, NEW after, Headed(r, tls, set),
         \A i \in DOMAIN r.rules :
           HeadedRule(q.rules[i]) /\ (Key(TLSRoute(r)) \notin DOMAIN tls =>
                                        (SetsHeaders(q.rules[i]) <=> after /\ AsksHeaders(r, i)))
  PROVE  Headed(q, tls, after)
<1>1. Key(TLSRoute(q)) = Key(TLSRoute(r))
  BY DEF TLSRoute, Key, SameHead
<1>2. \A i : AsksHeaders(q, i) <=> AsksHeaders(r, i)
  BY DEF AsksHeaders, Speaks
<1> QED
  BY <1>1, <1>2 DEF Headed

(* The features that change rule by rule.                                  *)
LEMMA FeaturesHead ==
  ASSUME NEW r, GoodRoute(r), NEW tls
  PROVE  /\ Headed(r, tls, FALSE) => Headed(RedirectRoute(r), tls, FALSE) /\ Headed(HeaderModifierRoute(r), tls, TRUE)
         /\ Headed(r, tls, TRUE) => Headed(RegexRoute(r), tls, TRUE)
<1>1. DOMAIN r.rules = 1..Len(r.rules) /\ DOMAIN r = RouteParts
  BY ListShape DEF GoodRoute
<1>2. \A i \in DOMAIN r.rules : DOMAIN r.rules[i] = RuleParts /\ IsList(r.rules[i].filters)
  BY DEF GoodRoute, GoodRule
<1>3. ASSUME Headed(r, tls, FALSE) PROVE Headed(RedirectRoute(r), tls, FALSE)
  <2> DEFINE New(i) == Redirecting(r.rules[i], <<"redirect", "url">>)
             f == [i \in 1..Len(r.rules) |-> IF AsksRedirect(r, i) THEN New(i) ELSE r.rules[i]]
             q == [r EXCEPT !.rules = f]
  <2>1. RedirectRoute(r) = q
    BY <1>1 DEF RedirectRoute, RouteParts
  <2>2. f = [i \in 1..Len(r.rules) |-> f[i]]
        /\ \A i \in DOMAIN r.rules : f[i] = New(i) \/ f[i] = r.rules[i]
    BY <1>1
  <2> HIDE DEF f
  <2>3. SameHead(r, q) /\ q.sources = r.sources /\ q.rules = f /\ DOMAIN f = DOMAIN r.rules
    BY <2>2, HeadKept
  <2>4. \A i \in DOMAIN r.rules : HeadedRule(r.rules[i])
    BY <1>3 DEF Headed
  <2>5. \A i \in DOMAIN r.rules : HeadedRule(New(i)) /\ (SetsHeaders(New(i)) <=> SetsHeaders(r.rules[i]))
    BY <1>2, <2>4, RedirectHeads
  <2>6. \A i \in DOMAIN r.rules : HeadedRule(f[i]) /\ (SetsHeaders(f[i]) <=> SetsHeaders(r.rules[i]))
    BY <2>2, <2>4, <2>5
  <2>7. Key(TLSRoute(r)) \notin DOMAIN tls => \A i \in DOMAIN r.rules : ~SetsHeaders(r.rules[i])
    BY <1>3 DEF Headed
  <2> HIDE DEF q, New
  <2>8. Headed(q, tls, FALSE)
    BY <1>3, <2>3, <2>6, <2>7, HeadedOn
  <2> QED
    BY <2>1, <2>8
<1>4. ASSUME Headed(r, tls, FALSE) PROVE Headed(HeaderModifierRoute(r), tls, TRUE)
  <2> DEFINE New(i) == SettingHeaders(r.rules[i])
             f == [i \in 1..Len(r.rules) |-> IF AsksHeaders(r, i) THEN New(i) ELSE r.rules[i]]
             q == [r EXCEPT !.rules = f]
  <2>1. HeaderModifierRoute(r) = q
    BY <1>1 DEF HeaderModifierRoute, RouteParts
  <2>2. f = [i \in 1..Len(r.rules) |-> f[i]]
        /\ \A i \in DOMAIN r.rules : f[i] = IF AsksHeaders(r, i) THEN New(i) ELSE r.rules[i]
    BY <1>1
  <2> HIDE DEF f
  <2>3. SameHead(r, q) /\ q.sources = r.sources /\ q.rules = f /\ DOMAIN f = DOMAIN r.rules
    BY <2>2, HeadKept
  <2>4. \A i \in DOMAIN r.rules : HeadedRule(r.rules[i])
    BY <1>4 DEF Headed
  <2>5. \A i \in DOMAIN r.rules : HeadedRule(New(i)) /\ SetsHeaders(New(i))
    BY <1>2, <2>4, HeadersHead
  <2>6. Key(TLSRoute(r)) \notin DOMAIN tls => \A i \in DOMAIN r.rules : ~SetsHeaders(r.rules[i])
    BY <1>4 DEF Headed
  <2>7. \A i \in DOMAIN r.rules :
          HeadedRule(f[i]) /\ (Key(TLSRoute(r)) \notin DOMAIN tls => (SetsHeaders(f[i]) <=> TRUE /\ AsksHeaders(r, i)))
    BY <2>2, <2>4, <2>5, <2>6
  <2> HIDE DEF q, New
  <2>8. Headed(q, tls, TRUE)
    BY <1>4, <2>3, <2>7, HeadedOn
  <2> QED
    BY <2>1, <2>8
<1>5. ASSUME Headed(r, tls, TRUE) PROVE Headed(RegexRoute(r), tls, TRUE)
  <2> DEFINE f == [i \in 1..Len(r.rules) |-> RegexRule(r.rules[i])]
             q == [r EXCEPT !.rules = f]
  <2>1. RegexRoute(r) = r \/ RegexRoute(r) = q
    BY <1>1 DEF RegexRoute, RouteParts
  <2>2. f = [i \in 1..Len(r.rules) |-> f[i]] /\ \A i \in DOMAIN r.rules : f[i] = RegexRule(r.rules[i])
    BY <1>1
  <2> HIDE DEF f
  <2>3. SameHead(r, q) /\ q.sources = r.sources /\ q.rules = f /\ DOMAIN f = DOMAIN r.rules
    BY <2>2, HeadKept
  <2>4. \A i \in DOMAIN r.rules : f[i].filters = r.rules[i].filters
    BY <1>2, <2>2 DEF RegexRule, RuleParts
  <2>5. \A i \in DOMAIN r.rules : (HeadedRule(f[i]) <=> HeadedRule(r.rules[i]))
                                  /\ (SetsHeaders(f[i]) <=> SetsHeaders(r.rules[i]))
    BY <2>4 DEF HeadedRule, SetsHeaders
  <2>6. \A i \in DOMAIN r.rules :
          HeadedRule(f[i]) /\ (Key(TLSRoute(r)) \notin DOMAIN tls => (SetsHeaders(f[i]) <=> TRUE /\ AsksHeaders(r, i)))
    BY <1>5, <2>5 DEF Headed
  <2> HIDE DEF q
  <2>7. Headed(q, tls, TRUE)
    BY <1>5, <2>3, <2>6, HeadedOn
  <2> QED
    BY <1>5, <2>1, <2>7
<1> QED
  BY <1>3, <1>4, <1>5

(* Nothing has filters before the features.                                *)
LEMMA CanaryHeads ==
  ASSUME NEW a, Full(a), GoodRoute(a), RouteFits(a), NEW q, q = a \/ q = CanaryRoute(a), NEW tls
  PROVE  Headed(q, tls, FALSE)
<1>1. \A i \in DOMAIN a.rules : a.rules[i].filters = <<>>
  BY DEF Full
<1>2. \A i \in DOMAIN q.rules : q.rules[i].filters = <<>>
  <2>1. CASE q = a
    BY <1>1, <2>1
  <2>2. CASE q = CanaryRoute(a)
    <3>1. Grown(a, q.rules)
      BY <2>2, CanaryRules
    <3>2. ASSUME NEW n \in DOMAIN q.rules PROVE q.rules[n].filters = <<>>
      <4>1. CASE n \in DOMAIN a.rules
        <5>1. q.rules[n] = CanaryRule(a.rules[n], a.sources[n]) /\ DOMAIN a.rules[n] = RuleParts
          BY <3>1, <4>1 DEF Grown, GoodRoute, GoodRule
        <5>2. q.rules[n].filters = a.rules[n].filters
          BY <5>1 DEF CanaryRule, Weighted, RuleParts
        <5> QED
          BY <1>1, <4>1, <5>2
      <4>2. CASE n \notin DOMAIN a.rules
        <5>1. PICK i \in DOMAIN a.rules : q.rules[n] \in ToSet(HeaderRules(a.rules[i], a.sources[i]))
          BY <3>1, <3>2, <4>2 DEF Grown
        <5>2. PICK value, b : q.rules[n] = HeaderRule(a.rules[i], value, b)
          BY <5>1, HeaderRulesAre
        <5> QED
          BY <5>2 DEF HeaderRule
      <4> QED
        BY <4>1, <4>2
    <3> QED
      BY <3>2
  <2> QED
    BY <2>1, <2>2
<1> QED
  BY <1>2, EmptyList DEF Headed, HeadedRule, SetsHeaders

(* A route after stripPassthroughRules has a tunnel.                       *)
LEMMA StripHeads ==
  ASSUME NEW r, GoodRoute(r), NEW tls, NEW set, Headed(r, tls, set), NEW q, q = Strip(r),
         NEW after, Key(TLSRoute(r)) \in DOMAIN after
  PROVE  Headed(q, after, set)
<1> DEFINE stays(i) == {j \in DOMAIN r.rules[i].backends : HasSource(r, i, j) => ~IsPassthrough(r.sources[i][j])}
           kept(i) == Keep(Positions(r.rules[i].backends), stays(i))
           full == {i \in DOMAIN r.rules : kept(i) # <<>>}
           rest == Keep(Positions(r.rules), full)
           sourced(i) == Keep(kept(i), {j \in stays(i) : HasSource(r, i, j)})
           rules == [n \in DOMAIN rest |-> WithBackends(r.rules[rest[n]], kept(rest[n]))]
           sources == [n \in DOMAIN rest |->
                         [m \in DOMAIN sourced(rest[n]) |-> r.sources[rest[n]][sourced(rest[n])[m]]]]
           new == [r EXCEPT !.rules = rules, !.sources = sources]
<1>1. DOMAIN r = RouteParts /\ IsList(r.rules)
  BY Zenon DEF GoodRoute
<1>2. q = new
  BY ZenonT(30) DEF Strip
<1>3. /\ DOMAIN rules = DOMAIN rest
      /\ \A n \in DOMAIN rest : rules[n] = WithBackends(r.rules[rest[n]], kept(rest[n]))
  BY Zenon
<1>4. full \subseteq DOMAIN r.rules
  BY Zenon
<1>5. SameHead(r, new) /\ new.rules = rules
  BY <1>1, Zenon DEF RouteParts, SameHead
<1> HIDE DEF full, kept, sourced, stays, rules, sources, new
<1>6. IsList(rest) /\ ToSet(rest) = full
  BY <1>1, <1>4, PositionsKept
<1> HIDE DEF rest
<1>7. ASSUME NEW n \in DOMAIN rules PROVE HeadedRule(rules[n])
  <2>1. rest[n] \in DOMAIN r.rules
    BY <1>3, <1>4, <1>6, InToSet
  <2>2. DOMAIN r.rules[rest[n]] = RuleParts
    BY <2>1 DEF GoodRoute, GoodRule
  <2>3. rules[n].filters = r.rules[rest[n]].filters
    BY <1>3, <2>2 DEF WithBackends, RuleParts
  <2> QED
    BY <2>1, <2>3 DEF Headed, HeadedRule
<1>8. Key(TLSRoute(q)) = Key(TLSRoute(r))
  BY <1>2, <1>5 DEF TLSRoute, Key, SameHead
<1> QED
  BY <1>2, <1>5, <1>7, <1>8 DEF Headed

(* The new rule for the root has no source.                                *)
LEMMA NoneSpeaks ==
  ASSUME NEW r, NEW i, i \in DOMAIN r.sources => r.sources[i] = <<>>, i <= Len(r.sources) => i \in DOMAIN r.sources
  PROVE  ~AsksHeaders(r, i)
<1>1. NonCanary(<<>>) = {}
  BY DEF NonCanary, FirstIn
<1> QED
  BY <1>1 DEF AsksHeaders, Speaks

(* A route after appRootFeature.                                           *)
LEMMA AppRootHeads ==
  ASSUME NEW a, NEW r, Sited(a, r), GoodRoute(r), NEW tls, Headed(r, tls, TRUE), NEW q, q = AppRootRoute(r)
  PROVE  Headed(q, tls, TRUE)
<1> DEFINE S == {i \in 1..Len(r.rules) : AsksAppRoot(r, i)}
           filter == <<"redirect", "root">>
           match == [type |-> "Exact", path |-> <<>>, header |-> <<>>]
           rule == [matches |-> <<match>>, filters |-> <<filter>>, backends |-> <<>>]
           joined == [r EXCEPT !.rules = Append(@, rule), !.sources = Append(@, <<>>)]
           changed == [r EXCEPT !.rules[FirstIn(S)] = Redirecting(@, filter)]
<1>1. DOMAIN r = RouteParts /\ IsList(r.rules) /\ DOMAIN r.rules = 1..Len(r.rules) /\ Len(r.rules) \in Nat
  BY ListShape DEF GoodRoute
<1>2. \/ q = r
      \/ FirstIn(S) # 0 /\ q = changed
      \/ FirstIn(S) # 0 /\ q = joined
  BY DEF AppRootRoute
<1>3. \A i \in DOMAIN r.rules : HeadedRule(r.rules[i]) /\ DOMAIN r.rules[i] = RuleParts /\ IsList(r.rules[i].filters)
  BY DEF Headed, GoodRoute, GoodRule
<1>4. CASE FirstIn(S) # 0 /\ q = joined
  <2>1. filter[1] = "redirect" /\ rule.filters = <<filter>>
    OBVIOUS
  <2> HIDE DEF rule, match, filter
  <2>2. ToSet(<<filter>>) = {filter}
    BY OneOf
  <2>3. HeadedRule(rule) /\ ~SetsHeaders(rule)
    BY <2>1, <2>2 DEF HeadedRule, SetsHeaders
  <2>4. SameHead(r, q) /\ q.rules = Append(r.rules, rule) /\ q.sources = Append(r.sources, <<>>)
    BY <1>1, <1>4 DEF RouteParts, SameHead
  <2>5. OneLonger(q.rules, r.rules, rule) /\ OneLonger(q.sources, r.sources, <<>>)
    BY <2>4, OneMore DEF GoodRoute
  <2>6. /\ DOMAIN r.sources = 1..Len(r.sources) /\ DOMAIN r.sources = DOMAIN r.rules /\ Len(r.sources) = Len(r.rules)
        /\ IsList(q.sources)
    <3>1. IsList(r.sources) /\ DOMAIN r.rules = DOMAIN r.sources
      BY DEF GoodRoute, Sited
    <3>2. IsList(q.sources)
      BY <2>4, <3>1, ListAppended
    <3> QED
      BY <1>1, <3>1, <3>2, SameLength, ListShape
  <2>7. /\ DOMAIN q.rules = 1..Len(r.rules) + 1 /\ q.rules[Len(r.rules) + 1] = rule
        /\ DOMAIN q.sources = 1..Len(r.rules) + 1 /\ q.sources[Len(r.rules) + 1] = <<>>
        /\ \A i \in DOMAIN r.rules : q.rules[i] = r.rules[i] /\ q.sources[i] = r.sources[i]
    BY <2>5, <2>6 DEF OneLonger
  <2>8. Len(q.sources) = Len(r.rules) + 1
    <3>1. DOMAIN q.sources = 1..Len(q.sources) /\ Len(q.sources) \in Nat
      BY <2>6, ListShape
    <3> QED
      BY <1>1, <2>7, <3>1
  <2>9. ASSUME NEW i \in DOMAIN r.rules PROVE AsksHeaders(q, i) <=> AsksHeaders(r, i)
    <3>1. i <= Len(r.sources) /\ i <= Len(q.sources) /\ q.sources[i] = r.sources[i]
      BY <1>1, <2>6, <2>7, <2>8, <2>9
    <3> QED
      BY <3>1 DEF AsksHeaders, Speaks
  <2>10. ~AsksHeaders(q, Len(r.rules) + 1)
    BY <1>1, <2>7, <2>8, NoneSpeaks
  <2>11. \A i \in DOMAIN q.rules : i = Len(r.rules) + 1 \/ i \in DOMAIN r.rules
    BY <1>1, <2>7
  <2>12. Key(TLSRoute(q)) = Key(TLSRoute(r))
    BY <2>4 DEF TLSRoute, Key, SameHead
  <2>13. \A i \in DOMAIN q.rules : HeadedRule(q.rules[i])
    BY <1>3, <2>3, <2>7, <2>11
  <2>14. Key(TLSRoute(r)) \notin DOMAIN tls => \A i \in DOMAIN q.rules : SetsHeaders(q.rules[i]) <=> AsksHeaders(q, i)
    <3>1. SUFFICES ASSUME Key(TLSRoute(r)) \notin DOMAIN tls, NEW i \in DOMAIN q.rules
                   PROVE  SetsHeaders(q.rules[i]) <=> AsksHeaders(q, i)
      OBVIOUS
    <3>2. CASE i = Len(r.rules) + 1
      BY <2>3, <2>7, <2>10, <3>2
    <3>3. CASE i \in DOMAIN r.rules
      BY <2>7, <2>9, <3>1, <3>3 DEF Headed
    <3> QED
      BY <2>11, <3>2, <3>3
  <2> QED
    BY <2>12, <2>13, <2>14 DEF Headed
<1>5. CASE FirstIn(S) # 0 /\ q = changed
  <2> PICK n : n = FirstIn(S)
    OBVIOUS
  <2> PICK new : new = Redirecting(r.rules[n], filter)
    OBVIOUS
  <2> DEFINE f == [i \in 1..Len(r.rules) |-> IF i = n THEN new ELSE r.rules[i]]
  <2>1. changed = [r EXCEPT !.rules = f]
    <3>1. changed = [r EXCEPT !.rules = [r.rules EXCEPT ![n] = new]]
      BY <1>1 DEF RouteParts
    <3>2. [r.rules EXCEPT ![n] = new] = f
      BY <1>1
    <3> QED
      BY <3>1, <3>2
  <2>2. f = [i \in 1..Len(r.rules) |-> f[i]]
        /\ \A i \in DOMAIN r.rules : f[i] = r.rules[i] \/ (i = n /\ f[i] = new)
    BY <1>1
  <2> HIDE DEF f
  <2>3. SameHead(r, q) /\ q.sources = r.sources /\ q.rules = f /\ DOMAIN f = DOMAIN r.rules
    BY <1>5, <2>1, <2>2, HeadKept
  <2>4. n \in DOMAIN r.rules => HeadedRule(new) /\ (SetsHeaders(new) <=> SetsHeaders(r.rules[n]))
    <3> PICK o : o = r.rules[n]
      OBVIOUS
    <3>1. n \in DOMAIN r.rules => HeadedRule(o) /\ DOMAIN o = RuleParts /\ IsList(o.filters)
      BY <1>3
    <3>2. new = Redirecting(o, <<"redirect", "root">>)
      OBVIOUS
    <3> QED
      BY <3>1, <3>2, RedirectHeads
  <2>5. \A i \in DOMAIN r.rules : HeadedRule(f[i]) /\ (SetsHeaders(f[i]) <=> SetsHeaders(r.rules[i]))
    BY <1>3, <2>2, <2>4
  <2>6. \A i \in DOMAIN r.rules : HeadedRule(q.rules[i])
          /\ (Key(TLSRoute(r)) \notin DOMAIN tls => (SetsHeaders(q.rules[i]) <=> TRUE /\ AsksHeaders(r, i)))
    BY <2>3, <2>5 DEF Headed
  <2>7. SameHead(r, q) /\ q.sources = r.sources /\ DOMAIN q.rules = DOMAIN r.rules
    BY <2>3
  <2> QED
    BY <2>6, <2>7, HeadedOn
<1> QED
  BY <1>2, <1>4, <1>5

-----------------------------------------------------------------------------
(* A step of a feature keeps what the rules have.                          *)
LEMMA HeadedStays ==
  ASSUME UNCHANGED vars, stage' \in AfterCanary,
         \A k \in DOMAIN pir'.http : Headed(pir'.http[k], pir'.tls, HeadersSet(stage'))
  PROVE  HeadedInv'
<1>1. \A r, i : AsksHeaders(r, i)' <=> AsksHeaders(r, i)
  <2>1. \A id : Ann(id)' = Ann(id)
    BY FlowsStay
  <2>2. \A s : NonCanary(s)' = NonCanary(s)
    BY <2>1 DEF NonCanary
  <2> QED
    BY <2>1, <2>2 DEF AsksHeaders, Speaks
<1>2. \A r, tls, set : Headed(r, tls, set)' <=> Headed(r, tls, set)
  <2>1. \A r : Key(TLSRoute(r))' = Key(TLSRoute(r))
    BY DEF TLSRoute, Key
  <2> QED
    BY <1>1, <2>1 DEF Headed, HeadedRule, SetsHeaders
<1>3. (\A k \in DOMAIN pir.http : Headed(pir.http[k], pir.tls, HeadersSet(stage)))'
  BY <1>2
<1> QED
  BY <1>3 DEF HeadedInv

(* Before the features.                                                    *)
LEMMA PoliciesHead ==
  IInv /\ PathsInv /\ ShapesInv /\ PlacesInv /\ CanaryInv /\ FlowsInv /\ CreateBackendTLSPolicies => HeadedInv'
<1> SUFFICES ASSUME IInv, PathsInv, ShapesInv, PlacesInv, CanaryInv, FlowsInv, CreateBackendTLSPolicies
             PROVE  HeadedInv'
  OBVIOUS
<1>1. UNCHANGED vars /\ pir' = pir /\ stage' = "redirect" /\ stage = "canary"
  BY StagesAre DEF CreateBackendTLSPolicies, Feature, Reached, FlowsInv
<1>2. /\ pc = "done" /\ errors = {} /\ DOMAIN pir.http = DOMAIN ir.http
      /\ \A k \in DOMAIN ir.http : pir.http[k] = IF Visited(k) THEN CanaryRoute(ir.http[k]) ELSE ir.http[k]
  BY <1>1 DEF CanaryInv
<1>3. ASSUME NEW k \in DOMAIN ir.http PROVE Headed(pir.http[k], pir'.tls, HeadersSet(stage'))
  <2> PICK a : a = ir.http[k]
    OBVIOUS
  <2>1. Full(a)
    BY <1>2, StoredFull
  <2>2. GoodRoute(a) /\ Untouched(a)
    BY <1>2, StoredGood
  <2>3. RouteFits(a)
    BY <2>2, UntouchedFits, NoIndexPanics
  <2> PICK q : q = pir.http[k]
    OBVIOUS
  <2>4. q = a \/ q = CanaryRoute(a)
    BY <1>2
  <2>5. HeadersSet(stage') = FALSE
    BY <1>1 DEF HeadersSet
  <2>6. Headed(q, pir'.tls, FALSE)
    BY <2>1, <2>2, <2>3, <2>4, CanaryHeads
  <2> QED
    BY <2>5, <2>6
<1>4. stage' \in AfterCanary
  BY <1>1 DEF AfterCanary
<1> QED
  BY <1>1, <1>2, <1>3, <1>4, HeadedStays

(* The features that change rules, or none.                                *)
LEMMA OthersHead ==
  NginxInv /\ SitesInv /\ HeadedInv /\ (RedirectFeature \/ HeaderModifierFeature \/ RegexFeature
    \/ BackendTLSFeature \/ SessionAffinityFeature \/ AppRootFeature) => HeadedInv'
<1> SUFFICES ASSUME NginxInv, SitesInv, HeadedInv,
                    RedirectFeature \/ HeaderModifierFeature \/ RegexFeature \/ BackendTLSFeature
                      \/ SessionAffinityFeature \/ AppRootFeature
             PROVE  HeadedInv'
  OBVIOUS
<1>1. DOMAIN pir = PirParts /\ \A k \in DOMAIN pir.http : GoodRoute(pir.http[k])
  BY DEF NginxInv, PirParts
<1>2. CASE RedirectFeature
  <2>1. UNCHANGED vars /\ stage = "redirect" /\ stage' = "headers" /\ pir' = Redirect(pir)
    BY <1>2, StagesAre DEF RedirectFeature, Feature, Reached, FeatureOrder
  <2>2. /\ DOMAIN pir'.http = DOMAIN pir.http /\ pir'.tls = pir.tls
        /\ \A k \in DOMAIN pir.http : pir'.http[k] = RedirectRoute(pir.http[k])
    BY <1>1, <2>1 DEF Redirect, PirParts
  <2>3. stage \in AfterCanary /\ stage' \in AfterCanary /\ HeadersSet(stage) = FALSE /\ HeadersSet(stage') = FALSE
    BY <2>1 DEF AfterCanary, AfterRedirect, HeadersSet
  <2> QED
    BY <1>1, <2>1, <2>2, <2>3, FeaturesHead, HeadedStays DEF HeadedInv
<1>3. CASE HeaderModifierFeature
  <2>1. UNCHANGED vars /\ stage = "headers" /\ stage' = "regex" /\ pir' = HeaderModifier(pir)
    BY <1>3, StagesAre DEF HeaderModifierFeature, Feature, Reached, FeatureOrder
  <2>2. /\ DOMAIN pir'.http = DOMAIN pir.http /\ pir'.tls = pir.tls
        /\ \A k \in DOMAIN pir.http : pir'.http[k] = HeaderModifierRoute(pir.http[k])
    BY <1>1, <2>1 DEF HeaderModifier, PirParts
  <2>3. stage \in AfterCanary /\ stage' \in AfterCanary /\ HeadersSet(stage) = FALSE /\ HeadersSet(stage') = TRUE
    BY <2>1 DEF AfterCanary, AfterRedirect, HeadersSet
  <2> QED
    BY <1>1, <2>1, <2>2, <2>3, FeaturesHead, HeadedStays DEF HeadedInv
<1>4. CASE RegexFeature
  <2>1. UNCHANGED vars /\ stage = "regex" /\ stage' = "backendTLS" /\ pir' = Regex(pir)
    BY <1>4, StagesAre DEF RegexFeature, Feature, Reached, FeatureOrder
  <2>2. /\ DOMAIN pir'.http = DOMAIN pir.http /\ pir'.tls = pir.tls
        /\ \A k \in DOMAIN pir.http : pir'.http[k] = RegexRoute(pir.http[k])
    BY <1>1, <2>1 DEF Regex, PirParts
  <2>3. stage \in AfterCanary /\ stage' \in AfterCanary /\ HeadersSet(stage) = TRUE /\ HeadersSet(stage') = TRUE
    BY <2>1 DEF AfterCanary, AfterRedirect, HeadersSet
  <2> QED
    BY <1>1, <2>1, <2>2, <2>3, FeaturesHead, HeadedStays DEF HeadedInv
<1>5. CASE AppRootFeature
  <2>1. UNCHANGED vars /\ stage = "appRoot" /\ stage' = "converted" /\ pir' = AppRoot(pir)
    BY <1>5, StagesAre DEF AppRootFeature, Feature, Reached, FeatureOrder
  <2>2. /\ DOMAIN pir'.http = DOMAIN pir.http /\ pir'.tls = pir.tls
        /\ \A k \in DOMAIN pir.http : pir'.http[k] = AppRootRoute(pir.http[k])
    BY <1>1, <2>1 DEF AppRoot, PirParts
  <2>3. stage \in AfterCanary /\ stage' \in AfterCanary /\ HeadersSet(stage) = TRUE /\ HeadersSet(stage') = TRUE
    BY <2>1 DEF AfterCanary, AfterRedirect, HeadersSet
  <2>4. \A k \in DOMAIN pir.http : Sited(ir.http[k], pir.http[k])
    BY <2>3 DEF SitesInv
  <2>5. \A k \in DOMAIN pir.http : Headed(pir'.http[k], pir.tls, TRUE)
    BY <1>1, <2>2, <2>3, <2>4, AppRootHeads DEF HeadedInv
  <2> QED
    BY <2>1, <2>2, <2>3, <2>5, HeadedStays
<1>6. CASE BackendTLSFeature \/ SessionAffinityFeature
  <2>1. /\ UNCHANGED vars /\ stage \in {"backendTLS", "affinity"} /\ stage' \in {"affinity", "sslPassthrough"}
        /\ pir'.http = pir.http /\ pir'.tls = pir.tls
    <3>1. CASE BackendTLSFeature
      BY <1>1, <3>1, StagesAre DEF BackendTLSFeature, Feature, Reached, FeatureOrder, BackendTLS, PirParts
    <3>2. CASE SessionAffinityFeature
      <4>1. PICK order : Feature("affinity", SessionAffinity(pir, order))
        BY <3>2 DEF SessionAffinityFeature
      <4> QED
        BY <1>1, <4>1, StagesAre DEF Feature, Reached, FeatureOrder, SessionAffinity, PirParts
    <3> QED
      BY <1>6, <3>1, <3>2
  <2>2. stage \in AfterCanary /\ stage' \in AfterCanary /\ HeadersSet(stage) = HeadersSet(stage')
    BY <2>1 DEF AfterCanary, AfterRedirect, HeadersSet
  <2> QED
    BY <2>1, <2>2, HeadedStays DEF HeadedInv
<1> QED
  BY <1>2, <1>3, <1>4, <1>5, <1>6

(* ssl-passthrough gives a tunnel to every route it changes.               *)
LEMMA PassthroughHeads == NginxInv /\ SitesInv /\ HeadedInv /\ SSLPassthroughFeature => HeadedInv'
<1> SUFFICES ASSUME NginxInv, SitesInv, HeadedInv, SSLPassthroughFeature PROVE HeadedInv'
  OBVIOUS
<1>1. PICK order \in SetToSeqs({k \in DOMAIN pir.http : PassedThrough(pir.http[k])}) :
        Feature("sslPassthrough", Passthrough(pir, order))
  BY DEF SSLPassthroughFeature
<1>2. UNCHANGED vars /\ stage = "sslPassthrough" /\ stage' = "appRoot" /\ pir' = Passthrough(pir, order)
  BY <1>1, StagesAre DEF Feature, Reached, FeatureOrder
<1>3. DOMAIN pir = PirParts /\ \A k \in DOMAIN pir.http : GoodRoute(pir.http[k])
  BY DEF NginxInv, PirParts
<1>4. stage \in AfterCanary /\ stage' \in AfterCanary /\ HeadersSet(stage) = TRUE /\ HeadersSet(stage') = TRUE
  BY <1>2 DEF AfterCanary, AfterRedirect, HeadersSet
<1>5. \A k \in DOMAIN pir.http : Headed(pir.http[k], pir.tls, TRUE)
  BY <1>4 DEF HeadedInv
<1> DEFINE Name(x) == Key(TLSRoute(pir.http[x]))
<1>6. /\ DOMAIN pir'.tls = DOMAIN pir.tls \cup {Name(x) : x \in Passed(pir)}
      /\ DOMAIN pir'.http \subseteq DOMAIN pir.http
      /\ \A k \in DOMAIN pir'.http :
           pir'.http[k] = IF k \in Passed(pir) THEN Strip(pir.http[k]) ELSE pir.http[k]
  <2> PICK new : new = Passthrough(pir, order)
    OBVIOUS
  <2>1. \E gone : new.http = [k \in DOMAIN pir.http \ gone |->
                                IF k \in Passed(pir) THEN Strip(pir.http[k]) ELSE pir.http[k]]
    BY <1>3 DEF Passthrough, PirParts, Passed
  <2>2. DOMAIN new.tls = DOMAIN pir.tls \cup {Name(x) : x \in Passed(pir)}
    BY <1>3 DEF Passthrough, PirParts, Passed
  <2> QED
    BY <1>2, <2>1, <2>2
<1>7. ASSUME NEW k \in DOMAIN pir'.http PROVE Headed(pir'.http[k], pir'.tls, TRUE)
  <2>1. CASE k \in Passed(pir)
    BY <1>3, <1>5, <1>6, <2>1, StripHeads
  <2>2. CASE k \notin Passed(pir)
    BY <1>5, <1>6, <2>2 DEF Headed
  <2> QED
    BY <2>1, <2>2
<1> QED
  BY <1>2, <1>4, <1>7, HeadedStays

(* Every step keeps what the rules have.                                   *)
LEMMA HeadedStep ==
  ASSUME IInv, PathsInv, ShapesInv, PlacesInv, NginxInv, CanaryInv, FlowsInv, SitesInv, HeadedInv,
         [NginxNext]_<<vars, nginxVars>>
  PROVE  HeadedInv'
<1>1. CASE Next /\ UNCHANGED nginxVars
  <2>1. pc # "done"
    BY <1>1 DEF Next, AddIngresses, ConvertGroup, ConvertDefaults, BuildGateway, Return
  <2>2. stage' = "common"
    BY <1>1, <2>1 DEF FlowsInv, nginxVars
  <2> QED
    BY <2>2 DEF HeadedInv, AfterCanary, AfterRedirect
<1>2. CASE UNCHANGED <<vars, nginxVars>>
  <2>1. CASE stage \in AfterCanary
    <3>1. UNCHANGED vars /\ stage' = stage /\ pir' = pir
      BY <1>2 DEF nginxVars
    <3> QED
      BY <2>1, <3>1, HeadedStays DEF HeadedInv
  <2>2. CASE stage \notin AfterCanary
    BY <1>2, <2>2 DEF HeadedInv, nginxVars, vars
  <2> QED
    BY <2>1, <2>2
<1>3. CASE StartFeatures \/ CanaryFeature \/ PassthroughPanics
  <2>1. stage' \in {"failed", "canary", "panic"}
    <3>1. CASE StartFeatures
      BY <3>1 DEF StartFeatures, vars
    <3>2. CASE CanaryFeature \/ PassthroughPanics
      BY <3>2 DEF CanaryFeature, PassthroughPanics
    <3> QED
      BY <1>3, <3>1, <3>2
  <2> QED
    BY <2>1 DEF HeadedInv, AfterCanary, AfterRedirect
<1>4. CASE CreateBackendTLSPolicies
  BY <1>4, PoliciesHead
<1>5. CASE \/ RedirectFeature \/ HeaderModifierFeature \/ RegexFeature \/ BackendTLSFeature
           \/ SessionAffinityFeature \/ AppRootFeature
  BY <1>5, OthersHead
<1>6. CASE SSLPassthroughFeature
  BY <1>6, PassthroughHeads
<1> QED
  BY <1>1, <1>2, <1>3, <1>4, <1>5, <1>6 DEF NginxNext

(* From convert on the rules have the headers their Ingresses ask for.     *)
LEMMA HeadedInvariant == EmittersSpec => []HeadedInv
<1>1. NginxInit => HeadedInv
  BY DEF NginxInit, HeadedInv, AfterCanary, AfterRedirect
<1>2. NginxSpec /\ [](IInv /\ PathsInv /\ ShapesInv /\ PlacesInv /\ NginxInv /\ CanaryInv /\ FlowsInv /\ SitesInv)
        => []HeadedInv
  BY <1>1, HeadedStep, PTL DEF NginxSpec
<1> QED
  BY <1>2, EmittersConvert, Invariant, PathsInvariant, ShapesInvariant, PlacesInvariant, NginxInvariant,
     CanaryInvariant, FlowsInvariant, SitesInvariant, PTL

-----------------------------------------------------------------------------
(* Who speaks for a rule.                                                  *)

(* One Ingress at most, and one of the sources.                            *)
LEMMA NonCanaryIsOne ==
  ASSUME NEW sources, IsList(sources)
  PROVE  \E id : /\ NonCanary(sources) = IF sources = <<>> THEN {} ELSE {id}
                 /\ sources # <<>> => \E j \in DOMAIN sources : sources[j].ing = id
                 /\ \A j \in DOMAIN sources : ~Ann(sources[j].ing).canary => ~Ann(id).canary
<1>1. Len(sources) \in Nat /\ DOMAIN sources = 1..Len(sources) /\ (sources = <<>> <=> DOMAIN sources = {})
  BY ListShape
<1> PICK n \in Nat : n = Len(sources)
  BY <1>1
<1> DEFINE S == {j \in 1..n : ~Ann(sources[j].ing).canary}
           i == FirstIn(S)
<1>2. NonCanary(sources) = IF i # 0 THEN {sources[i].ing} ELSE {sources[j].ing : j \in 1..n \cap {1}}
  BY DEF NonCanary
<1>3. CASE S # {}
  <2>1. i \in S
    <3>1. S \subseteq 1..n
      OBVIOUS
    <3> HIDE DEF S
    <3> QED
      BY <1>3, <3>1, FirstHolds
  <2>2. i \in 1..n /\ ~Ann(sources[i].ing).canary
    BY <2>1
  <2> HIDE DEF i
  <2>3. NonCanary(sources) = {sources[i].ing} /\ sources # <<>>
    BY <1>1, <1>2, <2>2
  <2> QED
    BY <1>1, <2>2, <2>3
<1>4. CASE S = {} /\ n = 0
  <2>1. i = 0
    BY <1>4 DEF FirstIn
  <2>2. sources = <<>>
    BY <1>1, <1>4
  <2>3. NonCanary(sources) = {}
    BY <1>2, <1>4, <2>1
  <2> QED
    BY <1>1, <2>2, <2>3
<1>5. CASE S = {} /\ n # 0
  <2>1. i = 0
    BY <1>5 DEF FirstIn
  <2> HIDE DEF i
  <2>2. 1..n \cap {1} = {1} /\ 1 \in DOMAIN sources /\ sources # <<>>
    BY <1>1, <1>5
  <2>3. NonCanary(sources) = {sources[1].ing}
    BY <1>2, <2>1, <2>2
  <2>4. \A j \in DOMAIN sources : Ann(sources[j].ing).canary
    BY <1>1, <1>5
  <2> QED
    BY <2>2, <2>3, <2>4
<1> QED
  BY <1>3, <1>4, <1>5

(* Where one set of annotations counts, it is that of this Ingress.        *)
LEMMA SpeakingIs ==
  ASSUME NEW r, NEW i, IsList(r.sources[i]), ~(i > Len(r.rules)), Cardinality(Speaking(r, i)) <= 1
  PROVE  Speaking(r, i) = {Ann(x) : x \in NonCanary(r.sources[i])}
<1> PICK sources : sources = r.sources[i]
  OBVIOUS
<1> DEFINE anns == {Ann(s.ing) : s \in ToSet(sources)}
           main == {a \in anns : ~a.canary}
<1>1. IsList(sources) /\ (sources = <<>> <=> ToSet(sources) = {})
  BY ListShape
<1>2. Speaking(r, i) = IF \A a \in anns : a.canary THEN anns ELSE main
  BY DEF Speaking
<1>3. IsFiniteSet(anns)
  <2> DEFINE h == [s \in ToSet(sources) |-> Ann(s.ing)]
  <2>1. h \in Surjection(ToSet(sources), anns)
    BY DEF Surjection
  <2> QED
    BY <1>1, <2>1, ListFinite, FS_Surjection
<1>4. PICK id : /\ NonCanary(sources) = IF sources = <<>> THEN {} ELSE {id}
                /\ sources # <<>> => \E j \in DOMAIN sources : sources[j].ing = id
                /\ \A j \in DOMAIN sources : ~Ann(sources[j].ing).canary => ~Ann(id).canary
  BY <1>1, NonCanaryIsOne
<1>5. CASE sources = <<>>
  <2>1. anns = {}
    BY <1>1, <1>5
  <2> QED
    BY <1>2, <1>4, <1>5, <2>1
<1>6. CASE sources # <<>>
  <2>1. NonCanary(sources) = {id} /\ Ann(id) \in anns
    <3>1. PICK j \in DOMAIN sources : sources[j].ing = id
      BY <1>4, <1>6
    <3>2. sources[j] \in ToSet(sources)
      BY InToSet
    <3> QED
      BY <1>4, <1>6, <3>1, <3>2
  <2>2. Ann(id) \in Speaking(r, i)
    <3>1. ASSUME NEW a \in anns, ~a.canary PROVE ~Ann(id).canary
      <4>1. PICK s \in ToSet(sources) : a = Ann(s.ing)
        OBVIOUS
      <4>2. PICK j \in DOMAIN sources : sources[j] = s
        BY InToSet
      <4> QED
        BY <1>4, <3>1, <4>1, <4>2
    <3> HIDE DEF anns
    <3> QED
      BY <1>2, <2>1, <3>1
  <2>3. Speaking(r, i) = {Ann(id)}
    <3>1. Speaking(r, i) \subseteq anns
      BY <1>2
    <3>2. IsFiniteSet(Speaking(r, i))
      BY <1>3, <3>1, FS_Subset
    <3> PICK A : A = Speaking(r, i)
      OBVIOUS
    <3>3. Cardinality(A) \in Nat /\ Cardinality(A) # 0
      BY <2>2, <3>2, FS_CardinalityType, FS_EmptySet
    <3>4. Cardinality(A) = 1
      BY <3>3
    <3>5. PICK a : A = {a}
      BY <3>2, <3>4, FS_Singleton
    <3> QED
      BY <2>2, <3>5
  <2> QED
    BY <2>1, <2>3
<1> QED
  BY <1>5, <1>6
-----------------------------------------------------------------------------
(* The policies of a route.                                                *)
PolicyKinds == {"rewrite", "captures", "timeouts", "cors", "ipRange", "bodySize"}

AskedAt(r, i, kind) == \E ing \in NonCanary(r.sources[i]) : AsksFor(Ann(ing), r, kind)

Places(r) == {n \in 1..Len(r.rules) : n <= Len(r.sources)}

(* A policy is asked for, by the Ingress that speaks for the rule.          *)
LEMMA PoliciesAre ==
  ASSUME NEW r, NEW p
  PROVE  p \in Policies(r) <=>
           \E kind \in PolicyKinds, i \in Places(r) :
             \E ing \in NonCanary(r.sources[i]) : AsksFor(Ann(ing), r, kind) /\ p = <<kind, i, ing>>
<1> DEFINE Of(kind) == \E i \in Places(r) : \E ing \in NonCanary(r.sources[i]) :
                         AsksFor(Ann(ing), r, kind) /\ p = <<kind, i, ing>>
<1>1. p \in Rewrites(r) <=> Of("captures") \/ Of("rewrite")
  BY DEF Rewrites, ByRule, Places, AsksFor
<1>2. p \in IPRangeControls(r) <=> Of("ipRange")
  BY DEF IPRangeControls, ByRule, Places, AsksFor
<1>3. p \in Timeouts(r) <=> Of("timeouts")
  BY DEF Timeouts, ByRule, Places, AsksFor
<1>4. p \in CorsPolicies(r) <=> Of("cors")
  BY DEF CorsPolicies, ByRule, Places, AsksFor
<1>5. p \in BodySizes(r) <=> Of("bodySize")
  BY DEF BodySizes, ByRule, Places, AsksFor
<1>6. p \in Policies(r) <=> \E kind \in PolicyKinds : Of(kind)
  <2> HIDE DEF Of
  <2> QED
    BY <1>1, <1>2, <1>3, <1>4, <1>5 DEF Policies, PolicyKinds
<1> QED
  BY <1>6

-----------------------------------------------------------------------------
(* A route as the common emitter leaves it.                                *)
HasFilter(rule, kind) == \E f \in ToSet(rule.filters) : f[1] = kind

PolicyAt(P, kind, i) == \E p \in P : p[1] = kind /\ p[2] = i

Unapplied(P) == {p \in P : p[1] \notin ToSet(AppliedKinds)}

(* What of it the redirect passes leave alone.                              *)
LEMMA MainFormIs ==
  ASSUME NEW r, ShapedRules(r.rules), IsList(r.sources)
  PROVE  /\ MainForm(r).name = r.name /\ MainForm(r).policies = Policies(r)
         /\ DOMAIN r.rules \subseteq DOMAIN MainForm(r).rules
         /\ \A i \in DOMAIN r.rules : MainForm(r).rules[i] = r.rules[i]
         /\ \A i \in DOMAIN MainForm(r).rules \ DOMAIN r.rules :
              ToSet(MainForm(r).rules[i].filters) = {<<"redirect", "slash">>}
<1>a. PICK e : e = Extended(r)
  OBVIOUS
<1>b. PICK rules : rules = MainRules(r)
  OBVIOUS
<1>c. PICK slash : slash = SlashRules(r.rules, "slash")
  OBVIOUS
<1>1. DOMAIN e = EmitParts /\ e.name = r.name /\ e.policies = Policies(r)
  BY <1>a DEF Extended, Emittable, EmitParts
<1>2. MainForm(r).name = r.name /\ MainForm(r).policies = Policies(r)
  BY <1>1, <1>a DEF MainForm, Bound, EmitParts
<1>3. MainForm(r).rules = rules
  BY <1>b, FormsShaped
<1>4. rules = r.rules \o slash
  BY <1>b, <1>c DEF MainRules
<1>5. ShapedRules(slash) /\ \A x \in ToSet(slash) : \E p : x = SlashRule(p, "slash")
  BY <1>c, SlashRulesAre
<1>6. /\ \A i \in DOMAIN r.rules : i \in DOMAIN rules /\ rules[i] = r.rules[i]
      /\ \A n \in DOMAIN rules \ DOMAIN r.rules : rules[n] \in ToSet(slash)
  BY <1>4, <1>5, RulesJoined
<1>7. ASSUME NEW i \in DOMAIN rules \ DOMAIN r.rules PROVE ToSet(rules[i].filters) = {<<"redirect", "slash">>}
  <2>1. PICK p : rules[i] = SlashRule(p, "slash")
    BY <1>5, <1>6
  <2>2. rules[i].filters = <<<<"redirect", "slash">>>>
    BY <2>1 DEF SlashRule
  <2> PICK f : f = <<"redirect", "slash">>
    OBVIOUS
  <2>3. ToSet(<<f>>) = {f}
    BY OneElement
  <2> QED
    BY <2>2, <2>3
<1> QED
  BY <1>2, <1>3, <1>6, <1>7

(* Policies become filters where they are for the rule.                     *)
LEMMA AppliedRules ==
  ASSUME NEW q, Shaped(q), NEW e, e = Applied(q)
  PROVE  /\ e.name = q.name /\ e.policies = Unapplied(q.policies)
         /\ \A i \in DOMAIN q.rules :
              \A f : f \in ToSet(e.rules[i].filters) <=>
                \/ f \in ToSet(q.rules[i].filters)
                \/ \E p \in q.policies : p[1] \in ToSet(AppliedKinds) /\ p[2] = i /\ f = <<p[1], p[3]>>
<1> DEFINE Of(i) == FiltersOf(q.policies, i)
           rest == {p \in q.policies : p[1] \notin ToSet(AppliedKinds)}
<1>1. e = [q EXCEPT !.rules = [i \in 1..Len(q.rules) |-> WithFilters(q.rules[i], Of(i))], !.policies = rest]
  BY DEF Applied
<1>2. \A i : /\ IsList(Of(i))
             /\ \A f : f \in ToSet(Of(i)) <=>
                  \E p \in q.policies : p[1] \in ToSet(AppliedKinds) /\ p[2] = i /\ f = <<p[1], p[3]>>
  BY FiltersAre DEF Shaped
<1> HIDE DEF Of, rest
<1>3. DOMAIN q = EmitParts /\ IsList(q.rules) /\ DOMAIN q.rules = 1..Len(q.rules)
  BY ListShape DEF Shaped
<1>4. e.name = q.name /\ e.policies = rest
      /\ e.rules = [i \in 1..Len(q.rules) |-> WithFilters(q.rules[i], Of(i))]
  BY <1>1, <1>3 DEF EmitParts
<1>5. ASSUME NEW i \in DOMAIN q.rules
      PROVE  ToSet(e.rules[i].filters) = ToSet(q.rules[i].filters) \cup ToSet(Of(i))
  <2> PICK old : old = q.rules[i].filters
    OBVIOUS
  <2> PICK more : more = Of(i)
    OBVIOUS
  <2>1. DOMAIN q.rules[i] = RuleParts /\ IsList(old) /\ IsList(more)
    BY <1>2 DEF Shaped, ShapedRule
  <2>2. e.rules[i] = WithFilters(q.rules[i], more)
    BY <1>3, <1>4
  <2>3. e.rules[i].filters = old \o more
    BY <2>1, <2>2 DEF WithFilters, RuleParts
  <2>4. ToSet(old \o more) = ToSet(old) \cup ToSet(more)
    <3> DEFINE X == ToSet(old) \cup ToSet(more)
    <3>1. old \in Seq(ToSet(old)) /\ more \in Seq(ToSet(more)) /\ ToSet(old) \subseteq X /\ ToSet(more) \subseteq X
      BY <2>1, ListShape
    <3> HIDE DEF X
    <3>2. old \in Seq(X) /\ more \in Seq(X)
      BY <3>1
    <3> QED
      BY <3>2, ConcatHolds
  <2> QED
    BY <2>3, <2>4
<1> QED
  BY <1>2, <1>4, <1>5 DEF rest, Unapplied

FormParts(r, tls, e) ==
  /\ Shaped(e) /\ e.ns = r.ns /\ e.name = r.name /\ e.policies = Unapplied(Policies(r))
  /\ DOMAIN r.rules \subseteq DOMAIN e.rules
  /\ \A i \in DOMAIN e.rules : \A kind \in ToSet(AppliedKinds) :
       HasFilter(e.rules[i], kind) <=> PolicyAt(Policies(r), kind, i)
  /\ Key(TLSRoute(r)) \notin DOMAIN tls =>
       \A i \in DOMAIN e.rules : HasFilter(e.rules[i], "headers") <=> i \in DOMAIN r.rules /\ AsksHeaders(r, i)

(* The kinds of policies that become filters, and others.                   *)
LEMMA KindsAre ==
  \A kind : kind \in ToSet(AppliedKinds) <=> kind \in {"timeouts", "rewrite", "cors"}
<1>1. DOMAIN AppliedKinds = {1, 2, 3} /\ AppliedKinds[1] = "timeouts" /\ AppliedKinds[2] = "rewrite"
      /\ AppliedKinds[3] = "cors"
  BY DEF AppliedKinds
<1> QED
  BY <1>1, InToSet

(* A policy is for a rule of the ProviderIR.                                *)
LEMMA PoliciesPlaced ==
  ASSUME NEW r, IsList(r.rules), NEW p \in Policies(r)
  PROVE  p[2] \in DOMAIN r.rules /\ p = <<p[1], p[2], p[3]>> /\ p[1] \in PolicyKinds
<1>1. PICK kind \in PolicyKinds, i \in Places(r) :
        \E ing \in NonCanary(r.sources[i]) : AsksFor(Ann(ing), r, kind) /\ p = <<kind, i, ing>>
  BY PoliciesAre
<1>2. DOMAIN r.rules = 1..Len(r.rules)
  BY ListShape
<1> QED
  BY <1>1, <1>2 DEF Places

(* After the common emitter a rule has the filters of its policies and, but *)
(* for a tunnel's route, the headers asked for.                             *)
LEMMA AppliedForm ==
  ASSUME NEW r, ShapedRules(r.rules), IsList(r.sources), NEW tls, Headed(r, tls, TRUE),
         NEW e, e = Applied(MainForm(r))
  PROVE  FormParts(r, tls, e)
<1>a. PICK q : q = MainForm(r)
  OBVIOUS
<1>1. Shaped(q) /\ q.ns = r.ns /\ q.name = r.name /\ q.policies = Policies(r) /\ DOMAIN r.rules \subseteq DOMAIN q.rules
  BY <1>a, FormsShaped, MainFormIs
<1>2. Like(q, e) /\ Shaped(e)
  BY <1>1, <1>a, AppliedLike
<1>3. e.ns = r.ns /\ DOMAIN e.rules = DOMAIN q.rules
  BY <1>1, <1>2 DEF Like
<1>4. e.name = r.name /\ e.policies = Unapplied(Policies(r))
  BY <1>1, <1>a, AppliedRules
<1>5. \A i \in DOMAIN q.rules : \A f : f \in ToSet(e.rules[i].filters) <=>
        \/ f \in ToSet(q.rules[i].filters)
        \/ \E p \in Policies(r) : p[1] \in ToSet(AppliedKinds) /\ p[2] = i /\ f = <<p[1], p[3]>>
  BY <1>1, <1>a, AppliedRules
<1>6. \A i \in DOMAIN q.rules : \A f \in ToSet(q.rules[i].filters) : f[1] \in {"redirect", "headers"}
  <2>1. \A i \in DOMAIN r.rules : \A f \in ToSet(q.rules[i].filters) : f[1] \in {"redirect", "headers"}
    BY <1>a, MainFormIs DEF Headed, HeadedRule
  <2>2. \A i \in DOMAIN q.rules \ DOMAIN r.rules : \A f \in ToSet(q.rules[i].filters) : f[1] = "redirect"
    <3>1. \A i \in DOMAIN q.rules \ DOMAIN r.rules : ToSet(q.rules[i].filters) = {<<"redirect", "slash">>}
      BY <1>a, MainFormIs
    <3> QED
      BY <3>1
  <2> QED
    BY <2>1, <2>2
<1>7. ASSUME NEW i \in DOMAIN e.rules, NEW kind \in ToSet(AppliedKinds)
      PROVE  HasFilter(e.rules[i], kind) <=> PolicyAt(Policies(r), kind, i)
  <2>1. kind \notin {"redirect", "headers"}
    BY KindsAre
  <2>2. ASSUME HasFilter(e.rules[i], kind) PROVE PolicyAt(Policies(r), kind, i)
    <3>1. PICK f \in ToSet(e.rules[i].filters) : f[1] = kind
      BY <2>2 DEF HasFilter
    <3>2. f \notin ToSet(q.rules[i].filters)
      BY <1>3, <1>6, <2>1, <3>1
    <3>3. PICK p \in Policies(r) : p[2] = i /\ f = <<p[1], p[3]>>
      BY <1>3, <1>5, <3>1, <3>2
    <3> QED
      BY <3>1, <3>3 DEF PolicyAt
  <2>3. ASSUME PolicyAt(Policies(r), kind, i) PROVE HasFilter(e.rules[i], kind)
    <3>1. PICK p \in Policies(r) : p[1] = kind /\ p[2] = i
      BY <2>3 DEF PolicyAt
    <3>2. <<p[1], p[3]>> \in ToSet(e.rules[i].filters)
      BY <1>3, <1>5, <3>1
    <3> QED
      BY <3>1, <3>2 DEF HasFilter
  <2> QED
    BY <2>2, <2>3
<1>8. ASSUME Key(TLSRoute(r)) \notin DOMAIN tls, NEW i \in DOMAIN e.rules
      PROVE  HasFilter(e.rules[i], "headers") <=> i \in DOMAIN r.rules /\ AsksHeaders(r, i)
  <2>1. "headers" \notin ToSet(AppliedKinds)
    BY KindsAre
  <2>2. HasFilter(e.rules[i], "headers") <=> HasFilter(q.rules[i], "headers")
    <3>1. ASSUME NEW f, f[1] = "headers"
          PROVE  f \in ToSet(e.rules[i].filters) <=> f \in ToSet(q.rules[i].filters)
      BY <1>3, <1>5, <2>1, <3>1
    <3> QED
      BY <3>1 DEF HasFilter
  <2>3. CASE i \in DOMAIN r.rules
    <3>1. q.rules[i] = r.rules[i] /\ (SetsHeaders(r.rules[i]) <=> AsksHeaders(r, i))
      BY <1>8, <1>a, <2>3, MainFormIs DEF Headed
    <3> QED
      BY <2>2, <2>3, <3>1 DEF HasFilter, SetsHeaders
  <2>4. CASE i \notin DOMAIN r.rules
    <3>1. ToSet(q.rules[i].filters) = {<<"redirect", "slash">>}
      BY <1>3, <1>a, <2>4, MainFormIs
    <3> QED
      BY <2>2, <2>4, <3>1 DEF HasFilter
  <2> QED
    BY <2>3, <2>4
<1> QED
  BY <1>1, <1>2, <1>3, <1>4, <1>7, <1>8 DEF FormParts

(* What is asked of a rule for which one set of annotations counts.         *)
LEMMA AskedIs ==
  ASSUME NEW r, GoodRoute(r), NEW i, Cardinality(Speaking(r, i)) <= 1, i \in Nat \ {0}
  PROVE  /\ \A kind \in PolicyKinds :
              PolicyAt(Policies(r), kind, i) <=> \E a \in Speaking(r, i) : AsksFor(a, r, kind)
         /\ i \in DOMAIN r.rules /\ AsksHeaders(r, i) <=> \E a \in Speaking(r, i) : AsksFor(a, r, "headers")
<1>1. DOMAIN r.rules = 1..Len(r.rules) /\ Len(r.rules) \in Nat /\ DOMAIN r.sources = 1..Len(r.sources)
  BY ListShape DEF GoodRoute
<1>2. CASE i \in DOMAIN r.rules
  <2>1. IsList(r.sources[i]) /\ i \in Places(r) /\ i <= Len(r.sources)
    BY <1>1, <1>2 DEF GoodRoute, Places
  <2>2. Speaking(r, i) = {Ann(x) : x \in NonCanary(r.sources[i])}
    BY <1>1, <1>2, <2>1, SpeakingIs
  <2>3. \A kind : AskedAt(r, i, kind) <=> \E a \in Speaking(r, i) : AsksFor(a, r, kind)
    BY <2>2 DEF AskedAt
  <2>4. ASSUME NEW kind \in PolicyKinds PROVE PolicyAt(Policies(r), kind, i) <=> AskedAt(r, i, kind)
    <3>1. ASSUME PolicyAt(Policies(r), kind, i) PROVE AskedAt(r, i, kind)
      <4>1. PICK p \in Policies(r) : p[1] = kind /\ p[2] = i
        BY <3>1 DEF PolicyAt
      <4>2. PICK k \in PolicyKinds, j \in Places(r) :
              \E ing \in NonCanary(r.sources[j]) : AsksFor(Ann(ing), r, k) /\ p = <<k, j, ing>>
        BY PoliciesAre
      <4>3. k = kind /\ j = i
        BY <4>1, <4>2
      <4> QED
        BY <4>2, <4>3 DEF AskedAt
    <3>2. ASSUME AskedAt(r, i, kind) PROVE PolicyAt(Policies(r), kind, i)
      <4>1. PICK ing \in NonCanary(r.sources[i]) : AsksFor(Ann(ing), r, kind)
        BY <3>2 DEF AskedAt
      <4> PICK p : p = <<kind, i, ing>>
        OBVIOUS
      <4>2. p \in Policies(r) /\ p[1] = kind /\ p[2] = i
        BY <2>1, <4>1, PoliciesAre
      <4> QED
        BY <4>2 DEF PolicyAt
    <3> QED
      BY <3>1, <3>2
  <2>5. AsksHeaders(r, i) <=> AskedAt(r, i, "headers")
    BY <2>1 DEF AsksHeaders, Speaks, AskedAt, AsksFor
  <2> QED
    BY <1>2, <2>3, <2>4, <2>5
<1>3. CASE i \notin DOMAIN r.rules
  <2>1. Speaking(r, i) = {}
    BY <1>1, <1>3 DEF Speaking
  <2>2. \A kind : ~PolicyAt(Policies(r), kind, i)
    BY <1>3, PoliciesPlaced DEF PolicyAt, GoodRoute
  <2> QED
    BY <1>3, <2>1, <2>2
<1> QED
  BY <1>2, <1>3

-----------------------------------------------------------------------------
(* The last step.                                                          *)

RulesKept(e, new) ==
  /\ IsList(new.rules) /\ DOMAIN new.rules = DOMAIN e.rules
  /\ \A i \in DOMAIN e.rules : new.rules[i].filters = e.rules[i].filters

RulesNumbered(e, new) == \A i \in DOMAIN e.rules : new.rules[i].name = RuleName(i)

(* It keeps the filters, and names the rules but for the standard emitter. *)
LEMMA LastRules ==
  ASSUME NEW e, Shaped(e), NEW new, NEW P,
         new = Standard(e) \/ new = WithPolicies(Emitted(e), P)
  PROVE  RulesKept(e, new) /\ (new = WithPolicies(Emitted(e), P) => RulesNumbered(e, new))
<1>1. DOMAIN e = EmitParts /\ IsList(e.rules) /\ DOMAIN e.rules = 1..Len(e.rules)
  BY ListShape DEF Shaped, ShapedRule
<1> PICK std : std = Standard(e)
  OBVIOUS
<1> DEFINE f == [i \in 1..Len(e.rules) |-> WithoutDuplicates(e.rules[i])]
<1>2. std = [e EXCEPT !.rules = f]
  BY DEF Standard
<1>3. DOMAIN f = DOMAIN e.rules /\ \A i \in DOMAIN e.rules : f[i] = WithoutDuplicates(e.rules[i])
  BY <1>1
<1>4. IsList(f) /\ DOMAIN f = 1..Len(f) /\ Len(f) \in Nat
  <2> DEFINE X == {f[i] : i \in DOMAIN e.rules}
  <2>1. f \in [DOMAIN e.rules -> X]
    BY <1>1
  <2> HIDE DEF X, f
  <2>2. IsList(f)
    BY <1>1, <2>1, MadeList
  <2> QED
    BY <2>2, ListShape
<1> HIDE DEF f
<1>5. std.rules = f /\ DOMAIN std = EmitParts
  BY <1>1, <1>2 DEF EmitParts
<1>6. ASSUME NEW i \in DOMAIN e.rules PROVE f[i].filters = e.rules[i].filters
  <2> PICK rule : rule = e.rules[i]
    OBVIOUS
  <2> PICK bs : bs = Deduplicated(rule.backends)
    OBVIOUS
  <2>1. DOMAIN rule = RuleParts
    BY DEF Shaped, ShapedRule
  <2>2. f[i] = [rule EXCEPT !.backends = bs]
    BY <1>3 DEF WithoutDuplicates
  <2> QED
    BY <2>1, <2>2 DEF RuleParts
<1>7. ASSUME new = std
      PROVE  /\ IsList(new.rules) /\ DOMAIN new.rules = DOMAIN e.rules
             /\ \A i \in DOMAIN e.rules : new.rules[i].filters = e.rules[i].filters
  BY <1>3, <1>4, <1>5, <1>6, <1>7
<1>8. ASSUME new = WithPolicies(Emitted(e), P)
      PROVE  /\ IsList(new.rules) /\ DOMAIN new.rules = DOMAIN e.rules
             /\ \A i \in DOMAIN e.rules :
                  new.rules[i].filters = e.rules[i].filters /\ new.rules[i].name = RuleName(i)
  <2> PICK named : named = Named(std)
    OBVIOUS
  <2> DEFINE g == [i \in 1..Len(f) |-> WithName(f[i], RuleName(i))]
  <2>1. named = [std EXCEPT !.rules = g]
    BY <1>5 DEF Named
  <2>2. DOMAIN g = DOMAIN f /\ \A i \in DOMAIN f : g[i] = WithName(f[i], RuleName(i))
    BY <1>4
  <2>5. IsList(g)
    <3> DEFINE X == {g[i] : i \in 1..Len(f)}
    <3>1. g \in [1..Len(f) -> X]
      OBVIOUS
    <3> HIDE DEF X, g
    <3> QED
      BY <1>4, <3>1, MadeList
  <2> HIDE DEF g
  <2>3. new.rules = g
    BY <1>5, <1>8, <2>1 DEF WithPolicies, Emitted, EmitParts
  <2>4. \A i \in DOMAIN f : g[i].filters = f[i].filters /\ g[i].name = RuleName(i)
    BY <2>2 DEF WithName
  <2> QED
    BY <1>3, <1>6, <2>2, <2>3, <2>4, <2>5
<1> QED
  BY <1>7, <1>8 DEF RulesKept, RulesNumbered

-----------------------------------------------------------------------------
(* The custom resources, built from routes with their policies.             *)
NeededKey(l) == PolicyKey(eir.http[l[1]], l[2])

SectionOf(p) == IF p[2] = 0 THEN <<>> ELSE RuleName(p[2])

(* One resource for each name, whose target and content each come from a    *)
(* policy that needs the name.                                              *)
ResourceOf(x, v, L) ==
  /\ DOMAIN v = {"target", "section", "from"}
  /\ \E a \in L : NeededKey(a) = x /\ v.target = Key(eir.http[a[1]]) /\ v.section = SectionOf(a[2])
  /\ \E b \in L : NeededKey(b) = x /\ v.from = b[2][3]

ResourcesOf(map, L) ==
  /\ \A x : x \in DOMAIN map <=> \E l \in L : NeededKey(l) = x
  /\ \A x \in DOMAIN map : ResourceOf(x, map[x], L)

(* getOrBuild.                                                              *)
LEMMA BuiltOne ==
  ASSUME NEW map, NEW L, ResourcesOf(map, L), NEW l
  PROVE  ResourcesOf(Built(map, eir.http[l[1]], l[2]), L \cup {l})
<1> PICK k : k = NeededKey(l)
  OBVIOUS
<1> PICK v : v = [target |-> Key(eir.http[l[1]]), section |-> SectionOf(l[2]), from |-> l[2][3]]
  OBVIOUS
<1> PICK new : new = Built(map, eir.http[l[1]], l[2])
  OBVIOUS
<1>1. new = [x \in DOMAIN map \cup {k} |->
               IF x # k THEN map[x] ELSE IF k \in DOMAIN map THEN [map[k] EXCEPT !.from = l[2][3]] ELSE v]
  BY DEF Built, NeededKey, SectionOf
<1>2. \A x : x \in DOMAIN new <=> \E m \in L \cup {l} : NeededKey(m) = x
  BY <1>1 DEF ResourcesOf
<1>3. ASSUME NEW x \in DOMAIN new PROVE ResourceOf(x, new[x], L \cup {l})
  <2>1. CASE x # k
    <3>1. x \in DOMAIN map /\ new[x] = map[x]
      BY <1>1, <2>1
    <3>2. ResourceOf(x, map[x], L)
      BY <3>1 DEF ResourcesOf
    <3> QED
      BY <3>1, <3>2 DEF ResourceOf
  <2>2. CASE x = k /\ k \in DOMAIN map
    <3> PICK old : old = map[k]
      OBVIOUS
    <3>1. new[x] = [old EXCEPT !.from = l[2][3]] /\ ResourceOf(k, old, L)
      BY <1>1, <2>2 DEF ResourcesOf
    <3>2. DOMAIN old = {"target", "section", "from"}
      BY <3>1 DEF ResourceOf
    <3>3. /\ DOMAIN new[x] = {"target", "section", "from"} /\ new[x].target = old.target
          /\ new[x].section = old.section /\ new[x].from = l[2][3]
      BY <3>1, <3>2
    <3>4. \E a \in L \cup {l} : NeededKey(a) = x /\ new[x].target = Key(eir.http[a[1]]) /\ new[x].section = SectionOf(a[2])
      BY <2>2, <3>1, <3>3 DEF ResourceOf
    <3>5. \E b \in L \cup {l} : NeededKey(b) = x /\ new[x].from = b[2][3]
      BY <2>2, <3>3
    <3> QED
      BY <3>3, <3>4, <3>5 DEF ResourceOf
  <2>3. CASE x = k /\ k \notin DOMAIN map
    <3>1. new[x] = v
      BY <1>1, <2>3
    <3>2. DOMAIN v = {"target", "section", "from"} /\ v.target = Key(eir.http[l[1]]) /\ v.section = SectionOf(l[2])
          /\ v.from = l[2][3]
      OBVIOUS
    <3> QED
      BY <2>3, <3>1, <3>2 DEF ResourceOf
  <2> QED
    BY <2>1, <2>2, <2>3
<1> QED
  BY <1>2, <1>3 DEF ResourcesOf

(* The loop over the listed policies.                                       *)
LEMMA BuiltLoop ==
  ASSUME NEW s, Len(s) \in Nat
  PROVE  \E f : /\ BuiltFrom(s) = f[Len(s)]
                /\ f[0] = <<>>
                /\ \A i \in 1 .. Len(s) : f[i] = Built(f[i - 1], eir.http[s[i][1]], s[i][2])
<1> DEFINE Step(f, i) == IF i = 0 THEN <<>> ELSE Built(f[i - 1], eir.http[s[i][1]], s[i][2])
           Body(f, m) == [i \in 0 .. m |-> Step(f, i)]
           T == {m \in Nat : \E f : f = Body(f, m)}
<1>1. \A f, g, i : (i # 0 => f[i - 1] = g[i - 1]) => Step(f, i) = Step(g, i)
  OBVIOUS
<1>2. \A f : Step(f, 0) = <<>>
  OBVIOUS
<1> HIDE DEF Step
<1>3. 0 \in T
  <2> DEFINE f == [i \in 0 .. 0 |-> <<>>]
  <2>1. f = Body(f, 0)
    BY <1>2
  <2> QED
    BY <2>1
<1>4. ASSUME NEW m \in Nat, m \in T PROVE m + 1 \in T
  <2>1. PICK f : f = Body(f, m)
    BY <1>4
  <2>2. \A i \in 0 .. m : f[i] = Step(f, i)
    <3>1. \A i \in 0 .. m : Body(f, m)[i] = Step(f, i)
      OBVIOUS
    <3> HIDE DEF Body
    <3> QED
      BY <2>1, <3>1
  <2> DEFINE g == [i \in 0 .. m + 1 |-> IF i = m + 1 THEN Step(f, i) ELSE f[i]]
  <2>3. \A i \in 0 .. m + 1 : g[i] = Step(g, i)
    <3> SUFFICES ASSUME NEW i \in 0 .. m + 1 PROVE g[i] = Step(g, i)
      OBVIOUS
    <3>1. g[i] = Step(f, i)
      BY <2>2
    <3>2. i # 0 => f[i - 1] = g[i - 1]
      OBVIOUS
    <3> QED
      BY <1>1, <3>1, <3>2
  <2>4. g = Body(g, m + 1) /\ m + 1 \in Nat
    BY <2>3
  <2> QED
    BY <2>4
<1> HIDE DEF T
<1>5. \E f : f = Body(f, Len(s))
  <2>1. Len(s) \in T
    BY <1>3, <1>4, Induction
  <2> QED
    BY <2>1 DEF T
<1> DEFINE f == CHOOSE f : f = Body(f, Len(s))
<1>6. f = Body(f, Len(s))
  BY <1>5
<1>7. BuiltFrom(s) = f[Len(s)]
  BY DEF BuiltFrom, Step
<1> HIDE DEF f
<1>8. \A i \in 0 .. Len(s) : f[i] = Step(f, i)
  <2>1. \A i \in 0 .. Len(s) : Body(f, Len(s))[i] = Step(f, i)
    OBVIOUS
  <2> HIDE DEF Body
  <2> QED
    BY <1>6, <2>1
<1>9. f[0] = <<>> /\ \A i \in 1 .. Len(s) : f[i] = Built(f[i - 1], eir.http[s[i][1]], s[i][2])
  BY <1>8 DEF Step
<1> QED
  BY <1>7, <1>9

(* The resources of all listed policies.                                    *)
LEMMA BuiltAll ==
  ASSUME NEW s, IsList(s)
  PROVE  ResourcesOf(BuiltFrom(s), ToSet(s))
<1>1. Len(s) \in Nat /\ DOMAIN s = 1..Len(s)
  BY ListShape
<1>2. PICK f : /\ BuiltFrom(s) = f[Len(s)]
               /\ f[0] = <<>>
               /\ \A i \in 1 .. Len(s) : f[i] = Built(f[i - 1], eir.http[s[i][1]], s[i][2])
  BY <1>1, BuiltLoop
<1> DEFINE L(i) == {s[n] : n \in 1..i}
           T == {i \in 0..Len(s) : ResourcesOf(f[i], L(i))}
<1>3. 0 \in T
  <2>1. L(0) = {} /\ DOMAIN f[0] = {}
    BY <1>2
  <2> HIDE DEF L
  <2> QED
    BY <1>1, <2>1 DEF ResourcesOf
<1>4. ASSUME NEW i \in 0..Len(s) - 1, i \in T PROVE i + 1 \in T
  <2>1. i + 1 \in 1..Len(s) /\ i + 1 \in 0..Len(s) /\ (i + 1) - 1 = i
    BY <1>1
  <2>2. f[i + 1] = Built(f[i], eir.http[s[i + 1][1]], s[i + 1][2])
    BY <1>2, <2>1
  <2>3. L(i + 1) = L(i) \cup {s[i + 1]}
    <3>1. \A n : n \in 1..(i + 1) <=> n \in 1..i \/ n = i + 1
      BY <1>1
    <3> QED
      BY <3>1
  <2>4. ResourcesOf(f[i], L(i))
    BY <1>4
  <2> HIDE DEF L
  <2> PICK l : l = s[i + 1]
    OBVIOUS
  <2> PICK old : old = f[i]
    OBVIOUS
  <2>5. ResourcesOf(Built(old, eir.http[l[1]], l[2]), L(i) \cup {l})
    BY <2>4, BuiltOne
  <2> QED
    BY <2>1, <2>2, <2>3, <2>5
<1> HIDE DEF T
<1>5. 0 .. Len(s) \subseteq T
  BY <1>1, <1>3, <1>4, BoundedInduction
<1>6. ResourcesOf(f[Len(s)], L(Len(s)))
  <2> HIDE DEF L
  <2>1. Len(s) \in T
    BY <1>1, <1>5
  <2> QED
    BY <2>1 DEF T
<1>7. L(Len(s)) = ToSet(s)
  BY <1>1, InToSet
<1> QED
  BY <1>2, <1>6, <1>7

-----------------------------------------------------------------------------
(* MergeBodySizeIR, MergeIPRangeControlIR.                                  *)

(* All in one, or as they are.                                              *)
AllMerged(e, kind) == Cardinality(OfKind(e, kind)) = Len(e.rules) /\ Cardinality(Asking(OfKind(e, kind))) = 1

(* What a policy after merging comes from.                                  *)
LEMMA MergedIs ==
  ASSUME NEW e, IsFiniteSet(e.policies), Indexed(e), IsList(e.rules), NEW kind
  PROVE  /\ IsFiniteSet(Merged(e, kind))
         /\ \A p \in Merged(e, kind) :
              /\ p[1] = kind /\ p[2] \in 0..Len(e.rules)
              /\ \E q \in OfKind(e, kind) : q[3] = p[3]
         /\ AllMerged(e, kind) => Merged(e, kind) # {} /\ \A p \in Merged(e, kind) : p[2] = 0
         /\ ~AllMerged(e, kind) => Merged(e, kind) = OfKind(e, kind)
<1> PICK P : P = OfKind(e, kind)
  OBVIOUS
<1> PICK A : A = Asking(P)
  OBVIOUS
<1> DEFINE one == {<<kind, 0, ing>> : ing \in A}
<1>1. IsFiniteSet(P) /\ \A p \in P : p[1] = kind /\ p[2] \in 1..Len(e.rules)
  <2>1. P \in SUBSET e.policies /\ \A p \in P : p[1] = kind
    BY DEF OfKind
  <2> QED
    BY <2>1, FS_Subset DEF Indexed
<1>2. \A ing : ing \in A <=> \E q \in P : q[3] = ing
  BY DEF Asking
<1>3. IsFiniteSet(A)
  <2> DEFINE h == [p \in P |-> p[3]]
  <2>1. h \in Surjection(P, A)
    BY <1>2 DEF Surjection
  <2> QED
    BY <1>1, <2>1, FS_Surjection
<1>4. IsFiniteSet(one)
  <2> DEFINE h == [ing \in A |-> <<kind, 0, ing>>]
  <2>1. h \in Surjection(A, one)
    BY DEF Surjection
  <2> QED
    BY <1>3, <2>1, FS_Surjection
<1>5. Merged(e, kind) = IF AllMerged(e, kind) THEN one ELSE P
  BY DEF Merged, AllMerged
<1>6. Len(e.rules) \in Nat
  BY ListShape
<1>7. ASSUME AllMerged(e, kind) PROVE A # {}
  <2>1. Cardinality(A) = 1
    BY <1>7 DEF AllMerged
  <2> QED
    BY <1>3, <2>1, FS_EmptySet
<1>8. \A p \in one : p[1] = kind /\ p[2] = 0 /\ p[3] \in A
  OBVIOUS
<1>9. A # {} => one # {}
  OBVIOUS
<1> HIDE DEF one
<1> QED
  BY <1>1, <1>2, <1>4, <1>5, <1>6, <1>7, <1>8, <1>9

(* As many policies as rules, one for each: every rule has one.             *)
LEMMA AllCovered ==
  ASSUME NEW P, IsFiniteSet(P), NEW n \in Nat, Cardinality(P) = n, \A p \in P : p[2] \in 1..n,
         \A p, q \in P : p[2] = q[2] => p = q
  PROVE  \A i \in 1..n : \E p \in P : p[2] = i
<1> DEFINE h == [p \in P |-> p[2]]
<1>1. h \in Injection(P, 1..n)
  BY DEF Injection, IsInjective
<1>2. IsFiniteSet(1..n) /\ Cardinality(1..n) = n
  <2>1. 1 \in Int /\ n \in Int
    OBVIOUS
  <2>2. IsFiniteSet(1..n) /\ Cardinality(1..n) = IF 1 > n THEN 0 ELSE n - 1 + 1
    BY <2>1, FS_Interval
  <2> QED
    BY <2>2
<1>3. h \in Surjection(P, 1..n)
  <2> HIDE DEF h
  <2> QED
    BY <1>1, <1>2, FS_Injection
<1> QED
  BY <1>3 DEF Surjection

Listing(L, kinds) ==
  \A l : l \in L <=> \E kind \in kinds : \E a \in DOMAIN eir.http : \E p \in Merged(eir.http[a], kind) : l = <<a, p>>

Countable(http) ==
  /\ IsFiniteSet(DOMAIN http)
  /\ \A x \in DOMAIN http : IsFiniteSet(http[x].policies) /\ IsList(http[x].rules)

(* Whatever the order, all policies of the kind are listed.                 *)
LEMMA InOrderIs ==
  ASSUME Countable(eir.http), Owned(eir.http), NEW kind, NEW order \in Orders(kind), NEW s, s = InOrder(kind, order)
  PROVE  IsList(s) /\ Listing(ToSet(s), {kind})
<1> DEFINE S == {k \in DOMAIN eir.http : OfKind(eir.http[k], kind) # {}}
<1>1. IsFiniteSet(S)
  <2>1. S \in SUBSET DOMAIN eir.http
    OBVIOUS
  <2> HIDE DEF S
  <2> QED
    BY <2>1, FS_Subset DEF Countable
<1>2. order \in Seq(S) /\ \A x \in S : \E i \in 1..Len(order) : order[i] = x
  <2>1. order \in SetToSeqs(S)
    BY DEF Orders
  <2> HIDE DEF S
  <2> QED
    BY <1>1, <2>1, OrderVisits
<1>3. IsList(order) /\ DOMAIN order = 1..Len(order) /\ \A n \in DOMAIN order : order[n] \in S
  <2> HIDE DEF S
  <2> QED
    BY <1>2, SeqIsList
<1>4. ASSUME NEW k \in DOMAIN eir.http
      PROVE  IsList(MergedOf(k, kind)) /\ \A l : l \in ToSet(MergedOf(k, kind)) <=> \E p \in Merged(eir.http[k], kind) : l = <<k, p>>
  <2> PICK M : M = Merged(eir.http[k], kind)
    OBVIOUS
  <2> PICK listed : listed = SetToSeq(M)
    OBVIOUS
  <2>1. IsFiniteSet(M)
    BY MergedIs DEF Countable, Owned
  <2>2. IsList(listed) /\ ToSet(listed) = M
    BY <2>1, ListedSet
  <2> DEFINE X == {<<k, listed[m]>> : m \in DOMAIN listed}
             f == [m \in DOMAIN listed |-> <<k, listed[m]>>]
  <2>3. MergedOf(k, kind) = f
    BY DEF MergedOf
  <2>4. f \in [DOMAIN listed -> X]
    OBVIOUS
  <2>5. DOMAIN f = DOMAIN listed /\ \A m \in DOMAIN listed : f[m] = <<k, listed[m]>>
    OBVIOUS
  <2> HIDE DEF f, X
  <2>6. IsList(f)
    BY <2>2, <2>4, MadeList
  <2>7. \A l : l \in ToSet(f) <=> \E m \in DOMAIN listed : l = <<k, listed[m]>>
    BY <2>5, InToSet
  <2>8. \A p : p \in M <=> \E m \in DOMAIN listed : listed[m] = p
    BY <2>2, InToSet
  <2>9. \A l : l \in ToSet(f) <=> \E p \in M : l = <<k, p>>
    BY <2>7, <2>8
  <2> QED
    BY <2>3, <2>6, <2>9
<1> DEFINE g == [n \in DOMAIN order |-> MergedOf(order[n], kind)]
           Y == {MergedOf(order[n], kind) : n \in DOMAIN order}
<1>5. g \in [DOMAIN order -> Y] /\ DOMAIN g = DOMAIN order /\ \A n \in DOMAIN order : g[n] = MergedOf(order[n], kind)
  OBVIOUS
<1>6. s = FlattenSeq(g)
  BY DEF InOrder
<1> HIDE DEF g, Y
<1>7. IsList(g)
  BY <1>3, <1>5, MadeList
<1>8. \A n \in DOMAIN g : IsList(g[n])
  BY <1>3, <1>4, <1>5
<1>9. IsList(s) /\ \A l : l \in ToSet(s) <=> \E n \in DOMAIN g : l \in ToSet(g[n])
  BY <1>6, <1>7, <1>8, FlattenList
<1>10. \A a : (\E n \in DOMAIN order : order[n] = a) <=> a \in S
  <2> HIDE DEF S
  <2> QED
    BY <1>2, <1>3
<1>11. \A a \in DOMAIN eir.http : Merged(eir.http[a], kind) # {} => a \in S
  <2>1. ASSUME NEW a \in DOMAIN eir.http, NEW p \in Merged(eir.http[a], kind) PROVE OfKind(eir.http[a], kind) # {}
    BY MergedIs DEF Countable, Owned
  <2> QED
    BY <2>1
<1>12. S \subseteq DOMAIN eir.http
  OBVIOUS
<1> HIDE DEF S
<1>13. ASSUME NEW l PROVE l \in ToSet(s) <=> \E a \in DOMAIN eir.http : \E p \in Merged(eir.http[a], kind) : l = <<a, p>>
  <2>1. ASSUME l \in ToSet(s) PROVE \E a \in DOMAIN eir.http : \E p \in Merged(eir.http[a], kind) : l = <<a, p>>
    <3>1. PICK n \in DOMAIN order : l \in ToSet(MergedOf(order[n], kind))
      BY <1>5, <1>9, <2>1
    <3>2. order[n] \in DOMAIN eir.http
      BY <1>3, <1>12
    <3> QED
      BY <1>4, <3>1, <3>2
  <2>2. ASSUME NEW a \in DOMAIN eir.http, NEW p \in Merged(eir.http[a], kind), l = <<a, p>> PROVE l \in ToSet(s)
    <3>1. PICK n \in DOMAIN order : order[n] = a
      BY <1>10, <1>11
    <3>2. l \in ToSet(MergedOf(a, kind))
      BY <1>4, <2>2
    <3> QED
      BY <1>5, <1>9, <3>1, <3>2
  <2> QED
    BY <2>1, <2>2
<1> QED
  BY <1>9, <1>13 DEF Listing

(* Two kinds, one after the other.                                          *)
LEMMA BothListed ==
  ASSUME NEW a, IsList(a), NEW b, IsList(b), NEW K, Listing(ToSet(a), K), NEW M, Listing(ToSet(b), M)
  PROVE  IsList(a \o b) /\ Listing(ToSet(a \o b), K \cup M)
<1> DEFINE X == ToSet(a) \cup ToSet(b)
<1>1. a \in Seq(ToSet(a)) /\ b \in Seq(ToSet(b)) /\ ToSet(a) \subseteq X /\ ToSet(b) \subseteq X
  BY ListShape
<1> HIDE DEF X
<1>2. a \in Seq(X) /\ b \in Seq(X)
  BY <1>1
<1>3. a \o b \in Seq(X) /\ ToSet(a \o b) = ToSet(a) \cup ToSet(b)
  BY <1>2, ConcatHolds
<1>4. IsList(a \o b)
  BY <1>3, SeqIsList
<1>5. \A l : l \in ToSet(a \o b) <=> l \in ToSet(a) \/ l \in ToSet(b)
  BY <1>3
<1>6. Listing(ToSet(a \o b), K \cup M)
  BY <1>5 DEF Listing
<1> QED
  BY <1>4, <1>6

NamesakeIn(http, k) ==
  \E a, b \in DOMAIN http : \E i \in 0..Len(http[a].rules), j \in 0..Len(http[b].rules) :
    /\ k \in {a, b} /\ a[1] = b[1] /\ <<a, i>> # <<b, j>>
    /\ PolicyName(a[2], i) = PolicyName(b[2], j)

(* A listed policy whose name no other route or rule needs.                 *)
LEMMA OwnName ==
  ASSUME Countable(eir.http), Owned(eir.http), NEW kinds, NEW L, Listing(L, kinds),
         NEW l \in L, NEW m \in L, NeededKey(l) = NeededKey(m), ~NamesakeIn(eir.http, l[1])
  PROVE  m[1] = l[1] /\ m[2][1] = l[2][1] /\ m[2][2] = l[2][2]
<1>1. \A n \in L : /\ n[1] \in DOMAIN eir.http /\ n[2] \in Merged(eir.http[n[1]], n[2][1])
                   /\ n[2][2] \in 0..Len(eir.http[n[1]].rules)
  <2>1. ASSUME NEW n \in L
        PROVE  /\ n[1] \in DOMAIN eir.http /\ n[2] \in Merged(eir.http[n[1]], n[2][1])
               /\ n[2][2] \in 0..Len(eir.http[n[1]].rules)
    <3>1. PICK kind \in kinds, a \in DOMAIN eir.http : \E p \in Merged(eir.http[a], kind) : n = <<a, p>>
      BY DEF Listing
    <3>2. PICK p \in Merged(eir.http[a], kind) : n = <<a, p>>
      BY <3>1
    <3>3. n[1] = a /\ n[2] = p /\ p[1] = kind /\ p[2] \in 0..Len(eir.http[a].rules)
      BY <3>2, MergedIs DEF Countable, Owned
    <3> QED
      BY <3>3
  <2> QED
    BY <2>1
<1>2. ASSUME NEW n \in L
      PROVE  NeededKey(n) = <<n[2][1], n[1][1], PolicyName(n[1][2], n[2][2])>>
  <2>1. Key(eir.http[n[1]]) = n[1]
    BY <1>1 DEF Owned
  <2>2. n[1][1] = eir.http[n[1]].ns /\ n[1][2] = eir.http[n[1]].name
    BY <2>1 DEF Key
  <2> QED
    BY <2>2 DEF NeededKey, PolicyKey
<1>3. l[2][1] = m[2][1] /\ l[1][1] = m[1][1] /\ PolicyName(l[1][2], l[2][2]) = PolicyName(m[1][2], m[2][2])
  BY <1>2
<1>4. <<l[1], l[2][2]>> = <<m[1], m[2][2]>>
  BY <1>1, <1>3 DEF NamesakeIn
<1> QED
  BY <1>3, <1>4

EnforcingAt(map, k, i, kind) ==
  {x \in DOMAIN map : x[1] = kind /\ map[x].target = k /\ map[x].section \in {<<>>, RuleName(i)}}

OneEach(e, kind) == \A p, q \in OfKind(e, kind) : p[2] = q[2] => p = q

Enforced(E, map, e, i, kind, kinds) ==
  /\ E = {} \/ \E x : E = {x}
  /\ E # {} <=> kind \in kinds /\ PolicyAt(e.policies, kind, i)
  /\ \A x \in E : \E q \in OfKind(e, kind) : map[x].from = q[3]

(* One resource at most is for a rule, and one if it has a policy.          *)
LEMMA EnforcedOnce ==
  ASSUME Countable(eir.http), Owned(eir.http), NEW kinds, NEW L, Listing(L, kinds), NEW map, ResourcesOf(map, L),
         NEW k \in DOMAIN eir.http, ~NamesakeIn(eir.http, k), NEW e, e = eir.http[k],
         NEW kind, OneEach(e, kind), NEW i \in 1..Len(e.rules), NEW E, E = EnforcingAt(map, k, i, kind)
  PROVE  Enforced(E, map, e, i, kind, kinds)
<1>1. /\ Len(e.rules) \in Nat /\ IsFiniteSet(e.policies) /\ Indexed(e) /\ Key(e) = k
      /\ \A p \in Merged(e, kind) : /\ p[1] = kind /\ p[2] \in 0..Len(e.rules)
                                    /\ \E q \in OfKind(e, kind) : q[3] = p[3]
      /\ AllMerged(e, kind) => Merged(e, kind) # {} /\ \A p \in Merged(e, kind) : p[2] = 0
      /\ ~AllMerged(e, kind) => Merged(e, kind) = OfKind(e, kind)
  BY MergedIs, ListShape DEF Countable, Owned
<1>3. \A j \in Nat \ {0} : RuleName(j) # <<>> /\ (RuleName(j) = RuleName(i) => j = i)
  BY DEF RuleName
<1>2. \A p \in OfKind(e, kind) : p[2] \in 1..Len(e.rules) /\ p \in e.policies /\ p[1] = kind
  BY <1>1 DEF OfKind, Indexed
(* What the listed policies for the route give rise to.                     *)
<1>5. ASSUME NEW x \in E
      PROVE  \E l \in L : /\ l[1] = k /\ l[2] \in Merged(e, kind) /\ kind \in kinds /\ l[2][2] \in {0, i}
                          /\ x = <<kind, e.ns, PolicyName(e.name, l[2][2])>>
                          /\ \E q \in OfKind(e, kind) : map[x].from = q[3]
  <2>1. x \in DOMAIN map /\ x[1] = kind /\ map[x].target = k /\ map[x].section \in {<<>>, RuleName(i)}
    BY <1>5 DEF EnforcingAt
  <2>2. ResourceOf(x, map[x], L)
    BY <2>1 DEF ResourcesOf
  <2>3. PICK l \in L : NeededKey(l) = x /\ map[x].target = Key(eir.http[l[1]]) /\ map[x].section = SectionOf(l[2])
    BY <2>2 DEF ResourceOf
  <2>4. PICK m \in L : NeededKey(m) = x /\ map[x].from = m[2][3]
    BY <2>2 DEF ResourceOf
  <2>5. \A n \in L : \E c \in kinds : n[1] \in DOMAIN eir.http /\ n[2] \in Merged(eir.http[n[1]], c)
    BY DEF Listing
  <2>6. l[1] = k
    BY <2>1, <2>3, <2>5 DEF Owned
  <2>7. PICK c \in kinds : l[2] \in Merged(e, c)
    BY <2>5, <2>6
  <2>8. l[2][1] = c
    BY <1>1, <2>7, MergedIs DEF Countable, Owned
  <2>9. x = <<l[2][1], e.ns, PolicyName(e.name, l[2][2])>>
    BY <2>3, <2>6 DEF NeededKey, PolicyKey
  <2>10. c = kind
    BY <2>1, <2>8, <2>9
  <2>11. l[2][2] \in 0..Len(e.rules)
    BY <1>1, <2>7, <2>10
  <2>12. l[2][2] \in {0, i}
    BY <1>3, <2>1, <2>3, <2>11 DEF SectionOf
  <2>13. m[1] = k /\ m[2][1] = kind
    BY <2>3, <2>4, <2>6, <2>8, <2>10, OwnName
  <2>14. m[2] \in Merged(e, kind)
    <3>1. PICK d \in kinds : m[2] \in Merged(e, d)
      BY <2>5, <2>13
    <3>2. d = kind
      BY <1>1, <2>13, <3>1, MergedIs DEF Countable, Owned
    <3> QED
      BY <3>1, <3>2
  <2>15. \E q \in OfKind(e, kind) : map[x].from = q[3]
    BY <1>1, <2>4, <2>14
  <2> QED
    BY <2>6, <2>7, <2>8, <2>9, <2>10, <2>12, <2>15
(* And the other way round.                                                 *)
<1>6. ASSUME NEW p \in Merged(e, kind), kind \in kinds, p[2] \in {0, i} PROVE E # {}
  <2> PICK l : l = <<k, p>>
    OBVIOUS
  <2>1. l \in L /\ l[1] = k /\ l[2] = p
    BY <1>6 DEF Listing
  <2> PICK x : x = NeededKey(l)
    OBVIOUS
  <2>2. x \in DOMAIN map /\ ResourceOf(x, map[x], L)
    BY <2>1 DEF ResourcesOf
  <2>3. PICK m \in L : NeededKey(m) = x /\ map[x].target = Key(eir.http[m[1]]) /\ map[x].section = SectionOf(m[2])
    BY <2>2 DEF ResourceOf
  <2>4. m[1] = k /\ m[2][2] = p[2]
    BY <2>1, <2>3, OwnName
  <2>5. map[x].target = k /\ map[x].section \in {<<>>, RuleName(i)}
    BY <1>1, <1>6, <2>3, <2>4 DEF SectionOf
  <2>6. x[1] = kind
    BY <1>1, <2>1 DEF NeededKey, PolicyKey
  <2> QED
    BY <2>2, <2>5, <2>6 DEF EnforcingAt
<1>7. E = {} \/ \E x : E = {x}
  <2>1. ASSUME NEW x \in E, NEW y \in E PROVE x = y
    <3>1. PICK l \in L : l[2] \in Merged(e, kind) /\ l[2][2] \in {0, i} /\ x = <<kind, e.ns, PolicyName(e.name, l[2][2])>>
      BY <1>5
    <3>2. PICK m \in L : m[2] \in Merged(e, kind) /\ m[2][2] \in {0, i} /\ y = <<kind, e.ns, PolicyName(e.name, m[2][2])>>
      BY <1>5
    <3>3. l[2][2] = m[2][2]
      BY <1>1, <1>2, <3>1, <3>2
    <3> QED
      BY <3>1, <3>2, <3>3
  <2>2. CASE E # {}
    <3>1. PICK x : x \in E
      BY <2>2
    <3>2. E = {x}
      BY <2>1, <3>1
    <3> QED
      BY <3>2
  <2> QED
    BY <2>2
<1>8. ASSUME E # {} PROVE kind \in kinds /\ PolicyAt(e.policies, kind, i)
  <2>1. PICK l \in L : l[2] \in Merged(e, kind) /\ kind \in kinds /\ l[2][2] \in {0, i}
    BY <1>5, <1>8
  <2>2. CASE AllMerged(e, kind)
    <3>1. Cardinality(OfKind(e, kind)) = Len(e.rules) /\ IsFiniteSet(OfKind(e, kind))
      <4>1. OfKind(e, kind) \in SUBSET e.policies
        BY DEF OfKind
      <4> QED
        BY <1>1, <2>2, <4>1, FS_Subset DEF AllMerged
    <3>2. \A j \in 1..Len(e.rules) : \E p \in OfKind(e, kind) : p[2] = j
      <4> PICK P : P = OfKind(e, kind)
        OBVIOUS
      <4>1. \A p \in P : p[2] \in 1..Len(e.rules)
        BY <1>2
      <4>2. \A p, q \in P : p[2] = q[2] => p = q
        BY DEF OneEach
      <4>3. \A j \in 1..Len(e.rules) : \E p \in P : p[2] = j
        BY <1>1, <3>1, <4>1, <4>2, AllCovered
      <4> QED
        BY <4>3
    <3> QED
      BY <1>2, <2>1, <3>2 DEF PolicyAt
  <2>3. CASE ~AllMerged(e, kind)
    BY <1>1, <1>2, <2>1, <2>3 DEF PolicyAt
  <2> QED
    BY <2>2, <2>3
<1>9. ASSUME kind \in kinds, PolicyAt(e.policies, kind, i) PROVE E # {}
  <2>1. PICK p \in OfKind(e, kind) : p[2] = i
    BY <1>9 DEF PolicyAt, OfKind
  <2>2. CASE AllMerged(e, kind)
    BY <1>1, <1>6, <1>9, <2>2
  <2>3. CASE ~AllMerged(e, kind)
    BY <1>1, <1>6, <1>9, <2>1, <2>3
  <2> QED
    BY <2>2, <2>3
<1> QED
  BY <1>5, <1>7, <1>8, <1>9 DEF Enforced

-----------------------------------------------------------------------------
(* What the last step leaves, and what is asked.                            *)
OwnKinds == {"captures", "ipRange", "bodySize"}

EnforcesOf(em) ==
  CASE em = "envoy-gateway" -> {"bodySize", "ipRange"}
    [] em = "kgateway" -> {"bodySize"}
    [] OTHER -> {}

EnforcingIn(http, ext, k, i, kind) ==
  {x \in DOMAIN ext : x[1] = kind /\ ext[x].target = k /\ ext[x].section \in {<<>>, http[k].rules[i].name}}

ToldOf(reports, k, i, kind) == \E w \in reports : w[1] = k /\ w[2][1] = kind /\ w[2][2] = i

AskedOf(r, i, kind) == \E a \in Speaking(r, i) : AsksFor(a, r, kind)

PolicyAsAsked(http, ext, reports, em, k, r, i, kind) ==
  /\ Cardinality(EnforcingIn(http, ext, k, i, kind)) = IF kind \in EnforcesOf(em) /\ AskedOf(r, i, kind) THEN 1 ELSE 0
  /\ \A x \in EnforcingIn(http, ext, k, i, kind) : AsksFor(Ann(ext[x].from), r, kind)
  /\ ToldOf(reports, k, i, kind) <=> AskedOf(r, i, kind) /\ (kind \notin EnforcesOf(em) \/ em = "kgateway")

RuleAsAsked(http, ext, reports, em, k, r, i) ==
  /\ \A kind \in FilterKinds(r) : HasFilter(http[k].rules[i], kind) <=> AskedOf(r, i, kind)
  /\ \A kind \in OwnKinds : PolicyAsAsked(http, ext, reports, em, k, r, i, kind)

AllAsAsked(http, ext, reports, em) ==
  \A k \in DOMAIN pir.http :
    Free(k) /\ ~NamesakeIn(http, k) =>
      \A i \in 1..Len(http[k].rules) :
        Cardinality(Speaking(pir.http[k], i)) <= 1 => RuleAsAsked(http, ext, reports, em, k, pir.http[k], i)

(* The resources and reports of an emitter for one rule and kind of policy. *)
Dealt(http, ext, reports, em, k, i, kind) ==
  LET E == EnforcingIn(http, ext, k, i, kind) IN
  /\ E = {} \/ \E x : E = {x}
  /\ E # {} <=> kind \in EnforcesOf(em) /\ PolicyAt(eir.http[k].policies, kind, i)
  /\ \A x \in E : \E q \in OfKind(eir.http[k], kind) : ext[x].from = q[3]
  /\ ToldOf(reports, k, i, kind) <=>
       PolicyAt(eir.http[k].policies, kind, i) /\ (kind \notin EnforcesOf(em) \/ em = "kgateway")

(* One policy of a kind for a rule.                                         *)
LEMMA OnePolicy ==
  ASSUME NEW r, GoodRoute(r), NEW tls, NEW e, FormParts(r, tls, e), NEW kind
  PROVE  OneEach(e, kind)
<1>1. ASSUME NEW p \in OfKind(e, kind), NEW q \in OfKind(e, kind), p[2] = q[2] PROVE p = q
  <2>1. p \in Policies(r) /\ q \in Policies(r) /\ p[1] = kind /\ q[1] = kind
    BY DEF OfKind, FormParts, Unapplied
  <2>2. PICK a \in PolicyKinds, i \in Places(r) :
          \E ing \in NonCanary(r.sources[i]) : AsksFor(Ann(ing), r, a) /\ p = <<a, i, ing>>
    BY <2>1, PoliciesAre
  <2>3. PICK x \in NonCanary(r.sources[i]) : p = <<a, i, x>>
    BY <2>2
  <2>4. PICK b \in PolicyKinds, j \in Places(r) :
          \E ing \in NonCanary(r.sources[j]) : AsksFor(Ann(ing), r, b) /\ q = <<b, j, ing>>
    BY <2>1, PoliciesAre
  <2>5. PICK y \in NonCanary(r.sources[j]) : q = <<b, j, y>>
    BY <2>4
  <2>6. i = j /\ a = kind /\ b = kind
    BY <1>1, <2>1, <2>3, <2>5
  <2>7. IsList(r.sources[i])
    BY ListShape DEF Places, GoodRoute
  <2>8. PICK id : NonCanary(r.sources[i]) = IF r.sources[i] = <<>> THEN {} ELSE {id}
    BY <2>7, NonCanaryIsOne
  <2>9. x = y
    BY <2>3, <2>5, <2>6, <2>8
  <2> QED
    BY <2>3, <2>5, <2>6, <2>9
<1> QED
  BY <1>1 DEF OneEach

(* One rule of a route.                                                     *)
LEMMA RuleIsAsAsked ==
  ASSUME NEW k, NEW r, GoodRoute(r), FormParts(r, pir.tls, eir.http[k]),
         NEW i \in DOMAIN eir.http[k].rules, Cardinality(Speaking(r, i)) <= 1,
         NEW http, http[k].rules[i].filters = eir.http[k].rules[i].filters,
         NEW ext, NEW reports, NEW em, \A kind \in OwnKinds : Dealt(http, ext, reports, em, k, i, kind)
  PROVE  RuleAsAsked(http, ext, reports, em, k, r, i)
<1> PICK e : e = eir.http[k]
  OBVIOUS
<1>1. FormParts(r, pir.tls, e) /\ i \in Nat \ {0}
  BY ListShape DEF FormParts, Shaped
<1>2. /\ \A kind \in PolicyKinds : PolicyAt(Policies(r), kind, i) <=> AskedOf(r, i, kind)
      /\ i \in DOMAIN r.rules /\ AsksHeaders(r, i) <=> AskedOf(r, i, "headers")
  BY <1>1, AskedIs DEF AskedOf
<1>3. ASSUME NEW kind \in FilterKinds(r) PROVE HasFilter(http[k].rules[i], kind) <=> AskedOf(r, i, kind)
  <2>1. HasFilter(http[k].rules[i], kind) <=> HasFilter(e.rules[i], kind)
    BY DEF HasFilter
  <2>2. CASE kind \in ToSet(AppliedKinds)
    <3>1. kind \in PolicyKinds
      BY <2>2, KindsAre DEF PolicyKinds
    <3>2. HasFilter(e.rules[i], kind) <=> PolicyAt(Policies(r), kind, i)
      BY <1>1, <2>2 DEF FormParts
    <3> QED
      BY <1>2, <2>1, <3>1, <3>2
  <2>3. CASE kind \notin ToSet(AppliedKinds)
    <3>1. kind = "headers" /\ Key(TLSRoute(r)) \notin DOMAIN pir.tls
      BY <2>3 DEF FilterKinds
    <3>2. HasFilter(e.rules[i], "headers") <=> i \in DOMAIN r.rules /\ AsksHeaders(r, i)
      BY <1>1, <3>1 DEF FormParts
    <3> QED
      BY <1>2, <2>1, <3>1, <3>2
  <2> QED
    BY <2>2, <2>3
<1>4. ASSUME NEW kind \in OwnKinds PROVE PolicyAsAsked(http, ext, reports, em, k, r, i, kind)
  <2> PICK E : E = EnforcingIn(http, ext, k, i, kind)
    OBVIOUS
  <2>1. /\ E = {} \/ \E x : E = {x}
        /\ E # {} <=> kind \in EnforcesOf(em) /\ PolicyAt(e.policies, kind, i)
        /\ \A x \in E : \E q \in OfKind(e, kind) : ext[x].from = q[3]
        /\ ToldOf(reports, k, i, kind) <=>
             PolicyAt(e.policies, kind, i) /\ (kind \notin EnforcesOf(em) \/ em = "kgateway")
    BY DEF Dealt
  <2>2. kind \in PolicyKinds /\ kind \notin ToSet(AppliedKinds)
    BY KindsAre DEF OwnKinds, PolicyKinds
  <2>3. e.policies = Unapplied(Policies(r))
    BY <1>1 DEF FormParts
  <2>4. PolicyAt(e.policies, kind, i) <=> AskedOf(r, i, kind)
    <3>1. PolicyAt(e.policies, kind, i) <=> PolicyAt(Policies(r), kind, i)
      BY <2>2, <2>3 DEF PolicyAt, Unapplied
    <3> QED
      BY <1>2, <2>2, <3>1
  <2>5. Cardinality(E) = IF kind \in EnforcesOf(em) /\ AskedOf(r, i, kind) THEN 1 ELSE 0
    <3>1. CASE E = {}
      BY <2>1, <2>4, <3>1, FS_EmptySet
    <3>2. CASE E # {}
      <4>1. PICK x : E = {x}
        BY <2>1, <3>2
      <4>2. Cardinality({x}) = 1
        BY FS_Singleton
      <4> QED
        BY <2>1, <2>4, <3>2, <4>1, <4>2
    <3> QED
      BY <3>1, <3>2
  <2>6. ASSUME NEW x \in E PROVE AsksFor(Ann(ext[x].from), r, kind)
    <3>1. PICK q \in OfKind(e, kind) : ext[x].from = q[3]
      BY <2>1
    <3>2. q \in Policies(r) /\ q[1] = kind
      BY <2>3 DEF OfKind, Unapplied
    <3>3. PICK c \in PolicyKinds, j \in Places(r) :
            \E ing \in NonCanary(r.sources[j]) : AsksFor(Ann(ing), r, c) /\ q = <<c, j, ing>>
      BY <3>2, PoliciesAre
    <3>4. PICK ing : AsksFor(Ann(ing), r, c) /\ q = <<c, j, ing>>
      BY <3>3
    <3>5. c = kind /\ ing = ext[x].from
      BY <3>1, <3>2, <3>4
    <3> QED
      BY <3>4, <3>5
  <2> QED
    BY <2>1, <2>4, <2>5, <2>6 DEF PolicyAsAsked
<1> QED
  BY <1>3, <1>4 DEF RuleAsAsked

-----------------------------------------------------------------------------
(* What the emitters do about a rule and a kind of policy.                  *)
Ready(http) == Countable(http) /\ Owned(http) /\ \A x \in DOMAIN http : Shaped(http[x])

(* What LogUnparsedErrors says.                                             *)
LEMMA UnparsedAre ==
  ASSUME NEW k \in DOMAIN eir.http, NEW i, NEW kind \in OwnKinds, NEW handled
  PROVE  ToldOf(Unparsed(handled), k, i, kind) <=> kind \notin handled /\ PolicyAt(eir.http[k].policies, kind, i)
<1>1. ASSUME ToldOf(Unparsed(handled), k, i, kind)
      PROVE  kind \notin handled /\ PolicyAt(eir.http[k].policies, kind, i)
  <2>1. PICK w \in Unparsed(handled) : w[1] = k /\ w[2][1] = kind /\ w[2][2] = i
    BY <1>1 DEF ToldOf
  <2>2. w \notin ServiceReports
    <3>1. ASSUME w \in ServiceReports PROVE FALSE
      <4>1. PICK s \in DOMAIN pir.services : w = <<s, <<"affinity", 0, pir.services[s]>>>>
        BY <3>1 DEF ServiceReports
      <4> QED
        BY <2>1, <4>1 DEF OwnKinds
    <3> QED
      BY <3>1
  <2>3. PICK a \in DOMAIN eir.http : w \in {<<a, p>> : p \in WithoutKinds(eir.http[a].policies, handled)}
    BY <2>1, <2>2 DEF Unparsed
  <2>4. PICK p \in WithoutKinds(eir.http[a].policies, handled) : w = <<a, p>>
    BY <2>3
  <2>5. a = k /\ p[1] = kind /\ p[2] = i
    BY <2>1, <2>4
  <2> QED
    BY <2>4, <2>5 DEF WithoutKinds, PolicyAt
<1>2. ASSUME kind \notin handled, PolicyAt(eir.http[k].policies, kind, i)
      PROVE  ToldOf(Unparsed(handled), k, i, kind)
  <2>1. PICK p \in eir.http[k].policies : p[1] = kind /\ p[2] = i
    BY <1>2 DEF PolicyAt
  <2> PICK w : w = <<k, p>>
    OBVIOUS
  <2>2. w \in {<<k, q>> : q \in WithoutKinds(eir.http[k].policies, handled)}
    BY <1>2, <2>1 DEF WithoutKinds
  <2>3. w \in Unparsed(handled)
    BY <2>2 DEF Unparsed
  <2>4. w[1] = k /\ w[2][1] = kind /\ w[2][2] = i
    BY <2>1
  <2> QED
    BY <2>3, <2>4 DEF ToldOf
<1> QED
  BY <1>1, <1>2

(* Reports put together.                                                    *)
LEMMA ToldBoth ==
  ASSUME NEW A, NEW B, NEW k, NEW i, NEW kind
  PROVE  ToldOf(A \cup B, k, i, kind) <=> ToldOf(A, k, i, kind) \/ ToldOf(B, k, i, kind)
BY DEF ToldOf

(* The rules of a route are as many as before.                              *)
LEMMA NamesakesStay ==
  ASSUME NEW http, NEW new, DOMAIN new = DOMAIN http,
         \A x \in DOMAIN http : IsList(http[x].rules) /\ IsList(new[x].rules) /\ DOMAIN new[x].rules = DOMAIN http[x].rules,
         NEW k
  PROVE  NamesakeIn(new, k) <=> NamesakeIn(http, k)
<1>1. \A x \in DOMAIN http : Len(new[x].rules) = Len(http[x].rules)
  <2>1. ASSUME NEW s, NEW t, IsList(s), IsList(t), DOMAIN s = DOMAIN t PROVE Len(s) = Len(t)
    <3>1. DOMAIN s = 1..Len(s) /\ DOMAIN t = 1..Len(t) /\ Len(s) \in Nat /\ Len(t) \in Nat
      BY <2>1, ListShape
    <3> PICK m \in Nat, n \in Nat : m = Len(s) /\ n = Len(t)
      BY <3>1
    <3>2. 1..m = 1..n
      BY <2>1, <3>1
    <3>3. m # 0 => m \in 1..n
      BY <3>2
    <3>4. n # 0 => n \in 1..m
      BY <3>2
    <3> QED
      BY <3>3, <3>4
  <2> QED
    BY <2>1
<1> QED
  BY <1>1 DEF NamesakeIn

(* The resources of listed policies are for rules by the names they got.    *)
LEMMA ListedDealt ==
  ASSUME Ready(eir.http), NEW kinds, NEW s, IsList(s), Listing(ToSet(s), kinds), NEW ext, ext = BuiltFrom(s),
         NEW em, EnforcesOf(em) = kinds, NEW k \in DOMAIN eir.http, ~NamesakeIn(eir.http, k),
         NEW kind, OneEach(eir.http[k], kind), NEW i \in DOMAIN eir.http[k].rules,
         NEW http, http[k].rules[i].name = RuleName(i), NEW reports,
         ToldOf(reports, k, i, kind) <=>
           PolicyAt(eir.http[k].policies, kind, i) /\ (kind \notin EnforcesOf(em) \/ em = "kgateway")
  PROVE  Dealt(http, ext, reports, em, k, i, kind)
<1> PICK L : L = ToSet(s)
  OBVIOUS
<1>1. ResourcesOf(ext, L) /\ Listing(L, kinds) /\ Countable(eir.http) /\ Owned(eir.http)
  BY BuiltAll DEF Ready
<1> PICK e : e = eir.http[k]
  OBVIOUS
<1> PICK E : E = EnforcingAt(ext, k, i, kind)
  OBVIOUS
<1>2. i \in 1..Len(e.rules)
  BY ListShape DEF Ready, Shaped
<1>3. Enforced(E, ext, e, i, kind, kinds)
  <2>1. OneEach(e, kind)
    OBVIOUS
  <2> QED
    BY <1>1, <1>2, <2>1, EnforcedOnce
<1>4. E = EnforcingIn(http, ext, k, i, kind)
  BY DEF EnforcingAt, EnforcingIn
<1> QED
  BY <1>3, <1>4 DEF Dealt, Enforced

(* No resources.                                                            *)
LEMMA UnlistedDealt ==
  ASSUME NEW ext, \A x \in DOMAIN ext : x[1] \notin OwnKinds, NEW em, EnforcesOf(em) = {},
         NEW k, NEW kind \in OwnKinds, NEW i, NEW http, NEW reports,
         ToldOf(reports, k, i, kind) <=> PolicyAt(eir.http[k].policies, kind, i)
  PROVE  Dealt(http, ext, reports, em, k, i, kind)
<1>1. EnforcingIn(http, ext, k, i, kind) = {}
  BY DEF EnforcingIn
<1> QED
  BY <1>1 DEF Dealt

(* The last step leaves the routes with their rules.                        *)
LEMMA LastLeaves ==
  ASSUME Ready(eir.http), LastStep
  PROVE  /\ DOMAIN eir'.http = DOMAIN eir.http
         /\ \A x \in DOMAIN eir.http :
              /\ IsList(eir'.http[x].rules) /\ DOMAIN eir'.http[x].rules = DOMAIN eir.http[x].rules
              /\ \A i \in DOMAIN eir.http[x].rules : eir'.http[x].rules[i].filters = eir.http[x].rules[i].filters
<1>1. ASSUME NEW x \in DOMAIN eir.http
      PROVE  /\ IsList(eir'.http[x].rules) /\ DOMAIN eir'.http[x].rules = DOMAIN eir.http[x].rules
             /\ \A i \in DOMAIN eir.http[x].rules : eir'.http[x].rules[i].filters = eir.http[x].rules[i].filters
  <2> PICK e : e = eir.http[x]
    OBVIOUS
  <2> PICK new : new = eir'.http[x]
    OBVIOUS
  <2>1. Shaped(e)
    BY DEF Ready
  <2>2. PICK P : new = Standard(e) \/ new = WithPolicies(Emitted(e), P)
    BY DEF LastStep, WithPolicies
  <2>3. RulesKept(e, new)
    <3>1. CASE new = Standard(e)
      BY <2>1, <3>1, LastRules
    <3>2. CASE new = WithPolicies(Emitted(e), P)
      BY <2>1, <3>2, LastRules
    <3> QED
      BY <2>2, <3>1, <3>2
  <2> QED
    BY <2>3 DEF RulesKept
<1> QED
  BY <1>1 DEF LastStep

(* All emitters but the standard one name the rules.                        *)
LEMMA RulesNamed ==
  ASSUME Ready(eir.http), NEW handled, NEW new, new = WithRules(handled)
  PROVE  /\ DOMAIN new = DOMAIN eir.http
         /\ \A x \in DOMAIN eir.http : \A i \in DOMAIN eir.http[x].rules : new[x].rules[i].name = RuleName(i)
<1>1. ASSUME NEW x \in DOMAIN eir.http PROVE \A i \in DOMAIN eir.http[x].rules : new[x].rules[i].name = RuleName(i)
  <2> PICK e : e = eir.http[x]
    OBVIOUS
  <2> PICK P : P = WithoutKinds(Emitted(e).policies, handled)
    OBVIOUS
  <2> PICK q : q = new[x]
    OBVIOUS
  <2>1. Shaped(e)
    BY DEF Ready
  <2>2. q = WithPolicies(Emitted(e), P)
    BY DEF WithRules, WithPolicies
  <2>3. RulesNumbered(e, q)
    BY <2>1, <2>2, LastRules
  <2> QED
    BY <2>3 DEF RulesNumbered
<1> QED
  BY <1>1 DEF WithRules

(* Every emitter deals with every policy of its own kind.                   *)
LEMMA StepsDealt ==
  ASSUME Ready(eir.http), DOMAIN eir = {"gateways", "http"}, extensions = <<>>, warnings = {},
         \/ StandardEmit /\ emitter' = "standard" /\ UNCHANGED <<extensions, warnings>>
         \/ EnvoyGatewayEmit \/ KgatewayEmit \/ AgentgatewayEmit \/ AirlockEmit,
         NEW k \in DOMAIN eir.http, ~NamesakeIn(eir.http, k), NEW kind \in OwnKinds, OneEach(eir.http[k], kind),
         NEW i \in DOMAIN eir.http[k].rules
  PROVE  Dealt(eir'.http, extensions', unparsed' \cup warnings', emitter', k, i, kind)
<1> PICK http : http = eir'.http
  OBVIOUS
<1> PICK ext : ext = extensions'
  OBVIOUS
<1> PICK reports : reports = unparsed' \cup warnings'
  OBVIOUS
<1> PICK e : e = eir.http[k]
  OBVIOUS
<1>1. Countable(eir.http) /\ Owned(eir.http)
  BY DEF Ready
<1>2. /\ ToldOf(reports, k, i, kind) <=> ToldOf(unparsed', k, i, kind) \/ ToldOf(warnings', k, i, kind)
      /\ ~ToldOf({}, k, i, kind)
  BY ToldBoth DEF ToldOf
<1>3. \A x \in DOMAIN <<>> : x[1] \notin OwnKinds
  BY EmptyList
<1>4. CASE StandardEmit /\ emitter' = "standard" /\ UNCHANGED <<extensions, warnings>>
  <2>1. unparsed' = Unparsed({})
    <3>1. \A P : WithoutKinds(P, {}) = P
      BY DEF WithoutKinds
    <3> QED
      BY <1>4, <3>1 DEF StandardEmit, Unparsed
  <2>2. ToldOf(reports, k, i, kind) <=> PolicyAt(e.policies, kind, i)
    BY <1>2, <1>4, <2>1, UnparsedAre
  <2>3. EnforcesOf("standard") = {} /\ ext = <<>>
    BY <1>4 DEF EnforcesOf
  <2>4. Dealt(http, ext, reports, "standard", k, i, kind)
    BY <1>3, <2>2, <2>3, UnlistedDealt
  <2> QED
    BY <1>4, <2>4
<1>5. CASE EnvoyGatewayEmit
  <2>1. emitter' = "envoy-gateway" /\ unparsed' = Unparsed({"bodySize", "ipRange"}) /\ warnings' = {}
        /\ http = WithRules({"bodySize", "ipRange"})
    BY <1>5 DEF EnvoyGatewayEmit, Emits
  <2>2. PICK sizes \in Orders("bodySize"), ranges \in Orders("ipRange") :
          ext = BuiltFrom(InOrder("bodySize", sizes) \o InOrder("ipRange", ranges))
    BY <1>5 DEF EnvoyGatewayEmit
  <2> PICK a : a = InOrder("bodySize", sizes)
    OBVIOUS
  <2> PICK b : b = InOrder("ipRange", ranges)
    OBVIOUS
  <2>3. IsList(a) /\ Listing(ToSet(a), {"bodySize"}) /\ IsList(b) /\ Listing(ToSet(b), {"ipRange"})
    BY <1>1, InOrderIs
  <2> PICK s : s = a \o b
    OBVIOUS
  <2>4. IsList(s) /\ Listing(ToSet(s), {"bodySize"} \cup {"ipRange"})
    BY <2>3, BothListed
  <2>5. {"bodySize"} \cup {"ipRange"} = EnforcesOf("envoy-gateway") /\ EnforcesOf("envoy-gateway") = {"bodySize", "ipRange"}
    BY DEF EnforcesOf
  <2>6. ToldOf(reports, k, i, kind) <=> PolicyAt(e.policies, kind, i) /\ kind \notin EnforcesOf("envoy-gateway")
    BY <1>2, <2>1, <2>5, UnparsedAre
  <2>7. http[k].rules[i].name = RuleName(i)
    BY <2>1, RulesNamed
  <2>8. Dealt(http, ext, reports, "envoy-gateway", k, i, kind)
    BY <2>2, <2>4, <2>5, <2>6, <2>7, ListedDealt
  <2> QED
    BY <2>1, <2>8
<1>6. CASE KgatewayEmit
  <2>1. emitter' = "kgateway" /\ unparsed' = Unparsed({}) /\ warnings' = {} /\ http = WithRules({})
    BY <1>6 DEF KgatewayEmit, Emits
  <2>2. PICK sizes \in Orders("bodySize") : ext = BuiltFrom(InOrder("bodySize", sizes))
    BY <1>6 DEF KgatewayEmit
  <2> PICK s : s = InOrder("bodySize", sizes)
    OBVIOUS
  <2>3. IsList(s) /\ Listing(ToSet(s), {"bodySize"})
    BY <1>1, InOrderIs
  <2>4. EnforcesOf("kgateway") = {"bodySize"}
    BY DEF EnforcesOf
  <2>5. ToldOf(reports, k, i, kind) <=> PolicyAt(e.policies, kind, i)
    BY <1>2, <2>1, UnparsedAre
  <2>6. http[k].rules[i].name = RuleName(i)
    BY <2>1, RulesNamed
  <2>7. Dealt(http, ext, reports, "kgateway", k, i, kind)
    BY <2>2, <2>3, <2>4, <2>5, <2>6, ListedDealt
  <2> QED
    BY <2>1, <2>7
<1>7. CASE AgentgatewayEmit
  <2> PICK told : told = warnings'
    OBVIOUS
  <2>1. /\ emitter' = "agentgateway" /\ unparsed' = Unparsed({"bodySize"}) /\ ext = <<>>
        /\ told = UNION {{<<a, p>> : p \in OfKind(eir.http[a], "bodySize")} : a \in DOMAIN eir.http}
    BY <1>7 DEF AgentgatewayEmit, Emits
  <2>2. ToldOf(told, k, i, kind) <=> kind = "bodySize" /\ PolicyAt(e.policies, kind, i)
    <3>1. ASSUME ToldOf(told, k, i, kind) PROVE kind = "bodySize" /\ PolicyAt(e.policies, kind, i)
      <4>1. PICK w \in told : w[1] = k /\ w[2][1] = kind /\ w[2][2] = i
        BY <3>1 DEF ToldOf
      <4>2. PICK a \in DOMAIN eir.http : w \in {<<a, p>> : p \in OfKind(eir.http[a], "bodySize")}
        BY <2>1, <4>1
      <4>3. PICK p \in OfKind(eir.http[a], "bodySize") : w = <<a, p>>
        BY <4>2
      <4>4. a = k /\ p[1] = kind /\ p[2] = i
        BY <4>1, <4>3
      <4> QED
        BY <4>3, <4>4 DEF OfKind, PolicyAt
    <3>2. ASSUME kind = "bodySize", PolicyAt(e.policies, kind, i) PROVE ToldOf(told, k, i, kind)
      <4>1. PICK p \in e.policies : p[1] = kind /\ p[2] = i
        BY <3>2 DEF PolicyAt
      <4> PICK w : w = <<k, p>>
        OBVIOUS
      <4>2. w \in {<<k, q>> : q \in OfKind(eir.http[k], "bodySize")}
        BY <3>2, <4>1 DEF OfKind
      <4>3. w \in told /\ w[1] = k /\ w[2][1] = kind /\ w[2][2] = i
        BY <2>1, <4>1, <4>2
      <4> QED
        BY <4>3 DEF ToldOf
    <3> QED
      BY <3>1, <3>2
  <2>3. ToldOf(reports, k, i, kind) <=> PolicyAt(e.policies, kind, i)
    BY <1>2, <2>1, <2>2, UnparsedAre
  <2>4. EnforcesOf("agentgateway") = {}
    BY DEF EnforcesOf
  <2>5. Dealt(http, ext, reports, "agentgateway", k, i, kind)
    BY <1>3, <2>1, <2>3, <2>4, UnlistedDealt
  <2> QED
    BY <2>1, <2>5
<1>8. CASE AirlockEmit
  <2> PICK told : told = warnings'
    OBVIOUS
  <2>1. /\ emitter' = "airlock-microgateway" /\ unparsed' = Unparsed({})
        /\ told = {<<a, <<"TLSRoute", 0>>>> : a \in DOMAIN pir.tls} \cup {<<a, <<"GRPCRoute", 0>>>> : a \in DOMAIN pir.grpc}
    BY <1>8 DEF AirlockEmit, Emits
  <2>2. \A x \in DOMAIN ext : x[1] \notin OwnKinds
    <3> DEFINE Name(g) == IF g \in DOMAIN eir.gateways THEN g ELSE <<"", "">>
               Params(g) == <<"params", Name(g)[1], <<Name(g)[2], "params">>>>
    <3>1. ext = [x \in {Params(g) : g \in RegexGateways} |->
                   [target |-> <<x[2], x[3][1]>>, section |-> <<>>, from |-> <<>>]]
      BY <1>8 DEF AirlockEmit
    <3>2. \A x \in DOMAIN ext : \E g \in RegexGateways : x = Params(g)
      BY <3>1
    <3>3. ASSUME NEW x \in DOMAIN ext PROVE x[1] = "params"
      <4>1. PICK g \in RegexGateways : x = Params(g)
        BY <3>2
      <4> PICK a : a = Name(g)[1]
        OBVIOUS
      <4> PICK b : b = <<Name(g)[2], "params">>
        OBVIOUS
      <4>2. x = <<"params", a, b>>
        BY <4>1
      <4> QED
        BY <4>2
    <3> QED
      BY <3>3 DEF OwnKinds
  <2>3. ~ToldOf(told, k, i, kind)
    <3>1. \A w \in told : w[2][1] \in {"TLSRoute", "GRPCRoute"}
      BY <2>1
    <3> QED
      BY <3>1 DEF ToldOf, OwnKinds
  <2>4. ToldOf(reports, k, i, kind) <=> PolicyAt(e.policies, kind, i)
    BY <1>2, <2>1, <2>3, UnparsedAre
  <2>5. EnforcesOf("airlock-microgateway") = {}
    BY DEF EnforcesOf
  <2>6. Dealt(http, ext, reports, "airlock-microgateway", k, i, kind)
    BY <2>2, <2>4, <2>5, UnlistedDealt
  <2> QED
    BY <2>1, <2>6
<1> QED
  BY <1>4, <1>5, <1>6, <1>7, <1>8

-----------------------------------------------------------------------------
(* The passes keep policies with their rules, and routes by their names.    *)
Owning(x, e) == Key(e) = x /\ Indexed(e)

(* Route by route.                                                          *)
LEMMA OwnedByEach ==
  ASSUME NEW http
  PROVE  Owned(http) <=> \A x \in DOMAIN http : Owning(x, http[x])
BY DEF Owned, Owning

(* A route without policies.                                                *)
LEMMA NoneIndexed ==
  ASSUME NEW e, e.policies = {}
  PROVE  Indexed(e)
BY DEF Indexed

(* A route with more rules, bound or not.                                   *)
LEMMA OwningMore ==
  ASSUME NEW x, NEW e, Shaped(e), Owning(x, e), NEW rules, ShapedRules(rules), DOMAIN e.rules \subseteq DOMAIN rules,
         NEW port, NEW section
  PROVE  Owning(x, Reruled(e, rules)) /\ Owning(x, Bound(Reruled(e, rules), port, section))
<1> PICK main : main = Reruled(e, rules)
  OBVIOUS
<1> PICK b : b = Bound(main, port, section)
  OBVIOUS
<1>1. DOMAIN e = EmitParts /\ IsList(e.rules) /\ IsList(rules)
  BY DEF Shaped, ShapedRules
<1>2. /\ DOMAIN main = EmitParts /\ main.ns = e.ns /\ main.name = e.name /\ main.rules = rules
      /\ main.policies = e.policies
  BY <1>1 DEF EmitParts, Reruled
<1>3. b.ns = e.ns /\ b.name = e.name /\ b.rules = rules /\ b.policies = e.policies
  BY <1>2 DEF Bound, EmitParts
<1>4. 1..Len(e.rules) \subseteq 1..Len(rules)
  BY <1>1, ListShape
<1>5. \A q : q.ns = e.ns /\ q.name = e.name /\ q.rules = rules /\ q.policies = e.policies => Owning(x, q)
  BY <1>4 DEF Owning, Indexed, Key
<1> QED
  BY <1>2, <1>3, <1>5

(* ApplyPolicies.                                                           *)
LEMMA PoliciesOwned ==
  ASSUME RoutesGood, ApplyPolicies
  PROVE  Owned(eir'.http)
<1> DEFINE e == ToEmitterIR(pir)
           f == [k \in DOMAIN e.http |-> WithPolicies(e.http[k], Policies(pir.http[k]))]
<1>1. eir' = [e EXCEPT !.http = f]
  BY DEF ApplyPolicies
<1>2. DOMAIN e = {"gateways", "http"} /\ DOMAIN e.http = DOMAIN pir.http
  BY DEF ToEmitterIR
<1>3. ASSUME NEW k \in DOMAIN pir.http
      PROVE  WithPolicies(e.http[k], Policies(pir.http[k])) = Emittable(pir.http[k])
  <2>1. e.http[k] = [ns |-> pir.http[k].ns, name |-> pir.http[k].name, host |-> pir.http[k].host,
                     rules |-> pir.http[k].rules, policies |-> {},
                     refs |-> <<[gateway |-> pir.http[k].parent, port |-> 0, section |-> <<>>]>>]
    BY DEF ToEmitterIR
  <2> HIDE DEF e
  <2> QED
    BY <2>1 DEF WithPolicies, Emittable
<1> HIDE DEF e
<1>4. DOMAIN f = DOMAIN pir.http /\ \A k \in DOMAIN pir.http : f[k] = Emittable(pir.http[k])
  BY <1>2, <1>3
<1> HIDE DEF f
<1>5. eir'.http = f
  BY <1>1, <1>2
<1>6. ASSUME NEW k \in DOMAIN pir.http PROVE Owning(k, f[k])
  <2> PICK r : r = pir.http[k]
    OBVIOUS
  <2> PICK q : q = f[k]
    OBVIOUS
  <2>1. Key(r) = k /\ IsList(r.rules)
    BY DEF RoutesGood, ShapedRules
  <2>2. q = Emittable(r)
    BY <1>4
  <2>3. q.ns = r.ns /\ q.name = r.name /\ q.rules = r.rules /\ q.policies = Policies(r)
    BY <2>2 DEF Emittable
  <2>4. \A p \in Policies(r) : p[2] \in 1..Len(r.rules) /\ p = <<p[1], p[2], p[3]>>
    BY <2>1, PoliciesPlaced, ListShape
  <2> QED
    BY <2>1, <2>3, <2>4 DEF Owning, Indexed, Key
<1> QED
  BY <1>4, <1>5, <1>6, OwnedByEach

(* addSSLAndTrailingSlashRedirects.                                         *)
LEMMA RedirectsOwned ==
  ASSUME NEW http, Owned(http), NEW r, NEW k, k = Key(r), k \in DOMAIN http, Shaped(http[k]), IsList(r.sources),
         NEW new, new = WithRedirects(http, r)
  PROVE  Owned(new)
<1>a. PICK old : old = http[k]
  OBVIOUS
<1>b. PICK rules : rules = old.rules \o SlashRules(old.rules, "slash")
  OBVIOUS
<1>c. PICK slash : slash = SlashRules(old.rules, "https slash")
  OBVIOUS
<1>d. PICK main : main = Reruled(old, rules)
  OBVIOUS
<1>e. PICK plain : plain = PlainRoute(r, rules, slash)
  OBVIOUS
<1>f. PICK section : section = ListenerName(old.host, "https")
  OBVIOUS
<1>g. PICK bound : bound = Bound(main, 443, section)
  OBVIOUS
<1>1. Shaped(old) /\ Owning(k, old) /\ ShapedRules(old.rules)
  BY <1>a, ShapedByRules, OwnedByEach
<1>2. ShapedRules(rules) /\ ShapedRules(slash) /\ DOMAIN old.rules \subseteq DOMAIN rules
  <2>s. PICK s : s = SlashRules(old.rules, "slash")
    OBVIOUS
  <2>r. PICK rs : rs = old.rules
    OBVIOUS
  <2>1. ShapedRules(s) /\ ShapedRules(slash)
    BY <1>1, <1>c, <2>s, SlashRulesAre
  <2>2. rules = rs \o s
    BY <1>b, <2>r, <2>s
  <2>3. ShapedRules(rs)
    BY <1>1, <2>r
  <2>4. ShapedRules(rules) /\ \A i \in DOMAIN rs : i \in DOMAIN rules
    BY <2>1, <2>2, <2>3, RulesJoined
  <2> QED
    BY <2>1, <2>4, <2>r
<1>3. Owning(k, main) /\ Owning(k, bound)
  BY <1>1, <1>2, <1>d, <1>g, OwningMore
<1>4. Owning(Key(plain), plain)
  BY <1>2, <1>e, PlainShaped, NoneIndexed DEF PlainParts, Owning
<1>5. new = IF ~SplitsOff(r, rules) THEN [http EXCEPT ![k] = main]
            ELSE [x \in DOMAIN http \cup {Key(plain)} |->
                    CASE x = k -> bound [] x # k /\ x = Key(plain) -> plain [] OTHER -> http[x]]
  BY <1>a, <1>b, <1>c, <1>d, <1>e, <1>f, <1>g, ZenonT(30) DEF WithRedirects, Reruled
<1>6. \A x \in DOMAIN http : Owning(x, http[x])
  BY OwnedByEach
<1>7. CASE ~SplitsOff(r, rules)
  <2>1. DOMAIN new = DOMAIN http /\ \A x \in DOMAIN http : new[x] = IF x = k THEN main ELSE http[x]
    BY <1>5, <1>7
  <2>2. \A x \in DOMAIN new : Owning(x, new[x])
    BY <1>3, <1>6, <2>1
  <2> QED
    BY <2>2, OwnedByEach
<1>8. CASE SplitsOff(r, rules)
  <2> PICK y : y = Key(plain)
    OBVIOUS
  <2>1. new = [x \in DOMAIN http \cup {y} |->
                    CASE x = k -> bound [] x # k /\ x = y -> plain [] OTHER -> http[x]]
    BY <1>5, <1>8
  <2>2. /\ DOMAIN new = DOMAIN http \cup {y}
        /\ \A x \in DOMAIN new : \/ x = k /\ new[x] = bound
                                 \/ x = y /\ new[x] = plain
                                 \/ x \in DOMAIN http /\ new[x] = http[x]
    BY <2>1
  <2>3. \A x \in DOMAIN new : Owning(x, new[x])
    BY <1>3, <1>4, <1>6, <2>2
  <2> QED
    BY <2>3, OwnedByEach
<1> QED
  BY <1>7, <1>8

(* addWWWRedirect.                                                          *)
LEMMA WWWOwned ==
  ASSUME Passing(phase, left, wwwErrors, eir), AddWWWRedirect, Owned(eir.http)
  PROVE  Owned(eir'.http)
<1>1. PICK k \in left : eir' = IF WWWMade(pir.http[k]) THEN WithWWW(eir, pir.http[k]) ELSE eir
  BY DEF AddWWWRedirect, WWWMade
<1> PICK r : r = pir.http[k]
  OBVIOUS
<1> PICK www : www = WWWRoute(r)
  OBVIOUS
<1> PICK http : http = eir.http
  OBVIOUS
<1> PICK new : new = eir'.http
  OBVIOUS
<1>2. Owning(Key(www), www)
  BY WWWIsShaped, NoneIndexed DEF Owning
<1>3. \A x \in DOMAIN http : Owning(x, http[x])
  BY OwnedByEach
<1>4. CASE WWWMade(r)
  <2>1. new = [x \in DOMAIN http \cup {Key(www)} |-> IF x = Key(www) THEN www ELSE http[x]]
    BY <1>1, <1>4 DEF WithWWW
  <2>2. \A x \in DOMAIN new : Owning(x, new[x])
    BY <1>2, <1>3, <2>1
  <2> QED
    BY <2>2, OwnedByEach
<1>5. CASE ~WWWMade(r)
  BY <1>1, <1>5
<1> QED
  BY <1>4, <1>5

(* The common emitter.                                                      *)
LEMMA CommonOwned ==
  ASSUME Passing(phase, left, wwwErrors, eir), CommonEmit, Owned(eir.http)
  PROVE  Owned(eir'.http) /\ DOMAIN eir'.http = DOMAIN eir.http
         /\ \A x \in DOMAIN eir.http : eir'.http[x] = Applied(eir.http[x])
<1> PICK http : http = eir.http
  OBVIOUS
<1> PICK new : new = eir'.http
  OBVIOUS
<1>1. new = [x \in DOMAIN http |-> Applied(http[x])]
  BY DEF CommonEmit, Passing
<1>2. ASSUME NEW x \in DOMAIN http PROVE Owning(x, new[x])
  <2> PICK q : q = http[x]
    OBVIOUS
  <2> PICK e : e = new[x]
    OBVIOUS
  <2>1. Shaped(q) /\ Owning(x, q) /\ e = Applied(q)
    BY <1>1, OwnedByEach DEF Passing, AllNamed, CommonEmit
  <2>2. Like(q, e) /\ Shaped(e)
    BY <2>1, AppliedLike
  <2>3. e.name = q.name /\ e.policies = Unapplied(q.policies)
    BY <2>1, AppliedRules
  <2>4. e.ns = q.ns /\ 1..Len(e.rules) = 1..Len(q.rules)
    BY <2>1, <2>2, ListShape DEF Like, Shaped
  <2> QED
    BY <2>1, <2>3, <2>4 DEF Owning, Indexed, Key, Unapplied
<1> QED
  BY <1>1, <1>2, OwnedByEach

(* The common emitter gets a free route as the redirect passes left it.     *)
LEMMA CommonCollects ==
  ASSUME RoutesGood, Passing(phase, left, wwwErrors, eir), CommonEmit,
         DOMAIN eir'.http = DOMAIN eir.http, \A x \in DOMAIN eir.http : eir'.http[x] = Applied(eir.http[x])
  PROVE  Collected(eir'.http)
<1>1. phase = "www" /\ left = {}
  BY DEF CommonEmit
<1>2. AllFollowed(eir.http, "www", {}, wwwErrors)
  BY <1>1 DEF Passing
<1>3. ASSUME NEW k \in DOMAIN pir.http, Free(k) PROVE eir'.http[k] = Applied(MainForm(pir.http[k]))
  <2> PICK r : r = pir.http[k]
    OBVIOUS
  <2>1. Key(r) = k /\ Followed(r, eir.http, "www", {}, wwwErrors)
    BY <1>2, <1>3 DEF AllFollowed, RoutesGood
  <2>2. As(MainForm(r), k, eir.http, "www")
    BY <2>1 DEF Followed, Rerouted
  <2>3. k \in DOMAIN eir.http /\ eir.http[k] = MainForm(r)
    BY <2>2 DEF As
  <2> QED
    BY <2>3
<1> QED
  BY <1>3 DEF Collected

(* The passes make finitely many routes.                                    *)
LEMMA RoutesFinite ==
  ASSUME IInv, ShapesInv, SitesInv, stage = "converted", NEW http, NEW ph, AllNamed(http, ph)
  PROVE  IsFiniteSet(DOMAIN http)
<1>1. pc = "done" /\ errors = {} /\ DOMAIN pir.http \subseteq DOMAIN ir.http
  BY DEF SitesInv, AfterCanary
<1>2. IsFiniteSet(DOMAIN pir.http)
  <2>1. IsFiniteSet(DOMAIN ir.http) /\ DOMAIN pir.http \in SUBSET DOMAIN ir.http
    BY <1>1, StoredNamed DEF NamedBy
  <2> QED
    BY <2>1, FS_Subset
<1> DEFINE T == {NamesOf(pir.http[k]) : k \in DOMAIN pir.http}
<1>3. IsFiniteSet(T)
  <2> DEFINE h == [k \in DOMAIN pir.http |-> NamesOf(pir.http[k])]
  <2>1. h \in Surjection(DOMAIN pir.http, T)
    BY DEF Surjection
  <2> QED
    BY <1>2, <2>1, FS_Surjection
<1>4. ASSUME NEW r PROVE IsFiniteSet(NamesOf(r))
  <2> PICK a : a = Key(r)
    OBVIOUS
  <2> PICK b : b = <<r.ns, r.name \o <<"http">>>>
    OBVIOUS
  <2> PICK c : c = Key(WWWRoute(r))
    OBVIOUS
  <2>1. NamesOf(r) = {a, b, c}
    BY DEF NamesOf
  <2>2. IsFiniteSet({a}) /\ IsFiniteSet({b}) /\ IsFiniteSet({c})
    BY FS_Singleton
  <2>3. IsFiniteSet({a} \cup {b})
    BY <2>2, FS_Union
  <2>4. IsFiniteSet(({a} \cup {b}) \cup {c})
    BY <2>2, <2>3, FS_Union
  <2>5. NamesOf(r) = ({a} \cup {b}) \cup {c}
    BY <2>1
  <2> QED
    BY <2>4, <2>5
<1>5. IsFiniteSet(UNION T)
  <2>1. \A t \in T : IsFiniteSet(t)
    BY <1>4
  <2> HIDE DEF T
  <2> QED
    BY <1>3, <2>1, FS_UNION
<1>6. DOMAIN http \in SUBSET UNION T
  BY DEF AllNamed
<1> HIDE DEF T
<1> QED
  BY <1>5, <1>6, FS_Subset

(* So the last step deals with all policies of free routes.                 *)
LEMMA LastAsked ==
  ASSUME IInv, ShapesInv, NginxInv, SitesInv, EmitInv, HeadedInv, stage = "converted", phase = "common",
         extensions = <<>>, warnings = {}, Owned(eir.http), Collected(eir.http),
         \/ StandardEmit /\ emitter' = "standard" /\ UNCHANGED <<extensions, warnings>>
         \/ EnvoyGatewayEmit \/ KgatewayEmit \/ AgentgatewayEmit \/ AirlockEmit
  PROVE  AllAsAsked(eir'.http, extensions', unparsed' \cup warnings', emitter')
<1> PICK http : http = eir'.http
  OBVIOUS
<1> PICK ext : ext = extensions'
  OBVIOUS
<1> PICK reports : reports = unparsed' \cup warnings'
  OBVIOUS
<1> PICK em : em = emitter'
  OBVIOUS
<1>1. RoutesGood /\ DOMAIN eir = {"gateways", "http"} /\ AllNamed(eir.http, "common")
  BY ConvertedRoutes DEF EmitInv, Passing
<1>2. IsFiniteSet(DOMAIN eir.http)
  BY <1>1, RoutesFinite
<1>3. \A x \in DOMAIN eir.http : Shaped(eir.http[x])
  BY <1>1 DEF AllNamed
<1>4. Ready(eir.http)
  BY <1>2, <1>3 DEF Ready, Countable, Shaped
<1>5. LastStep
  BY <1>1, EmittersLast
<1>6. /\ DOMAIN http = DOMAIN eir.http
      /\ \A x \in DOMAIN eir.http :
              /\ IsList(http[x].rules) /\ DOMAIN http[x].rules = DOMAIN eir.http[x].rules
              /\ \A i \in DOMAIN eir.http[x].rules : http[x].rules[i].filters = eir.http[x].rules[i].filters
  BY <1>4, <1>5, LastLeaves
<1>7. \A k : NamesakeIn(http, k) <=> NamesakeIn(eir.http, k)
  <2>1. \A x \in DOMAIN eir.http : IsList(eir.http[x].rules)
    BY <1>3 DEF Shaped
  <2> QED
    BY <1>6, <2>1, NamesakesStay
<1>8. ASSUME NEW k \in DOMAIN pir.http, Free(k), ~NamesakeIn(http, k), NEW i \in 1..Len(http[k].rules),
             Cardinality(Speaking(pir.http[k], i)) <= 1
      PROVE  RuleAsAsked(http, ext, reports, em, k, pir.http[k], i)
  <2> PICK r : r = pir.http[k]
    OBVIOUS
  <2>1. k \in DOMAIN eir.http /\ eir.http[k] = Applied(MainForm(r)) /\ GoodRoute(r)
    BY <1>1, <1>8 DEF Collected, AllNamed, NginxInv
  <2>2. ShapedRules(r.rules) /\ IsList(r.sources)
    BY <1>1 DEF RoutesGood
  <2>3. Headed(r, pir.tls, TRUE)
    BY DEF HeadedInv, HeadersSet, AfterCanary, AfterRedirect
  <2>4. FormParts(r, pir.tls, eir.http[k])
    BY <2>1, <2>2, <2>3, AppliedForm
  <2>5. i \in DOMAIN eir.http[k].rules
    BY <1>6, <1>8, <2>1, ListShape
  <2>6. \A kind : OneEach(eir.http[k], kind)
    BY <2>1, <2>4, OnePolicy
  <2>7. \A kind \in OwnKinds : Dealt(http, ext, reports, em, k, i, kind)
    BY <1>1, <1>4, <1>7, <1>8, <2>1, <2>5, <2>6, StepsDealt
  <2>8. http[k].rules[i].filters = eir.http[k].rules[i].filters
    BY <1>6, <2>1, <2>5
  <2> QED
    BY <1>8, <2>1, <2>4, <2>5, <2>7, <2>8, RuleIsAsAsked
<1> QED
  BY <1>8 DEF AllAsAsked

-----------------------------------------------------------------------------
(* The policies from ToIR to the resources.                                 *)
PolicyInv ==
  /\ phase # "done" => extensions = <<>> /\ warnings = {}
  /\ stage = "converted" =>
       /\ phase \in {"redirects", "www", "common"} => Owned(eir.http)
       /\ phase = "common" => Collected(eir.http)
       /\ phase = "done" => AllAsAsked(eir.http, extensions, unparsed \cup warnings, emitter)

(* The annotations that speak for a rule stay those they are.               *)
LEMMA SpeakingStays ==
  ASSUME UNCHANGED vars
  PROVE  \A r, i : Speaking(r, i)' = Speaking(r, i)
<1>2. \A id : Ann(id)' = Ann(id)
  BY FlowsStay
<1>3. ASSUME NEW CONSTANT r, NEW CONSTANT i PROVE Speaking(r, i)' = Speaking(r, i)
  <2> DEFINE S == IF i > Len(r.rules) THEN {} ELSE ToSet(r.sources[i])
             A == {Ann(s.ing) : s \in S}
  <2>1. A' = A
    BY <1>2
  <2>2. Speaking(r, i) = IF \A a \in A : a.canary THEN A ELSE {a \in A : ~a.canary}
    BY DEF Speaking
  <2>3. (Speaking(r, i) = IF \A a \in A : a.canary THEN A ELSE {a \in A : ~a.canary})'
    BY DEF Speaking
  <2> HIDE DEF A
  <2> QED
    BY <2>1, <2>2, <2>3
<1> QED
  BY <1>3

(* What an annotation asks of a route stays what it is.                     *)
LEMMA AsksForStays ==
  ASSUME UNCHANGED vars
  PROVE  \A a, r, kind : AsksFor(a, r, kind)' <=> AsksFor(a, r, kind)
<1>1. input' = input
  BY DEF vars
<1>2. RegexHosts' = RegexHosts
  BY <1>1 DEF RegexHosts
<1> QED
  BY <1>2 DEF AsksFor

(* The kinds the filters of a route are of stay what they are.              *)
LEMMA FilterKindsStay ==
  ASSUME pir' = pir
  PROVE  \A r : FilterKinds(r)' = FilterKinds(r)
<1> QED
  BY DEF FilterKinds, TLSRoute, Key

(* A key that is free stays free.                                           *)
LEMMA FreeStays ==
  ASSUME pir' = pir
  PROVE  \A k : Free(k)' <=> Free(k)
<1> QED
  BY DEF Free

(* What has been dealt with stays so.                                       *)
LEMMA AllStays ==
  ASSUME UNCHANGED <<vars, nginxVars>>, AllAsAsked(eir'.http, extensions', unparsed' \cup warnings', emitter')
  PROVE  AllAsAsked(eir.http, extensions, unparsed \cup warnings, emitter)'
<1>0. UNCHANGED vars /\ pir' = pir
  BY DEF nginxVars
<1>1. /\ \A r, i : Speaking(r, i)' = Speaking(r, i)
      /\ \A a, r, kind : AsksFor(a, r, kind)' <=> AsksFor(a, r, kind)
      /\ \A r : FilterKinds(r)' = FilterKinds(r)
      /\ \A id : Ann(id)' = Ann(id)
      /\ \A k : Free(k)' <=> Free(k)
  BY <1>0, FlowsStay, SpeakingStays, AsksForStays, FilterKindsStay, FreeStays
<1>2. \A r, i, kind : AskedOf(r, i, kind)' <=> AskedOf(r, i, kind)
  BY <1>1 DEF AskedOf
<1>3. ASSUME NEW CONSTANT k, NEW CONSTANT r, NEW CONSTANT i, NEW CONSTANT kind,
             PolicyAsAsked(eir'.http, extensions', unparsed' \cup warnings', emitter', k, r, i, kind)
      PROVE  PolicyAsAsked(eir.http, extensions, unparsed \cup warnings, emitter, k, r, i, kind)'
  BY <1>1, <1>2, <1>3 DEF PolicyAsAsked, EnforcingIn, EnforcesOf, ToldOf
<1>4. ASSUME NEW CONSTANT k, NEW CONSTANT r, NEW CONSTANT i,
             RuleAsAsked(eir'.http, extensions', unparsed' \cup warnings', emitter', k, r, i)
      PROVE  RuleAsAsked(eir.http, extensions, unparsed \cup warnings, emitter, k, r, i)'
  BY <1>1, <1>2, <1>3, <1>4 DEF RuleAsAsked, HasFilter, OwnKinds
<1> QED
  BY <1>0, <1>1, <1>4 DEF AllAsAsked, NamesakeIn

(* Where the policies are stays so.                                         *)
LEMMA OwnedStays ==
  ASSUME UNCHANGED <<vars, nginxVars>>
  PROVE  /\ Owned(eir'.http) => Owned(eir.http)'
         /\ Collected(eir'.http) => Collected(eir.http)'
<1>1. UNCHANGED vars /\ pir' = pir
  BY DEF nginxVars
<1>2. (\A r : MainForm(r)' = MainForm(r)) /\ \A k : Free(k)' <=> Free(k)
  BY <1>1, FormsStay, FreeStays
<1>3. Owned(eir'.http) => Owned(eir.http)'
  BY DEF Owned, Indexed, Key
<1>4. ASSUME Collected(eir'.http) PROVE Collected(eir.http)'
  <2>1. \A e : Applied(e)' = Applied(e)
    BY DEF Applied
  <2> QED
    BY <1>1, <1>2, <1>4, <2>1 DEF Collected
<1> QED
  BY <1>3, <1>4

(* Every step of ToIR and the emitters keeps it.                            *)
LEMMA PolicyStep ==
  ASSUME IInv, ShapesInv, NginxInv, FlowsInv, SitesInv, EmitInv, HeadedInv, PolicyInv, [EmittersNext]_emittersVars
  PROVE  PolicyInv'
<1>1. phase # "convert" /\ stage = "converted" => Passing(phase, left, wwwErrors, eir) /\ RoutesGood
  BY ConvertedRoutes DEF EmitInv
<1>2. CASE UNCHANGED emittersVars
  <2>1. /\ UNCHANGED <<vars, nginxVars>> /\ stage' = stage /\ phase' = phase /\ eir' = eir
        /\ extensions' = extensions /\ warnings' = warnings /\ unparsed' = unparsed /\ emitter' = emitter
    BY <1>2 DEF emittersVars, allVars, emitVars, customVars, nginxVars
  <2>2. ASSUME stage = "converted", phase = "done"
        PROVE  AllAsAsked(eir.http, extensions, unparsed \cup warnings, emitter)'
    <3>1. AllAsAsked(eir'.http, extensions', unparsed' \cup warnings', emitter')
      BY <2>1, <2>2 DEF PolicyInv
    <3> QED
      BY <2>1, <3>1, AllStays
  <2>3. /\ Owned(eir.http) => Owned(eir.http)'
        /\ Collected(eir.http) => Collected(eir.http)'
    BY <2>1, OwnedStays
  <2> QED
    BY <2>1, <2>2, <2>3 DEF PolicyInv
<1>3. CASE NginxNext /\ UNCHANGED emitVars /\ UNCHANGED <<extensions, warnings>>
  <2>1. phase = "convert"
    BY <1>3, Terminal DEF EmitInv
  <2>2. phase' = phase
    BY <1>3 DEF emitVars
  <2> QED
    BY <1>3, <2>1, <2>2 DEF PolicyInv
<1>4. CASE /\ ApplyPolicies \/ AddRedirects \/ StartWWW \/ AddWWWRedirect \/ RejectWWW \/ CommonEmit
           /\ UNCHANGED <<extensions, warnings>>
  <2>1. UNCHANGED <<vars, nginxVars>> /\ stage' = stage
    BY <1>4 DEF ApplyPolicies, AddRedirects, StartWWW, AddWWWRedirect, RejectWWW, CommonEmit, nginxVars
  <2>2. phase # "done" /\ phase' \in {"redirects", "www", "common"}
    BY <1>4 DEF ApplyPolicies, AddRedirects, StartWWW, AddWWWRedirect, RejectWWW, CommonEmit
  <2>3. ASSUME stage = "converted" PROVE Owned(eir'.http) /\ (phase' = "common" => Collected(eir'.http))
    <3>1. CASE ApplyPolicies
      <4>1. phase' = "redirects"
        BY <3>1 DEF ApplyPolicies
      <4> QED
        BY <2>3, <3>1, <4>1, ConvertedRoutes, PoliciesOwned
    <3>2. CASE AddRedirects
      <4>1. phase = "redirects" /\ phase' = "redirects"
        BY <3>2 DEF AddRedirects
      <4>2. Passing(phase, left, wwwErrors, eir) /\ RoutesGood /\ Owned(eir.http)
        BY <1>1, <2>3, <4>1 DEF PolicyInv
      <4>3. PICK k \in left : eir' = [eir EXCEPT !.http = WithRedirects(@, pir.http[k])]
        BY <3>2 DEF AddRedirects
      <4> PICK http : http = eir.http
        OBVIOUS
      <4> PICK r : r = pir.http[k]
        OBVIOUS
      <4> PICK new : new = WithRedirects(http, r)
        OBVIOUS
      <4>4. eir'.http = new
        BY <4>2, <4>3 DEF Passing
      <4>5. k = Key(r) /\ k \in DOMAIN http /\ Shaped(http[k]) /\ IsList(r.sources) /\ Owned(http)
        BY <4>1, <4>2 DEF Passing, AllNamed, RoutesGood
      <4>6. Owned(new)
        BY <4>5, RedirectsOwned
      <4> QED
        BY <4>1, <4>4, <4>6
    <3>3. CASE StartWWW \/ RejectWWW
      <4>1. phase \in {"redirects", "www"} /\ phase' = "www" /\ eir' = eir
        BY <3>3 DEF StartWWW, RejectWWW
      <4> QED
        BY <2>3, <4>1 DEF PolicyInv
    <3>4. CASE AddWWWRedirect
      <4>1. phase = "www" /\ phase' = "www"
        BY <3>4 DEF AddWWWRedirect
      <4> QED
        BY <1>1, <2>3, <3>4, <4>1, WWWOwned DEF PolicyInv
    <3>5. CASE CommonEmit
      <4>1. phase = "www"
        BY <3>5 DEF CommonEmit
      <4>2. Passing(phase, left, wwwErrors, eir) /\ RoutesGood /\ Owned(eir.http)
        BY <1>1, <2>3, <4>1 DEF PolicyInv
      <4> QED
        BY <3>5, <4>2, CommonOwned, CommonCollects
    <3> QED
      BY <1>4, <3>1, <3>2, <3>3, <3>4, <3>5
  <2>4. stage = "converted" => Owned(eir.http)' /\ (phase' = "common" => Collected(eir.http)')
    BY <2>1, <2>3, OwnedStays
  <2> QED
    BY <1>4, <2>1, <2>2, <2>4 DEF PolicyInv
<1>5. CASE \/ StandardEmit /\ emitter' = "standard" /\ UNCHANGED <<extensions, warnings>>
           \/ EnvoyGatewayEmit \/ KgatewayEmit \/ AgentgatewayEmit \/ AirlockEmit
  <2>1. phase = "common" /\ phase' = "done" /\ UNCHANGED <<vars, nginxVars>>
    BY <1>5 DEF StandardEmit, EnvoyGatewayEmit, KgatewayEmit, AgentgatewayEmit, AirlockEmit, Emits
  <2>2. stage' = stage
    BY <2>1 DEF nginxVars
  <2>3. ASSUME stage = "converted" PROVE AllAsAsked(eir.http, extensions, unparsed \cup warnings, emitter)'
    <3>1. extensions = <<>> /\ warnings = {} /\ Owned(eir.http) /\ Collected(eir.http)
      BY <2>1, <2>3 DEF PolicyInv
    <3>2. AllAsAsked(eir'.http, extensions', unparsed' \cup warnings', emitter')
      BY <1>5, <2>1, <2>3, <3>1, LastAsked
    <3> QED
      BY <2>1, <3>2, AllStays
  <2> QED
    BY <2>1, <2>2, <2>3 DEF PolicyInv
<1>6. EmitNext /\ emitter' = (IF phase' = "done" THEN "standard" ELSE "") /\ UNCHANGED <<extensions, warnings>> =>
        \/ NginxNext /\ UNCHANGED emitVars /\ UNCHANGED <<extensions, warnings>>
        \/ /\ ApplyPolicies \/ AddRedirects \/ StartWWW \/ AddWWWRedirect \/ RejectWWW \/ CommonEmit
           /\ UNCHANGED <<extensions, warnings>>
        \/ StandardEmit /\ emitter' = "standard" /\ UNCHANGED <<extensions, warnings>>
  <2>1. StandardEmit => phase' = "done"
    BY DEF StandardEmit
  <2> QED
    BY <2>1 DEF EmitNext
<1> QED
  BY <1>2, <1>3, <1>4, <1>5, <1>6 DEF EmittersNext

(* For every input, emitter and order.                                      *)
LEMMA PolicyInvariant == EmittersSpec => []PolicyInv
<1>1. EmittersInit => PolicyInv
  BY DEF EmittersInit, EmitInit, PolicyInv
<1>2. EmittersSpec /\ [](IInv /\ ShapesInv /\ NginxInv /\ FlowsInv /\ SitesInv /\ EmitInv /\ HeadedInv) => []PolicyInv
  BY <1>1, PolicyStep, PTL DEF EmittersSpec
<1> QED
  BY <1>2, EmittersConvert, Invariant, ShapesInvariant, NginxInvariant, FlowsInvariant, SitesInvariant,
     EmitInvariant, HeadedInvariant, PTL

(* Printed, this is what the rules get.                                     *)
LEMMA RulesStep ==
  ASSUME PrintedParts, PolicyInv, Printed
  PROVE  RulesWhereAsked
<1>1. RoutesGood /\ AllAsAsked(eir.http, extensions, unparsed \cup warnings, emitter)
  BY DEF PrintedParts, PolicyInv, Printed
<1>2. SUFFICES ASSUME NEW k \in DOMAIN pir.http, NEW r, r = pir.http[k], Clear(r), ~PolicyNamesake(k),
                      NEW i \in 1..Len(eir.http[k].rules), Cardinality(Speaking(r, i)) <= 1
               PROVE  /\ \A kind \in FilterKinds(r) : Filtered(k, i, kind) <=> \E a \in Speaking(r, i) : AsksFor(a, r, kind)
                      /\ \A kind \in OwnKinds :
                           LET asked == \E a \in Speaking(r, i) : AsksFor(a, r, kind) IN
                           /\ Cardinality(Enforcing(k, i, kind)) = IF kind \in Enforces /\ asked THEN 1 ELSE 0
                           /\ \A x \in Enforcing(k, i, kind) : AsksFor(Ann(extensions[x].from), r, kind)
                           /\ Told(k, i, kind) <=> asked /\ (kind \notin Enforces \/ emitter = "kgateway")
  BY DEF RulesWhereAsked, OwnKinds
<1>3. Free(k)
  BY <1>1, <1>2, ClearIsFree
<1>4. ~NamesakeIn(eir.http, k)
  BY <1>2 DEF PolicyNamesake, NamesakeIn
<1>5. RuleAsAsked(eir.http, extensions, unparsed \cup warnings, emitter, k, r, i)
  BY <1>1, <1>2, <1>3, <1>4 DEF AllAsAsked
<1>6. \A kind : /\ Filtered(k, i, kind) <=> HasFilter(eir.http[k].rules[i], kind)
                /\ AskedOf(r, i, kind) <=> \E a \in Speaking(r, i) : AsksFor(a, r, kind)
                /\ Enforcing(k, i, kind) = EnforcingIn(eir.http, extensions, k, i, kind)
                /\ Told(k, i, kind) <=> ToldOf(unparsed \cup warnings, k, i, kind)
  BY DEF Filtered, HasFilter, AskedOf, Enforcing, EnforcingIn, Told, ToldOf
<1>7. Enforces = EnforcesOf(emitter)
  BY DEF Enforces, EnforcesOf
<1> QED
  BY <1>5, <1>6, <1>7 DEF RuleAsAsked, PolicyAsAsked

(* Rules that get the policies their Ingresses ask for.  Whatever the       *)
(* emitter, a policy of an ingress-nginx Ingress holds for the rules it     *)
(* speaks for and for no others: as a filter, as one custom resource of an  *)
(* emitter that has one, or the user is told.  The TLC runs check it along  *)
(* with what Services get, as PoliciesWhereAsked.                           *)
THEOREM RulesGetPolicies == EmittersSpec => [](Printed => RulesWhereAsked)
<1>1. IInv /\ ShapesInv /\ NginxInv /\ SitesInv /\ EmitInv /\ PolicyInv => (Printed => RulesWhereAsked)
  BY PrintedPasses, RulesStep
<1> QED
  BY <1>1, EmittersConvert, Invariant, ShapesInvariant, NginxInvariant, SitesInvariant, EmitInvariant,
     PolicyInvariant, PTL

=============================================================================
