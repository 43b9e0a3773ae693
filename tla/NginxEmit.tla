------------------------------ MODULE NginxEmit ------------------------------
(***************************************************************************)
(* The rest of the way of an ingress-nginx route: Provider.ToIR after      *)
(* convert (policies per rule, HTTPS and trailing slash redirects, www     *)
(* redirects), the common emitter and the standard emitter.                *)
(*                                                                         *)
(* A policy is a kind, a rule index and the Ingress it is read from; of    *)
(* the annotation values only their validity counts.  A path that ends in  *)
(* a slash ends in an empty segment.  A filter starts with its kind; a     *)
(* request timeout is listed with the filters.                             *)
(***************************************************************************)
EXTENDS IngressNginx

VARIABLES
  phase,     \* the pass that comes next
  left,      \* routes of pir that this pass still has to visit
  eir,       \* the EmitterIR, in the end the Gateway API resources
  wwwErrors, \* errors of addWWWRedirect
  unparsed   \* policies reported by LogUnparsedErrors

emitVars == <<phase, left, eir, wwwErrors, unparsed>>

allVars == <<vars, nginxVars, emitVars>>

-----------------------------------------------------------------------------
(* ToEmitterIR and the policies by rule index                              *)

ToEmitterIR(p) ==
  [gateways |-> p.gateways,
   http |-> [k \in DOMAIN p.http |->
     [ns |-> p.http[k].ns, name |-> p.http[k].name, host |-> p.http[k].host,
      rules |-> p.http[k].rules, policies |-> {},
      refs |-> <<[gateway |-> p.http[k].parent, port |-> 0, section |-> <<>>]>>]]]

(* Policies of a kind are read rule by rule from the Ingress that speaks   *)
(* for the rule.                                                           *)
ByRule(r, kind, Asks(_)) ==
  UNION {{<<kind, i, ing>> : ing \in {x \in NonCanary(r.sources[i]) : Asks(Ann(x))}} :
    i \in {n \in 1..Len(r.rules) : n <= Len(r.sources)}}

(* A rewrite with capture groups on a regex host is kept, never applied.   *)
Rewrites(r) ==
  ByRule(r, "captures", LAMBDA a : a.rewrite /\ a.captures /\ r.host \in RegexHosts)
    \cup ByRule(r, "rewrite", LAMBDA a : a.rewrite /\ ~(a.captures /\ r.host \in RegexHosts))

IPRangeControls(r) == ByRule(r, "ipRange", LAMBDA a : a.ipRange)

(* An invalid timeout is skipped, the others stand.                        *)
Timeouts(r) == ByRule(r, "timeouts", LAMBDA a : "valid" \in a.timeouts)

CorsPolicies(r) == ByRule(r, "cors", LAMBDA a : a.cors)

(* One invalid size is enough to skip both.                                *)
BodySizes(r) == ByRule(r, "bodySize", LAMBDA a : a.bodySize = {"valid"})

Policies(r) == Rewrites(r) \cup IPRangeControls(r) \cup Timeouts(r) \cup CorsPolicies(r) \cup BodySizes(r)

-----------------------------------------------------------------------------
(* addSSLAndTrailingSlashRedirects                                         *)

(* The first TLS entry without hosts stands for all hosts of the Ingress,  *)
(* and entries after it are not read.                                      *)
TLSHosts(ing) ==
  LET bare == FirstIn({i \in 1..Len(ing.tls) : ing.tls[i].hosts = <<>>})
      read == {i \in 1..Len(ing.tls) : bare = 0 \/ i < bare}
  IN UNION {ToSet(ing.tls[i].hosts) : i \in read}
       \cup IF bare = 0 THEN {} ELSE {rule.host : rule \in ToSet(ing.rules)} \ {NoHost}

(* A route without a host has no hostname to be found by.                  *)
HostsWithTLS == UNION {TLSHosts(ing) : ing \in ToSet(input.list)} \ {NoHost}

PrefixTypes == {"Prefix", "ImplementationSpecific"}

(* pathPrefixCovers: by segment; "/a/" covers "/a/b" and not "/a".         *)
Covers(prefix, path) ==
  \/ IsPrefix(prefix, path)
  \/ prefix # <<>> /\ Last(prefix) = "" /\ IsStrictPrefix(Front(prefix), path)

LiteralMatches(rules) ==
  FlattenSeq([i \in 1..Len(rules) |->
    Keep(rules[i].matches, {m \in ToSet(rules[i].matches) : m.type \in {"Exact"} \cup PrefixTypes})])

Slashed(path) == path # <<>> /\ Last(path) = ""

(* Once each, the paths of these matches without their last slash.         *)
WithoutSlash(matches) == Firsts([i \in DOMAIN matches |-> Front(matches[i].path)])

(* Mutant: a path that a prefix covers is redirected all the same.         *)
SlashSourcesUncovered(rules) ==
  LET matches == LiteralMatches(rules)
      Open(path) == \A m \in ToSet(matches) : m.path # path
  IN WithoutSlash(Keep(matches, {m \in ToSet(matches) : Slashed(m.path) /\ Open(Front(m.path))}))

(* Is there a rule for the path?                                           *)
IsServed(matches, path) ==
  \E m \in ToSet(matches) : m.path = path \/ (m.type \in PrefixTypes /\ Covers(m.path, path))

(* What buildTrailingSlashRedirectRules redirects: the paths that get a    *)
(* slash and that no rule covers without it.                               *)
SlashSources(rules) ==
  LET matches == LiteralMatches(rules)
  IN WithoutSlash(Keep(matches, {m \in ToSet(matches) :
                                   Slashed(m.path) /\ ~IsServed(matches, Front(m.path))}))

SlashRules(rules, target) ==
  [i \in 1..Len(SlashSources(rules)) |->
     [matches  |-> <<[type |-> "Exact", path |-> SlashSources(rules)[i], header |-> <<>>]>>,
      filters  |-> <<<<"redirect", target>>>>, backends |-> <<>>]]

(* Anything but a true ssl-redirect annotation turns the redirect off.     *)
Upgrades(ing) == Ann(ing).sslRedirect \in {"", "true"}

Speakers(r, i) == NonCanary(r.sources[i])

Upgraded(r, i) == \E ing \in Speakers(r, i) : Upgrades(ing)

(* The rules for port 80: redirects to HTTPS, and copies of the rules      *)
(* whose Ingress turns the redirect off.                                   *)
PlainRules(r, rules) ==
  FlattenSeq([i \in 1..Len(r.sources) |->
    CASE Speakers(r, i) = {} \/ i > Len(rules) -> <<>>
      [] Speakers(r, i) # {} /\ i <= Len(rules) /\ Upgraded(r, i) ->
           <<[matches |-> rules[i].matches, filters |-> <<<<"redirect", "https">>>>, backends |-> <<>>]>>
      [] OTHER -> <<rules[i]>>])

(* Mutant: the original route stays on all listeners.                      *)
Unbound(r, port, section) == r

(* Mutant: the original route goes to port 80 like its redirects.          *)
BoundTo80(r, port, section) ==
  [r EXCEPT !.refs = [n \in 1..Len(@) |-> [@[n] EXCEPT !.port = 80]]]

BoundRef(ref, port, section) == [ref EXCEPT !.port = port, !.section = section]

Bound(r, port, section) ==
  [r EXCEPT !.refs = [n \in 1..Len(@) |-> BoundRef(@[n], port, section)]]

(* The route for port 80, where rules and slash are those of the original. *)
PlainRoute(r, rules, slash) ==
  [ns |-> r.ns, name |-> r.name \o <<"http">>, host |-> r.host, policies |-> {},
   rules |-> PlainRules(r, rules) \o slash,
   refs |-> <<[gateway |-> r.parent, port |-> 80, section |-> <<>>]>>]

SplitsOff(r, rules) ==
  r.host \in HostsWithTLS /\ \E i \in 1..Len(r.sources) : i <= Len(rules) /\ Upgraded(r, i)

(* The visit of one route.  A host with TLS and a rule to upgrade get a    *)
(* route of their own on port 80, and the original moves to port 443 and   *)
(* the HTTPS listener of its host.                                         *)
WithRedirects(routes, r) ==
  LET k     == Key(r)
      rules == routes[k].rules \o SlashRules(routes[k].rules, "slash")
      main  == [routes[k] EXCEPT !.rules = rules]
      plain == PlainRoute(r, rules, SlashRules(routes[k].rules, "https slash"))
  IN IF ~SplitsOff(r, rules) THEN [routes EXCEPT ![k] = main]
     ELSE [x \in DOMAIN routes \cup {Key(plain)} |->
             CASE x = k -> Bound(main, 443, ListenerName(routes[k].host, "https"))
               [] x # k /\ x = Key(plain) -> plain
               [] OTHER -> routes[x]]

-----------------------------------------------------------------------------
(* addWWWRedirect                                                          *)

WWWOf(r) ==
  UNION {{<<i, ing>> : ing \in {x \in Speakers(r, i) : Ann(x).www # ""}} : i \in 1..Len(r.sources)}

BadWWW(r) == \E s \in WWWOf(r) : Ann(s[2]).www = "bad"

(* The last rule whose Ingress has the annotation decides.                 *)
AsksWWW(r) ==
  \E s \in WWWOf(r) : Ann(s[2]).www = "true" /\ \A o \in WWWOf(r) : o[1] <= s[1]

(* The name that redirects: without "www." if the host has it, else with.  *)
OtherName(host) ==
  IF ~host.wild /\ Len(host.labels) > 1 /\ Head(host.labels) = <<"www">>
  THEN LET rest == Tail(host.labels) IN
       IF Head(rest) = <<"*">> THEN [wild |-> TRUE, labels |-> Tail(rest)]
       ELSE [wild |-> FALSE, labels |-> rest]
  ELSE [wild |-> FALSE,
        labels |-> <<<<"www">>>> \o (IF host.wild THEN <<<<"*">>>> ELSE <<>>) \o host.labels]

(* Dots become dashes.                                                     *)
Dashed(host) == IF host.wild THEN <<"*">> \o FlattenSeq(host.labels) ELSE FlattenSeq(host.labels)

WWWRoute(r) ==
  LET src == OtherName(r.host) IN
  [ns |-> r.ns, name |-> <<"00">> \o r.name \o Dashed(src) \o <<"www", "redirect">>,
   host |-> src, policies |-> {},
   rules |-> <<[matches |-> <<>>, filters |-> <<<<"redirect host", r.host>>>>, backends |-> <<>>]>>,
   refs |-> <<[gateway |-> r.parent, port |-> 80, section |-> Append(Dashed(src), "http")],
              [gateway |-> r.parent, port |-> 443, section |-> Append(Dashed(src), "https")]>>]

(* Mutant: any listener of the host counts.                                *)
ListensAnywhere(ls, host, port) == \E l \in ToSet(ls) : l.host = host /\ l.mode = "Terminate"

Listens(ls, host, port) == \E l \in ToSet(ls) : l.host = host /\ l.port = port /\ l.mode = "Terminate"

(* The listeners of the other name, HTTPS with the certificates of the     *)
(* host; each only if it is missing.                                       *)
WithWWWListeners(ls, r) ==
  LET src == OtherName(r.host)
      New(port, scheme, certs) ==
        <<[name |-> Append(Dashed(src), scheme), host |-> src, port |-> port, certs |-> certs,
           mode |-> "Terminate"]>>
      certs == UNION {l.certs : l \in {x \in ToSet(ls) : x.host = r.host /\ x.port = 443}}
  IN ls \o (IF Listens(ls, src, 80) THEN <<>> ELSE New(80, "http", {}))
        \o (IF Listens(ls, src, 443) \/ ~Listens(ls, r.host, 443) THEN <<>> ELSE New(443, "https", certs))

WithWWW(e, r) ==
  LET www == WWWRoute(r)
      gw  == <<r.ns, r.parent>>
  IN [gateways |-> [g \in DOMAIN e.gateways |->
        IF g = gw THEN WithWWWListeners(e.gateways[g], r) ELSE e.gateways[g]],
      http |-> [x \in DOMAIN e.http \cup {Key(www)} |-> IF x = Key(www) THEN www ELSE e.http[x]]]

-----------------------------------------------------------------------------
(* The emitters                                                            *)

AppliedKinds == <<"timeouts", "rewrite", "cors">>

FiltersOf(policies, i) ==
  FlattenSeq([n \in 1..Len(AppliedKinds) |->
    SetToSeq({<<p[1], p[3]>> : p \in {q \in policies : q[1] = AppliedKinds[n] /\ q[2] = i}})])

WithFilters(rule, filters) == [rule EXCEPT !.filters = @ \o filters]

(* applyTCPTimeouts, applyPathRewrites and applyCorsPolicies.              *)
Applied(r) ==
  [r EXCEPT !.rules = [i \in 1..Len(@) |-> WithFilters(@[i], FiltersOf(r.policies, i))],
            !.policies = {p \in @ : p[1] \notin ToSet(AppliedKinds)}]

(* removeBackendRefsDuplicates: one backend per service and port, with the *)
(* sum of weights if the first has one.  Map order is left out.            *)
Deduplicated(backends) ==
  LET Same(b) == SelectSeq(backends, LAMBDA x : x.svc = b.svc /\ x.port = b.port)
      Sum(seq) == FoldLeft(LAMBDA acc, x : IF x.weight = NoWeight THEN acc ELSE acc + x.weight, 0, seq)
  IN SetToSeq({[b EXCEPT !.weight = IF Same(b)[1].weight = NoWeight THEN NoWeight ELSE Sum(Same(b))] :
                 b \in ToSet(backends)})

WithoutDuplicates(rule) == [rule EXCEPT !.backends = Deduplicated(@)]

Standard(r) == [r EXCEPT !.rules = [i \in 1..Len(@) |-> WithoutDuplicates(@[i])]]

(* LogUnparsedErrors: no emitter of a route's policies takes affinity off. *)
ServiceReports == {<<k, <<"affinity", 0, pir.services[k]>>>> : k \in DOMAIN pir.services}

WithPolicies(r, policies) == [r EXCEPT !.policies = policies]

-----------------------------------------------------------------------------
EmitInit ==
  /\ NginxInit
  /\ phase = "convert" /\ left = {} /\ wwwErrors = {} /\ unparsed = {}
  /\ eir = [gateways |-> <<>>, http |-> <<>>]

(* ToEmitterIR and the five policies.  Errors of convert do not stop ToIR. *)
ApplyPolicies ==
  /\ phase = "convert" /\ stage \in {"failed", "converted"}
  /\ phase' = "redirects" /\ left' = DOMAIN pir.http
  /\ LET e == ToEmitterIR(pir) IN
     eir' = [e EXCEPT !.http = [k \in DOMAIN @ |-> WithPolicies(@[k], Policies(pir.http[k]))]]
  /\ UNCHANGED <<vars, nginxVars, wwwErrors, unparsed>>

(* Both redirect passes visit the routes of the ProviderIR in map order.   *)
AddRedirects ==
  /\ phase = "redirects"
  /\ \E k \in left :
       /\ left' = left \ {k}
       /\ eir' = [eir EXCEPT !.http = WithRedirects(@, pir.http[k])]
  /\ UNCHANGED <<vars, nginxVars, phase, wwwErrors, unparsed>>

StartWWW ==
  /\ phase = "redirects" /\ left = {}
  /\ phase' = "www" /\ left' = DOMAIN pir.http
  /\ UNCHANGED <<vars, nginxVars, eir, wwwErrors, unparsed>>

AddWWWRedirect ==
  /\ phase = "www"
  /\ \E k \in left : ~BadWWW(pir.http[k]) /\
       /\ left' = left \ {k}
       /\ eir' = IF AsksWWW(pir.http[k]) /\ pir.http[k].host # NoHost
                 THEN WithWWW(eir, pir.http[k]) ELSE eir
  /\ UNCHANGED <<vars, nginxVars, phase, wwwErrors, unparsed>>

(* The first invalid value ends the pass; other routes stay as they are.   *)
RejectWWW ==
  /\ phase = "www"
  /\ \E k \in left : BadWWW(pir.http[k]) /\ wwwErrors' = wwwErrors \cup {k}
  /\ left' = {}
  /\ UNCHANGED <<vars, nginxVars, phase, eir, unparsed>>

CommonEmit ==
  /\ phase = "www" /\ left = {}
  /\ phase' = "common"
  /\ eir' = [eir EXCEPT !.http = [k \in DOMAIN @ |-> Applied(@[k])]]
  /\ UNCHANGED <<vars, nginxVars, left, wwwErrors, unparsed>>

(* LogUnparsedErrors, then ToGatewayResources.                             *)
StandardEmit ==
  /\ phase = "common"
  /\ phase' = "done"
  /\ unparsed' = ServiceReports \cup UNION {{<<k, p>> : p \in eir.http[k].policies} : k \in DOMAIN eir.http}
  /\ eir' = [eir EXCEPT !.http = [k \in DOMAIN @ |-> Standard(@[k])]]
  /\ UNCHANGED <<vars, nginxVars, left, wwwErrors>>

EmitNext ==
  \/ NginxNext /\ UNCHANGED emitVars
  \/ ApplyPolicies \/ AddRedirects \/ StartWWW \/ AddWWWRedirect \/ RejectWWW
  \/ CommonEmit \/ StandardEmit

EmitSpec == EmitInit /\ [][EmitNext]_allVars

-----------------------------------------------------------------------------
(* Resources that the program prints: no pass reported an error.           *)
Printed == phase = "done" /\ errors = {} /\ failed = {} /\ wwwErrors = {}

(* Gateway API: a route attaches to the listeners its parentRefs allow and *)
(* whose host it intersects.                                               *)
Accepts(l, host) ==
  LET Under(h, w) == w.wild /\ Len(h.labels) >= Len(w.labels) + (IF h.wild THEN 0 ELSE 1) /\ IsSuffix(w.labels, h.labels)
  IN l.host = NoHost \/ host = NoHost \/ l.host = host \/ Under(host, l.host) \/ Under(l.host, host)

AttachedTo(r, gw, l) ==
  /\ l.mode = "Terminate" /\ Accepts(l, r.host)
  /\ \E ref \in ToSet(r.refs) :
       <<r.ns, ref.gateway>> = gw /\ ref.port \in {0, l.port} /\ ref.section \in {<<>>, l.name}

GatewayOf(r) == <<r.ns, r.parent>>

(* The rules that answer for the host of a ProviderIR route on a port.     *)
OnPort(r, port) ==
  UNION {ToSet(eir.http[k].rules) :
    k \in {x \in DOMAIN eir.http :
      /\ eir.http[x].host = r.host
      /\ \E l \in ToSet(eir.gateways[GatewayOf(r)]) :
           l.port = port /\ AttachedTo(eir.http[x], GatewayOf(r), l)}}

Redirects(rule) == {f \in ToSet(rule.filters) : f[1] = "redirect"}
Services(rule) == {<<b.svc, b.port>> : b \in ToSet(rule.backends)}

Answers(r, i, port) == {rule \in OnPort(r, port) : rule.matches = r.rules[i].matches}

AsBefore(r, i, rule) ==
  Redirects(rule) = Redirects(r.rules[i]) /\ Services(rule) = Services(r.rules[i])

(* The names of a route and of those that the passes may make for it.      *)
NamesOf(r) == {Key(r), <<r.ns, r.name \o <<"http">>>>, Key(WWWRoute(r))}

(* Routes with a listener of their own, where names do not collide.        *)
Clear(r) ==
  /\ Unambiguous(r.ns) /\ ~HostNamesake(r) /\ GatewayOf(r) \in DOMAIN pir.gateways
  /\ \A k, o \in DOMAIN pir.http :
       k # o /\ k[1] = r.ns => NamesOf(pir.http[k]) \cap NamesOf(pir.http[o]) = {}

SameSite(r, o) == o.ns = r.ns /\ o.parent = r.parent /\ o.host = r.host

(* No other rule for the host has the same match (regexFeature makes       *)
(* matches of different types equal), nor has another route, that of a     *)
(* default backend, a redirect there.                                      *)
OnlyRule(r, i) ==
  \A k \in DOMAIN pir.http : LET o == pir.http[k] IN SameSite(r, o) =>
    /\ \A j \in 1..Len(o.rules) : o.rules[j].matches = r.rules[i].matches => k = Key(r) /\ i = j
    /\ k # Key(r) => \A rule \in ToSet(SlashRules(o.rules, "slash")) : rule.matches # r.rules[i].matches

(* On port 80, a path of a host with TLS is redirected to HTTPS and not    *)
(* served in any other way, unless its Ingress turns ssl-redirect off: then *)
(* it is answered as without TLS.                                          *)
PlainSideAnswers ==
  Printed => \A k \in DOMAIN pir.http : LET r == pir.http[k] IN
    Clear(r) => \A i \in 1..Len(r.rules) : Speakers(r, i) # {} /\ OnlyRule(r, i) =>
      IF r.host \in HostsWithTLS /\ Upgraded(r, i)
      THEN /\ Answers(r, i, 80) # {}
           /\ \A rule \in Answers(r, i, 80) : rule.filters = <<<<"redirect", "https">>>> /\ rule.backends = <<>>
      ELSE \E rule \in Answers(r, i, 80) : AsBefore(r, i, rule)

(* On port 443, where the host has a listener of its own, every path is    *)
(* answered as the ProviderIR says.                                        *)
SecureSideAnswers ==
  Printed => \A k \in DOMAIN pir.http : LET r == pir.http[k] IN
    Clear(r) /\ Listens(eir.gateways[GatewayOf(r)], r.host, 443) =>
      \A i \in 1..Len(r.rules) : OnlyRule(r, i) =>
        /\ Answers(r, i, 443) # {}
        /\ \A rule \in Answers(r, i, 443) : AsBefore(r, i, rule)

(* Where the rules for just this path redirect to for its slash.           *)
SlashTargets(r, path, port) ==
  LET rules == {x \in OnPort(r, port) : x.matches = <<[type |-> "Exact", path |-> path, header |-> <<>>]>>}
  IN {f[2] : f \in UNION {Redirects(rule) : rule \in rules}} \cap {"slash", "https slash"}

(* nginx answers "/a" with a redirect to "/a/" where "/a/" has a location  *)
(* and "/a" is not served: on both ports, and in one hop to HTTPS on a     *)
(* port 80 that redirects; never in the way of a rule that serves "/a".    *)
SlashesRedirected ==
  Printed => \A k \in DOMAIN pir.http : LET r == pir.http[k] IN
    Clear(r) =>
      LET literal == ToSet(LiteralMatches(r.rules))
          served(path) == \E m \in literal : m.path = path \/ (m.type \in PrefixTypes /\ Covers(m.path, path))
          upgrades == r.host \in HostsWithTLS /\ \E i \in 1..Len(r.rules) : Upgraded(r, i)
      IN \A m \in literal : Slashed(m.path) => \A port \in {80, 443} :
           Listens(eir.gateways[GatewayOf(r)], r.host, port) =>
             SlashTargets(r, Front(m.path), port) =
               IF served(Front(m.path)) THEN {}
               ELSE IF upgrades /\ port = 80 THEN {"https slash"} ELSE {"slash"}

(* On a port, a listener of its own for the other name of a route's host,  *)
(* and a route there that redirects to the host.                           *)
WWWAnswered(r, port) ==
  \E l \in ToSet(eir.gateways[GatewayOf(r)]) : \E x \in DOMAIN eir.http :
    /\ l.port = port /\ l.host = OtherName(r.host) /\ eir.http[x].host = l.host
    /\ AttachedTo(eir.http[x], GatewayOf(r), l)
    /\ <<"redirect host", r.host>> \in ToSet(eir.http[x].rules[1].filters)

(* The other name of a host with from-to-www-redirect is redirected to it, *)
(* on port 80 and where convert gave the host a listener on port 443.      *)
WWWAnswers ==
  Printed => \A k \in DOMAIN pir.http : LET r == pir.http[k] IN
    Clear(r) /\ r.host # NoHost /\ AsksWWW(r) =>
      WWWAnswered(r, 80) /\ (Listens(pir.gateways[GatewayOf(r)], r.host, 443) => WWWAnswered(r, 443))
=============================================================================
