-------------------------- MODULE NginxAnnotations --------------------------
(***************************************************************************)
(* The features of the nginx provider, the controller of F5: custom ports, *)
(* rewrites, headers, regular expressions, redirects, HSTS, and services   *)
(* with TLS or gRPC.                                                       *)
(*                                                                         *)
(* An Ingress has the ports it listens on (http, https), the services it   *)
(* rewrites for, or that speak TLS or gRPC, and flags; values of headers   *)
(* and rewrites are left out.  Backends are services.                      *)
(***************************************************************************)
EXTENDS Features

-----------------------------------------------------------------------------
(* listen-ports, listen-ports-ssl                                          *)

Ports(a) ==
  [HTTP |-> IF a.http = {} THEN {80} ELSE a.http, HTTPS |-> IF a.https = {} THEN {443} ELSE a.https]

CustomListener(ing, host, port, protocol) ==
  [name |-> NameFromHost(host) \o <<protocol, ToString(port)>>, host |-> host, port |-> port,
   certs |-> IF protocol = "HTTPS" /\ ing.tls # <<>> THEN {Head(ing.tls).secret} ELSE {},
   mode |-> "Terminate", protocol |-> protocol]

(* HTTPS listeners come first and keep HTTP ones off their ports.          *)
CustomListeners(ing, ports) ==
  FlattenSeq([i \in 1..Len(ing.rules) |->
    LET Of(protocol, some) ==
          SetToSeq({CustomListener(ing, ing.rules[i].host, p, protocol) : p \in some})
    IN Of("HTTPS", ports.HTTPS) \o Of("HTTP", ports.HTTP \ ports.HTTPS)])

Default(l) == <<l.protocol, l.port>> \in {<<"HTTP", 80>>, <<"HTTPS", 443>>}

(* Mutant: the default listeners of every host are replaced.               *)
ReplacedAll(o, ing, ports) ==
  [o EXCEPT !.gateways[<<ing.ns, ing.class>>] =
     SelectSeq(@, LAMBDA l : ~Default(l)) \o CustomListeners(ing, ports)]

(* replaceGatewayPortsWithCustom                                           *)
Replaced(o, ing, ports) ==
  LET named == {rule.host : rule \in ToSet(ing.rules)} \ {NoHost} IN
  [o EXCEPT !.gateways[<<ing.ns, ing.class>>] =
     SelectSeq(@, LAMBDA l : ~(Default(l) /\ l.host \in named)) \o CustomListeners(ing, ports)]

ListenPorts(o, k, rule) ==
  LET a == Annotations(rule.ing) IN
  IF a.http \cup a.https = {} THEN o ELSE Replaced(o, IngressOf(rule.ing), Ports(a))

-----------------------------------------------------------------------------
(* rewrites, proxy-hide-headers, proxy-set-headers, path-regex: all rules  *)
(* of the route, whichever Ingress they come from.                         *)

WithFilterOnAll(o, key, f) ==
  [o EXCEPT !.http[key].rules = [i \in 1..Len(@) |-> WithFilter(@[i], f)]]

RewriteTarget(o, k, rule) ==
  LET rewritten == SelectSeq(rule.paths, LAMBDA p : p.backend.svc \in Annotations(rule.ing).rewrites) IN
  FoldLeft(LAMBDA acc, p : WithFilterOnAll(acc, RouteKey(k), <<"URLRewrite", p.backend.svc>>), o, rewritten)

HeaderManipulation(o, k, rule) ==
  LET a == Annotations(rule.ing)
      hidden == IF a.hide THEN WithFilterOnAll(o, RouteKey(k), <<"ResponseHeaderModifier", "remove">>) ELSE o
  IN IF a.set THEN WithFilterOnAll(hidden, RouteKey(k), <<"RequestHeaderModifier", "set">>) ELSE hidden

AnyCase(path) == IF path # <<>> /\ Head(path) = "(?i)" THEN path ELSE <<"(?i)">> \o path

PathRegex(o, k, rule) ==
  LET regex == Annotations(rule.ing).regex
      Matching(m) == [m EXCEPT !.type = IF regex = "exact" THEN "Exact" ELSE "Regex",
                               !.path = IF regex = "case_insensitive" THEN AnyCase(@) ELSE @]
  IN IF regex = "" THEN o
     ELSE [o EXCEPT !.http[RouteKey(k)].rules =
             [i \in 1..Len(@) |-> [@[i] EXCEPT !.matches = [j \in 1..Len(@) |-> Matching(@[j])]]]]

-----------------------------------------------------------------------------
(* redirect-to-https and hsts go through all rules of an Ingress once for  *)
(* each of them, and look for routes that have the Ingress' own name.      *)

OwnRouteKey(ing, host) == <<ing.ns, RouteName(ing.name, host)>>

(* strings.ReplaceAll(host, ".", "-"): no host is the empty string.        *)
Dashed(host) ==
  IF host = NoHost THEN <<"">> ELSE (IF host.wild THEN <<"*">> ELSE <<>>) \o FlattenSeq(host.labels)

(* A listener's host that is there, but empty.                             *)
EmptyHost == [wild |-> FALSE, labels |-> <<<<"">>>>]

Hostname(host) == IF host = NoHost THEN EmptyHost ELSE host

WithHTTPSListener(o, ing, host) ==
  LET gw == <<ing.ns, ing.class>> IN
  IF \E l \in ToSet(o.gateways[gw]) : l.protocol = "HTTPS" /\ l.host \in {NoHost, Hostname(host)}
  THEN o
  ELSE WithListener(o, gw, [name |-> <<"https">> \o Dashed(host), host |-> Hostname(host), port |-> 443,
                            certs |-> {"placeholder"}, mode |-> "Terminate", protocol |-> "HTTPS"])

RedirectRule == [matches |-> <<>>, filters |-> <<HTTPSRedirect>>, backends |-> <<>>]

SSLRedirect(o, k, rule) ==
  LET ing == IngressOf(rule.ing)
      Redirecting(acc, host) ==
        LET with == WithHTTPSListener(acc, ing, host)
            key == OwnRouteKey(ing, host)
        IN IF key \notin DOMAIN with.http THEN with
           ELSE [with EXCEPT !.http[key].section = Append(Dashed(host), "http"),
                             !.http[key].rules = <<RedirectRule>> \o @]
  IN IF Annotations(rule.ing).redirect
     THEN FoldLeft(LAMBDA acc, r : Redirecting(acc, r.host), o, ing.rules) ELSE o

HSTS(o, k, rule) ==
  LET ing == IngressOf(rule.ing)
      Secured(acc, host) ==
        IF OwnRouteKey(ing, host) \notin DOMAIN acc.http THEN acc
        ELSE WithFilterOnAll(acc, OwnRouteKey(ing, host), <<"ResponseHeaderModifier", "hsts">>)
  IN IF Annotations(rule.ing).hsts
     THEN FoldLeft(LAMBDA acc, r : Secured(acc, r.host), o, ing.rules) ELSE o

-----------------------------------------------------------------------------
(* ssl-services: a policy for each service of each Ingress, with or        *)
(* without rules.                                                          *)
SSLServices(o) ==
  [o EXCEPT !.backendTLS = UNION
     {{[ns |-> ing.ns, name |-> ing.name \o <<s, "backend", "tls">>, svc |-> s] :
         s \in Annotations(<<ing.ns, ing.name>>).tls} : ing \in ToSet(input.http)}]

-----------------------------------------------------------------------------
(* grpc-services                                                           *)

HeaderFilters(filters) ==
  SelectSeq(filters, LAMBDA f : f[1] \in {"RequestHeaderModifier", "ResponseHeaderModifier"})

(* findAndConvertFiltersForGRPCPath: the filters of the first HTTP rule    *)
(* that matches this path.                                                 *)
FiltersFor(rules, path) ==
  LET matching == SelectSeq(rules, LAMBDA r : \E m \in ToSet(r.matches) : m.path = path)
  IN IF matching = <<>> THEN <<>> ELSE HeaderFilters(Head(matching).filters)

(* A port with a name is not looked up.                                    *)
GRPCRules(o, key, paths) ==
  [i \in 1..Len(paths) |->
     [matches  |-> GRPCMatch(MatchKey(paths[i])),
      filters  |-> IF key \in DOMAIN o.http THEN FiltersFor(o.http[key].rules, paths[i].path) ELSE <<>>,
      backends |-> <<[svc |-> paths[i].backend.svc, weight |-> NoWeight,
                      port |-> IF paths[i].backend.portName = "" THEN paths[i].backend.port ELSE 0]>>]]

(* Mutant: a rule goes as soon as one of its backends speaks gRPC.         *)
WithoutServicesOrRule(rules, services) ==
  SelectSeq(rules, LAMBDA r : \A b \in ToSet(r.backends) : b.svc \notin services)

(* RemoveGRPCRulesFromHTTPRoute: rules that have no backend left go, those *)
(* that never had one - redirects - too.                                   *)
WithoutServices(rules, services) ==
  LET remaining == [i \in 1..Len(rules) |->
        [rules[i] EXCEPT !.backends = SelectSeq(@, LAMBDA b : b.svc \notin services)]]
  IN SelectSeq(remaining, LAMBDA r : r.backends # <<>>)

WithoutGRPC(http, key, services) ==
  IF key \notin DOMAIN http THEN http
  ELSE LET rules == WithoutServices(http[key].rules, services) IN
       IF rules = <<>> THEN Restrict(http, DOMAIN http \ {key})
       ELSE [http EXCEPT ![key].rules = rules]

GRPCServices(o, k, rule) ==
  LET ing == IngressOf(rule.ing)
      services == Annotations(rule.ing).grpc
      Moving(acc, r) ==
        LET key == OwnRouteKey(ing, r.host)
            paths == SelectSeq(r.paths, LAMBDA p : p.backend.svc \in services)
            route == [ns |-> ing.ns, name |-> key[2], parent |-> ing.class, host |-> r.host,
                      rules |-> GRPCRules(acc, key, paths)]
        IN IF paths = <<>> THEN acc
           ELSE [acc EXCEPT !.grpc = (key :> route) @@ @, !.http = WithoutGRPC(@, key, services)]
  IN FoldLeft(Moving, o, ing.rules)
=============================================================================
