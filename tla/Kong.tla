--------------------------------- MODULE Kong ---------------------------------
(***************************************************************************)
(* pkg/i2gw/providers/kong, with provider_intermediate/utils.go: Ingresses *)
(* go through common.ToIR, TCPIngresses through their own aggregation,     *)
(* MergeIRs puts the two together, and the features for headers, methods   *)
(* and plugins patch the HTTP routes.                                      *)
(*                                                                         *)
(* An Ingress carries its annotations as `ann`: headers (name -> values),  *)
(* methods (a set), plugins (a sequence).  The matches of a rule are a     *)
(* set; their order and repetition mean nothing to Gateway API.  No Kong   *)
(* Ingress is gRPC.  Addresses of Gateways are never set and left out.     *)
(***************************************************************************)
EXTENDS IngressAggregator

CONSTANTS
  MaxListeners,  \* 64: listeners a Gateway may have
  Methods        \* the methods that validateHTTPMethod accepts

NoMethod == "any"

VARIABLES
  stage,    \* what convert does next, or how it ended
  tcpTodo,  \* aggregated TCPIngress rules not yet converted
  tcpIR,    \* what TCPIngressToGatewayIR has made of the others
  kir,      \* the merged ProviderIR
  todo,     \* rule groups a feature still has to look at
  rejected  \* Ingresses with a method that is none, classes with a slash, full Gateways

kongVars == <<stage, tcpTodo, tcpIR, kir, todo, rejected>>

-----------------------------------------------------------------------------
(* readResourcesFromFile: the first reader leaves nothing for the next.    *)
TCPIngresses == IF input.source = "file" THEN <<>> ELSE input.tcp

-----------------------------------------------------------------------------
(* crds/tcpingress.go                                                      *)

TCPKey(ing, rule) == [ns |-> ing.ns, class |-> ing.class, host |-> rule.host, port |-> rule.port]

(* Mutant: a later rule of a host and port replaces the earlier ones.      *)
WithTCPRuleLast(gs, ing, rule) ==
  LET k == TCPKey(ing, rule)
      old == IF k \in DOMAIN gs THEN gs[k] ELSE [name |-> ing.name, tls |-> <<>>, backends |-> <<>>]
      new == [old EXCEPT !.tls = @ \o ing.tls, !.backends = <<rule.backend>>]
  IN [x \in DOMAIN gs \cup {k} |-> IF x = k THEN new ELSE gs[x]]

(* addIngressRule: as for Ingresses, the name is that of the first and the *)
(* TLS list is added once for each rule.                                   *)
WithTCPRule(gs, ing, rule) ==
  LET k == TCPKey(ing, rule)
      old == IF k \in DOMAIN gs THEN gs[k] ELSE [name |-> ing.name, tls |-> <<>>, backends |-> <<>>]
      new == [old EXCEPT !.tls = @ \o ing.tls, !.backends = Append(@, rule.backend)]
  IN [x \in DOMAIN gs \cup {k} |-> IF x = k THEN new ELSE gs[x]]

TCPGroups(list) ==
  FoldLeft(LAMBDA acc, ing : FoldLeft(LAMBDA a, rule : WithTCPRule(a, ing, rule), acc, ing.rules),
           <<>>, list)

TCPKind(group) == IF group.tls = <<>> THEN "tcp" ELSE "tls"

Section(kind, host, port) == <<kind>> \o NameFromHost(host) \o <<port>>

(* The listener takes the host of a lone TLS entry, the route does not.    *)
TCPListener(k, group) ==
  LET host == IF k.host # NoHost THEN k.host
              ELSE IF Len(group.tls) = 1 /\ Len(group.tls[1].hosts) = 1 THEN group.tls[1].hosts[1]
              ELSE NoHost
  IN [name |-> Section(TCPKind(group), host, k.port), host |-> host, port |-> k.port,
      certs |-> {group.tls[i].secret : i \in DOMAIN group.tls},
      mode |-> IF TCPKind(group) = "tls" THEN "Passthrough" ELSE "TCP"]

TCPRoute(k, group) ==
  [ns |-> k.ns, name |-> RouteName(group.name, k.host), parent |-> k.class,
   section |-> Section(TCPKind(group), k.host, k.port), backends |-> group.backends]

Updated(f, key, value) == [x \in DOMAIN f \cup {key} |-> IF x = key THEN value ELSE f[x]]

AddListener(gws, gw, listener) ==
  Updated(gws, gw, Append(IF gw \in DOMAIN gws THEN gws[gw] ELSE <<>>, listener))

-----------------------------------------------------------------------------
(* MergeIRs                                                                *)

(* Mutant: a Gateway of the second IR replaces that of the first.          *)
MergedGatewaysLast(first, second) ==
  [gw \in DOMAIN first \cup DOMAIN second |-> IF gw \in DOMAIN second THEN second[gw] ELSE first[gw]]

(* Listeners of a Gateway in both come one after the other, as they are.   *)
MergedGateways(first, second) ==
  [gw \in DOMAIN first \cup DOMAIN second |->
     (IF gw \in DOMAIN second THEN second[gw] ELSE <<>>)
     \o (IF gw \in DOMAIN first THEN first[gw] ELSE <<>>)]

Overfull(gws) == {gw \in DOMAIN gws : Len(gws[gw]) > MaxListeners}

(* The routes of common.ToIR, whose matches have one path and no headers.  *)
HTTPRules(route) ==
  [i \in DOMAIN route.rules |->
     [matches |-> {[type |-> m.type, path |-> m.path, headers |-> <<>>, method |-> NoMethod] :
                     m \in ToSet(route.rules[i].matches)},
      plugins |-> <<>>, backends |-> route.rules[i].backends]]

Merged ==
  [http |-> [k \in DOMAIN ir.http |-> [parent |-> ir.http[k].parent, host |-> ir.http[k].host,
                                       rules |-> HTTPRules(ir.http[k])]],
   tcp |-> tcpIR.tcp, tls |-> tcpIR.tls,
   gateways |-> MergedGateways(ir.gateways, tcpIR.gateways)]

EmptyKongIR == [http |-> <<>>, tcp |-> <<>>, tls |-> <<>>, gateways |-> <<>>]

-----------------------------------------------------------------------------
(* Features.  GetRuleGroups groups the rules of the Ingresses as ToIR did. *)

(* The Ingress of every rule of a group, in the order of the list.         *)
Speakers(g) ==
  FlattenSeq([i \in DOMAIN input.http |->
    LET ing == input.http[i] IN
    IF ing.ns # g.ns \/ ing.class # g.class THEN <<>>
    ELSE LET on == SelectSeq(ing.rules, LAMBDA r : r.host = g.host) IN [j \in DOMAIN on |-> ing]])

RuleGroups ==
  {[ns |-> ing.ns, class |-> ing.class, host |-> r.host] :
     <<ing, r>> \in {<<x, y>> \in ToSet(input.http) \X UNION {ToSet(z.rules) : z \in ToSet(input.http)} :
                       y \in ToSet(x.rules)}}

GroupRoute(g) == <<g.ns, RouteName(Speakers(g)[1].name, g.host)>>

(* patchHTTPRouteHeaderMatching: as many matches as there are combinations *)
(* of values, but the j-th takes the j-th value, modulo their number, of   *)
(* every header.  A header without values leaves no match at all.          *)
Combinations(headers) ==
  LET n == FoldFunction(LAMBDA values, acc : Len(values) * acc, 1, headers) IN
  {[h \in DOMAIN headers |-> headers[h][(j % Len(headers[h])) + 1]] : j \in 0..(n - 1)}

(* Every Ingress of the group sets the headers of all rules anew.          *)
WithHeaders(rules, ann) ==
  [i \in DOMAIN rules |->
     [rules[i] EXCEPT !.matches = {[m EXCEPT !.headers = c] : m \in @, c \in Combinations(ann.headers)}]]

(* Mutant: all matches point to the loop's variable, the last method.      *)
WithMethodsAliased(rules, ann) ==
  [i \in DOMAIN rules |->
     IF ann.methods = {} \/ rules[i].matches = {} THEN rules[i]
     ELSE [rules[i] EXCEPT !.matches = {[m EXCEPT !.method = CHOOSE x \in ann.methods : TRUE] : m \in @}]]

WithMethods(rules, ann) ==
  [i \in DOMAIN rules |->
     IF ann.methods = {} \/ rules[i].matches = {} THEN rules[i]
     ELSE [rules[i] EXCEPT !.matches = {[m EXCEPT !.method = x] : m \in @, x \in ann.methods}]]

WithPlugins(rules, ann) ==
  [i \in DOMAIN rules |-> [rules[i] EXCEPT !.plugins = @ \o ann.plugins]]

Patch(feature, rules, ann) ==
  CASE feature = "headers" -> WithHeaders(rules, ann)
    [] feature = "methods" -> WithMethods(rules, ann)
    [] feature = "plugins" -> WithPlugins(rules, ann)

Patched(feature, g) ==
  [kir EXCEPT !.http[GroupRoute(g)].rules =
     FoldLeft(LAMBDA rules, ing : Patch(feature, rules, ing.ann), @, Speakers(g))]

BadMethods(ing) == ing.ann.methods \ Methods # {}

StageAfter == [headers |-> "methods", methods |-> "plugins", plugins |-> "done"]

-----------------------------------------------------------------------------
KongInit ==
  /\ Init
  /\ stage = "common"
  /\ tcpTodo = <<>> /\ tcpIR = [tcp |-> <<>>, tls |-> <<>>, gateways |-> <<>>]
  /\ kir = EmptyKongIR
  /\ todo = {} /\ rejected = {}

(* An error of common.ToIR ends the conversion.                            *)
StartTCP ==
  /\ stage = "common" /\ pc = "done"
  /\ IF errors # {} THEN stage' = "failed" /\ UNCHANGED tcpTodo
     ELSE stage' = "tcp" /\ tcpTodo' = TCPGroups(TCPIngresses)
  /\ UNCHANGED <<vars, tcpIR, kir, todo, rejected>>

(* Groups come in map order; of two routes with one name the later stays.  *)
ConvertTCPGroup ==
  /\ stage = "tcp"
  /\ \E k \in DOMAIN tcpTodo :
       LET group == tcpTodo[k]
           route == TCPRoute(k, group) IN
       /\ tcpTodo' = [x \in DOMAIN tcpTodo \ {k} |-> tcpTodo[x]]
       /\ tcpIR' = [tcpIR EXCEPT
            ![TCPKind(group)] = Updated(@, Key(route), route),
            !.gateways = IF k.class \in SlashedClasses THEN @
                         ELSE AddListener(@, <<k.ns, k.class>>, TCPListener(k, group))]
       /\ rejected' = rejected \cup ({k.class} \cap SlashedClasses)
  /\ UNCHANGED <<vars, stage, kir, todo>>

Merge ==
  /\ stage = "tcp" /\ tcpTodo = <<>>
  /\ IF rejected # {} \/ Overfull(Merged.gateways) # {}
       THEN /\ stage' = "failed"
            /\ rejected' = rejected \cup Overfull(Merged.gateways)
            /\ UNCHANGED <<kir, todo>>
       ELSE /\ stage' = "headers"
            /\ kir' = Merged
            /\ todo' = RuleGroups
            /\ UNCHANGED rejected
  /\ UNCHANGED <<vars, tcpTodo, tcpIR>>

(* One rule group of a feature, in map order.  A method that is none ends  *)
(* the method feature at once, with the routes as they are by then.        *)
PatchGroup ==
  /\ stage \in DOMAIN StageAfter
  /\ \E g \in todo :
       IF stage = "methods" /\ \E ing \in ToSet(Speakers(g)) : BadMethods(ing)
       THEN /\ todo' = {}
            /\ rejected' = rejected \cup {g}
            /\ LET first == CHOOSE i \in DOMAIN Speakers(g) :
                              /\ BadMethods(Speakers(g)[i])
                              /\ \A j \in 1..(i - 1) : ~BadMethods(Speakers(g)[j])
               IN kir' = [kir EXCEPT !.http[GroupRoute(g)].rules =
                            FoldLeft(LAMBDA rules, ing : WithMethods(rules, ing.ann), @,
                                     SubSeq(Speakers(g), 1, first - 1))]
       ELSE /\ todo' = todo \ {g}
            /\ kir' = Patched(stage, g)
            /\ UNCHANGED rejected
  /\ UNCHANGED <<vars, stage, tcpTodo, tcpIR>>

NextFeature ==
  /\ stage \in DOMAIN StageAfter /\ todo = {}
  /\ stage' = StageAfter[stage]
  /\ todo' = IF stage = "plugins" THEN {} ELSE RuleGroups
  /\ UNCHANGED <<vars, tcpTodo, tcpIR, kir, rejected>>

KongNext ==
  \/ Next /\ UNCHANGED kongVars
  \/ StartTCP \/ ConvertTCPGroup \/ Merge \/ PatchGroup \/ NextFeature

KongSpec == KongInit /\ [][KongNext]_<<vars, kongVars>>

-----------------------------------------------------------------------------
Converted == stage = "done" /\ rejected = {}

(* All combinations of one value for each header.                          *)
Product(headers) ==
  {c \in [DOMAIN headers -> UNION {ToSet(headers[h]) : h \in DOMAIN headers}] :
     \A h \in DOMAIN headers : c[h] \in ToSet(headers[h])}

Coprime(m, n) == \A d \in 2..m : ~(m % d = 0 /\ n % d = 0)

Uniform(g) == \A x, y \in ToSet(Speakers(g)) : x.ann.headers = y.ann.headers /\ x.ann.methods = y.ann.methods

GroupOf(o) == [ns |-> o.ns, class |-> o.class, host |-> o.host]

MatchesOf(o) ==
  UNION {{m \in rule.matches : m.type = o.path.type /\ m.path = o.path.path} :
           rule \in ToSet(kir.http[GroupRoute(GroupOf(o))].rules)}

AnnOf(o) == (CHOOSE ing \in ToSet(input.http) : <<ing.ns, ing.name>> = o.ing).ann

(* header_matching.go: "All the values defined for each annotation name,   *)
(* and separated by comma, MUST be ORed.  All the annotation names MUST be *)
(* ANDed".  Where the Ingresses of a host agree, the matches of a path ask *)
(* for nothing else than one value of each header and one of the methods,  *)
(* they take every value and every method, and where no two headers have   *)
(* numbers of values with a common divisor they take every combination.    *)
MatchesAsAsked ==
  Converted =>
    \A o \in Occurrences :
      LET headers == AnnOf(o).headers
          methods == IF AnnOf(o).methods = {} THEN {NoMethod} ELSE AnnOf(o).methods
      IN Uniform(GroupOf(o)) /\ Unambiguous(o.ns) /\ (\A h \in DOMAIN headers : headers[h] # <<>>) =>
           LET found == {<<m.headers, m.method>> : m \in MatchesOf(o)} IN
           /\ found \subseteq Product(headers) \X methods
           /\ \A x \in methods, h \in DOMAIN headers : \A v \in ToSet(headers[h]) :
                \E f \in found : f[1][h] = v /\ f[2] = x
           /\ (\A h, i \in DOMAIN headers : h = i \/ Coprime(Len(headers[h]), Len(headers[i]))) =>
                found = Product(headers) \X methods

(* The same for any headers.                                               *)
HeadersCombined ==
  Converted =>
    \A o \in Occurrences :
      Uniform(GroupOf(o)) /\ Unambiguous(o.ns) =>
        \A c \in Product(AnnOf(o).headers) : \E m \in MatchesOf(o) : m.headers = c

(* Every port a TCPIngress in the cluster opens is open: a route with its  *)
(* backend names a listener of its Gateway that has this port and host,    *)
(* whatever the order of the groups.  Not so if another group has the same *)
(* route name, for it has no port in it, or if the listener takes its host *)
(* from TLS.                                                               *)
TCPServed ==
  Converted =>
    \A ing \in ToSet(TCPIngresses) : \A rule \in ToSet(ing.rules) :
      LET gs == TCPGroups(TCPIngresses)
          k == TCPKey(ing, rule)
          name == RouteName(gs[k].name, k.host)
          shared == \E x \in DOMAIN gs \ {k} :
                      x.ns = k.ns /\ TCPKind(gs[x]) = TCPKind(gs[k]) /\ RouteName(gs[x].name, x.host) = name
          routes == kir[TCPKind(gs[k])]
      IN ~shared /\ TCPListener(k, gs[k]).host = k.host =>
           /\ <<k.ns, name>> \in DOMAIN routes
           /\ rule.backend \in ToSet(routes[<<k.ns, name>>].backends)
           /\ \E l \in ToSet(kir.gateways[<<k.ns, routes[<<k.ns, name>>].parent>>]) :
                l.name = routes[<<k.ns, name>>].section /\ l.port = rule.port /\ l.host = rule.host

(* utils.go: "if there are multiple gateways named the same, their         *)
(* listeners are merged into a unique Gateway": none of either side is     *)
(* lost, no Gateway has more than it may, and listeners of one name come   *)
(* from hosts that differ by "*." or punctuation alone.                    *)
ListenersMerged ==
  Converted =>
    \A gw \in DOMAIN kir.gateways :
      LET all == kir.gateways[gw] IN
      /\ Len(all) <= MaxListeners
      /\ gw \in DOMAIN ir.gateways => ToSet(ir.gateways[gw]) \subseteq ToSet(all)
      /\ \A k \in DOMAIN TCPGroups(TCPIngresses) :
           <<k.ns, k.class>> = gw => TCPListener(k, TCPGroups(TCPIngresses)[k]) \in ToSet(all)
      /\ \A i, j \in DOMAIN all : i # j /\ all[i].name = all[j].name =>
           NameFromHost(all[i].host) = NameFromHost(all[j].host) /\ all[i].port = all[j].port
=============================================================================
