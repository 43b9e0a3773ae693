------------------------------- MODULE OpenAPI3 -------------------------------
(***************************************************************************)
(* pkg/i2gw/providers/openapi3: one OpenAPI document becomes a Gateway     *)
(* with a listener for every server, and HTTPRoutes that hold the          *)
(* operations, grouped by the servers they are offered at.                 *)
(*                                                                         *)
(* Hosts and paths are sequences of words, some of which are variables of  *)
(* their server.  A storage never holds more than one document, so the     *)
(* title prefixes all names and is left out.  The errors that toHTTPMatcher*)
(* appends to its copy of the slice reach nobody.                          *)
(***************************************************************************)
EXTENDS Integers, FiniteSets, SequencesExt

CONSTANTS
  Documents,       \* set of [servers, paths, conf]
  MaxMatches,      \* HTTPRouteMatchesMax, 8
  MaxRules,        \* HTTPRouteRulesMax, 16
  Earlier(_, _),   \* string order of listener groups
  Less(_, _)       \* order of matchers by path and method

ASSUME LimitsAssumption == MaxMatches \in Nat \ {0} /\ MaxRules \in Nat \ {0}

AnyHost == <<"*">>

VARIABLES
  doc,
  pc,
  todo,       \* operations not yet expanded, in matching order
  expanding,  \* servers of the current operation
  byMatcher,  \* listenersByHTTPRouteRuleMatcher
  byGroup,    \* httpRouteRuleMatchersByListeners, as sets
  groups,     \* listener groups whose routes are not built
  routes,     \* by name
  listeners,  \* of the Gateway
  grants

vars == <<doc, pc, todo, expanding, byMatcher, byGroup, groups, routes, listeners, grants>>

-----------------------------------------------------------------------------
(* Operations                                                              *)

(* Servers of the operation, or else of the path, of the document, or "/". *)
ServersOf(document, item, op) ==
  CASE op.servers # <<>> -> op.servers
    [] op.servers = <<>> /\ item.servers # <<>> -> item.servers
    [] op.servers = <<>> /\ item.servers = <<>> /\ document.servers # <<>> -> document.servers
    [] OTHER -> <<[scheme |-> "", host |-> <<>>, base |-> <<>>, vars |-> <<>>]>>

(* Names of required parameters; those of an operation, a sequence of none *)
(* or one set, replace the others.                                         *)
Required(item, op, in) ==
  LET all == IF op.params = <<>> THEN item.params ELSE op.params[1] IN
  {p.name : p \in {q \in all : q.required /\ q.in = in}}

Operations(document) ==
  FlattenSeq([i \in DOMAIN document.paths |->
    LET item == document.paths[i] IN
    [j \in DOMAIN item.ops |->
       [path |-> item.path, method |-> item.ops[j].method,
        headers |-> Required(item, item.ops[j], "header"),
        params |-> Required(item, item.ops[j], "query"),
        servers |-> ServersOf(document, item, item.ops[j])]]])

Replaced(words, name, value) == [i \in DOMAIN words |-> IF words[i] = name THEN value ELSE words[i]]

(* One variable of a server takes a value.                                 *)
Resolve(server, name, value) ==
  [server EXCEPT !.host = Replaced(@, name, value), !.base = Replaced(@, name, value),
                 !.vars = [x \in DOMAIN @ \ {name} |-> @[x]]]

(* expandNonEnumServerVariables: the others take their defaults.           *)
WithDefaults(server) ==
  FoldLeft(LAMBDA s, name : Resolve(s, name, server.vars[name].default), server,
           SetToSeq({x \in DOMAIN server.vars : server.vars[x].enum = <<>>}))

Open(server) == server.vars # <<>>

(* One turn of expandServerVariables: every server that still has          *)
(* variables becomes one server for each value of the variable that the    *)
(* range over its map gives first.                                         *)
Turn(servers, first) ==
  FlattenSeq([i \in DOMAIN servers |->
    IF ~Open(servers[i]) THEN <<servers[i]>>
    ELSE LET enum == servers[i].vars[first[i]].enum IN
         [v \in DOMAIN enum |-> Resolve(servers[i], first[i], enum[v])]])

ListenerOf(server) ==
  [scheme |-> IF server.scheme = "" THEN "http" ELSE server.scheme,
   host |-> IF server.host = <<>> THEN AnyHost ELSE server.host]

(* toHTTPMatcher                                                           *)
MatcherOf(op, server) ==
  [path |-> server.base \o op.path, method |-> op.method, headers |-> op.headers, params |-> op.params]

-----------------------------------------------------------------------------
(* Gateway and routes                                                      *)

(* NameFromHost drops what is no letter or digit.                          *)
ListenerName(l) ==
  IF l.host = AnyHost THEN <<l.scheme>>
  ELSE Append(SelectSeq(l.host, LAMBDA w : w \notin {"*", ".", "-"}), l.scheme)

Chunk == MaxMatches * MaxRules

(* Mutant: the last, smaller part is forgotten.                            *)
PartsRoundedDown(seq, size) ==
  [i \in 1..(Len(seq) \div size) |-> SubSeq(seq, (i - 1) * size + 1, i * size)]

(* A sequence cut into parts of the given size, the last one smaller.      *)
Parts(seq, size) ==
  [i \in 1..((Len(seq) + size - 1) \div size) |->
     SubSeq(seq, (i - 1) * size + 1, IF i * size > Len(seq) THEN Len(seq) ELSE i * size)]

(* sort.Sort by path and method: the order of matchers that differ only in *)
(* headers or parameters is that of a map.                                 *)
Orders(matchers) == {s \in SetToSeqs(matchers) : \A i, j \in DOMAIN s : i < j => ~Less(s[j], s[i])}

(* Mutant: a route never names a section.                                  *)
NoSection(group) == <<>>

(* A route for a single listener, of several, names its section.           *)
SectionOf(group) ==
  IF Cardinality(listeners) > 1 /\ Len(group) = 1 THEN ListenerName(group[1]) ELSE <<>>

(* "*" is left out only when it is alone; whether the API accepts it as a  *)
(* host is not asked here.                                                 *)
HostsOf(group) ==
  LET all == {l.host : l \in ToSet(group)} IN IF all = {AnyHost} THEN {} ELSE all

(* The counters of a name: group if there are several, part if several.    *)
RouteName(i, j, parts) ==
  (IF Cardinality(DOMAIN byGroup) > 1 THEN <<i>> ELSE <<>>) \o (IF parts > 1 THEN <<j>> ELSE <<>>)

RoutesOf(i, group, order) ==
  LET parts == Parts(order, Chunk) IN
  [name \in {RouteName(i, j, Len(parts)) : j \in DOMAIN parts} |->
     [section |-> SectionOf(group), hosts |-> HostsOf(group),
      rules |-> Parts(parts[CHOOSE j \in DOMAIN parts : RouteName(i, j, Len(parts)) = name], MaxMatches)]]

(* buildReferenceGrant                                                     *)
Grant(kind, ns) ==
  IF doc.conf.ns = "" \/ ns = "" THEN {} ELSE {[from |-> doc.conf.ns, kind |-> kind, to |-> ns]}

-----------------------------------------------------------------------------
Init ==
  /\ doc \in Documents
  /\ pc = "next"
  /\ todo = Operations(doc)
  /\ expanding = <<>> /\ byMatcher = <<>> /\ byGroup = <<>> /\ groups = <<>>
  /\ routes = <<>> /\ listeners = {} /\ grants = {}

NextOperation ==
  /\ pc = "next" /\ todo # <<>>
  /\ expanding' = [i \in DOMAIN Head(todo).servers |-> WithDefaults(Head(todo).servers[i])]
  /\ pc' = "expand"
  /\ UNCHANGED <<doc, todo, byMatcher, byGroup, groups, routes, listeners, grants>>

ExpandTurn ==
  /\ pc = "expand"
  /\ \E i \in DOMAIN expanding : Open(expanding[i])
  /\ \E first \in [DOMAIN expanding -> UNION {DOMAIN s.vars : s \in ToSet(expanding)}] :
       /\ \A i \in DOMAIN expanding : Open(expanding[i]) => first[i] \in DOMAIN expanding[i].vars
       /\ expanding' = Turn(expanding, first)
  /\ UNCHANGED <<doc, pc, todo, byMatcher, byGroup, groups, routes, listeners, grants>>

(* The listeners of every matcher in the order of the servers.             *)
AddMatchers ==
  /\ pc = "expand"
  /\ \A i \in DOMAIN expanding : ~Open(expanding[i])
  /\ byMatcher' = FoldLeft(
       LAMBDA f, s : LET m == MatcherOf(Head(todo), s)
                         old == IF m \in DOMAIN f THEN f[m] ELSE <<>> IN
                     [x \in DOMAIN f \cup {m} |-> IF x = m THEN Append(old, ListenerOf(s)) ELSE f[x]],
       byMatcher, expanding)
  /\ todo' = Tail(todo)
  /\ expanding' = <<>>
  /\ pc' = "next"
  /\ UNCHANGED <<doc, byGroup, groups, routes, listeners, grants>>

(* Matchers with the same sequence of listeners make a group; listeners    *)
(* are declared once.                                                      *)
Group ==
  /\ pc = "next" /\ todo = <<>>
  /\ LET all == {byMatcher[m] : m \in DOMAIN byMatcher} IN
     /\ byGroup' = [g \in all |-> {m \in DOMAIN byMatcher : byMatcher[m] = g}]
     /\ groups' = SetToSortSeq(all, Earlier)
     /\ listeners' = UNION {ToSet(g) : g \in all}
  /\ pc' = "routes"
  /\ UNCHANGED <<doc, todo, expanding, byMatcher, routes, grants>>

ConvertGroup ==
  /\ pc = "routes" /\ groups # <<>>
  /\ \E order \in Orders(byGroup[Head(groups)]) :
       LET i == Cardinality(DOMAIN byGroup) - Len(groups) + 1
           new == RoutesOf(i, Head(groups), order) IN
       routes' = [n \in DOMAIN routes \cup DOMAIN new |-> IF n \in DOMAIN new THEN new[n] ELSE routes[n]]
  /\ groups' = Tail(groups)
  /\ UNCHANGED <<doc, pc, todo, expanding, byMatcher, byGroup, listeners, grants>>

AddGrants ==
  /\ pc = "routes" /\ groups = <<>>
  /\ grants' = Grant("HTTPRoute", doc.conf.backend)
               \cup (IF \E l \in listeners : l.scheme = "https" THEN Grant("Gateway", doc.conf.secret) ELSE {})
  /\ pc' = "done"
  /\ UNCHANGED <<doc, todo, expanding, byMatcher, byGroup, groups, routes, listeners>>

Next == NextOperation \/ ExpandTurn \/ AddMatchers \/ Group \/ ConvertGroup \/ AddGrants

Spec == Init /\ [][Next]_vars

-----------------------------------------------------------------------------
(* What the document offers: every operation at every server, for every    *)
(* choice of values of the server's variables.                             *)
Values(server, name) ==
  IF server.vars[name].enum = <<>> THEN {server.vars[name].default} ELSE ToSet(server.vars[name].enum)

Assignments(server) ==
  {f \in [DOMAIN server.vars -> UNION {Values(server, n) : n \in DOMAIN server.vars}] :
     \A n \in DOMAIN server.vars : f[n] \in Values(server, n)}

Chosen(server, f) ==
  LET Word(w) == IF w \in DOMAIN f THEN f[w] ELSE w IN
  [server EXCEPT !.host = [i \in DOMAIN @ |-> Word(@[i])], !.base = [i \in DOMAIN @ |-> Word(@[i])]]

Offers ==
  UNION {UNION {{[listener |-> ListenerOf(Chosen(s, f)), matcher |-> MatcherOf(op, Chosen(s, f))] :
                   f \in Assignments(s)} : s \in ToSet(op.servers)} : op \in ToSet(Operations(doc))}

(* Routes bind to listeners by section and by host.                        *)
Bound(r, l) ==
  /\ r.section \in {<<>>, ListenerName(l)}
  /\ r.hosts = {} \/ l.host \in r.hosts \/ l.host = AnyHost

At(l, m) ==
  {<<name, i, j>> \in (DOMAIN routes) \X (1..MaxRules) \X (1..MaxMatches) :
     LET r == routes[name] IN
     /\ Bound(r, l)
     /\ i \in DOMAIN r.rules /\ j \in DOMAIN r.rules[i] /\ r.rules[i][j] = m}

Permitted(kind, ns) ==
  doc.conf.ns \in {"", ns} \/ ns = "" \/ [from |-> doc.conf.ns, kind |-> kind, to |-> ns] \in grants

(* Whatever order the variables of a server are expanded in and however    *)
(* routes and rules are cut to their limits, every operation is answered   *)
(* at every server by one match in one rule, routes and rules stay within  *)
(* their limits, and backend and secret may be referred to.                *)
OperationsAnswered ==
  pc = "done" =>
    /\ \A o \in Offers : o.listener \in listeners /\ Cardinality(At(o.listener, o.matcher)) = 1
    /\ \A name \in DOMAIN routes :
         Len(routes[name].rules) <= MaxRules /\ \A rule \in ToSet(routes[name].rules) : Len(rule) <= MaxMatches
    /\ Permitted("HTTPRoute", doc.conf.backend)
    /\ (\E l \in listeners : l.scheme = "https") => Permitted("Gateway", doc.conf.secret)

Namesakes(l) == \E x \in listeners \ {l} : ListenerName(x) = ListenerName(l)

(* An operation offered once is answered nowhere else: not at the other    *)
(* scheme of its host, and not at other hosts.  (One offered several times *)
(* names no section and answers wherever its hosts do.)                    *)
NothingElseAnswered ==
  pc = "done" =>
    \A m \in DOMAIN byMatcher : \A l \in listeners :
      Len(byMatcher[m]) = 1 /\ ~Namesakes(l) /\ At(l, m) # {} =>
        [listener |-> l, matcher |-> m] \in Offers
=============================================================================
