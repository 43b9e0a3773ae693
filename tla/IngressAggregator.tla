-------------------------- MODULE IngressAggregator --------------------------
(***************************************************************************)
(* pkg/i2gw/providers/common/converter.go and utils.go: the conversion of  *)
(* plain Ingresses to routes and gateways that most providers start from.  *)
(*                                                                         *)
(* Names are sequences of words: a host is its labels (each a sequence of  *)
(* words separated by dashes) and whether it starts with "*.", so that     *)
(* NameFromHost and RouteName lose what the Go code loses.  A path is the  *)
(* sequence of its segments.  A backend names a port by number, or by a    *)
(* name that is looked up; the port of a resource backend is 0.            *)
(***************************************************************************)
EXTENDS FiniteSets, Lists

CONSTANTS
  Inputs,           \* set of [http, grpc]: the sequences of Ingresses given to ToIR
  ServicePorts,     \* <<namespace, service, port name>> -> port number
  ImplSpecific,     \* does the provider convert ImplementationSpecific paths?
  SlashedClasses,   \* ingress classes with a "/" in their name
  Earlier(_, _)     \* string order of rule group keys

NoHost == [wild |-> FALSE, labels |-> <<>>]
NoName == ""
NoBackend == [svc |-> NoName, portName |-> NoName, port |-> -1]
NoRef == [svc |-> NoName, port |-> -1, weight |-> -1]
NoWeight == -1

VARIABLES
  input, pc,
  groups,      \* a.ruleGroups
  defaults,    \* a.defaultBackends
  httpRoutes,  \* slices of routes with their sources
  grpcRoutes,
  listeners,   \* listenersByNamespacedGateway
  gateways,
  errors,      \* field.ErrorList, as a set
  ir           \* the ProviderIR that ToIR returns

vars == <<input, pc, groups, defaults, httpRoutes, grpcRoutes, listeners,
          gateways, errors, ir>>

-----------------------------------------------------------------------------
(* Names                                                                   *)

(* Runs of other characters become one dash, leading ones are dropped:     *)
(* "*.foo.com" and "foo.com" are the same name.                            *)
NameFromHost(host) ==
  IF host.labels = <<>> THEN <<"all", "hosts">> ELSE FlattenSeq(host.labels)

RouteName(ingressName, host) == ingressName \o NameFromHost(host)

Key(route) == <<route.ns, route.name>>

-----------------------------------------------------------------------------
(* Aggregation: addIngress, addIngressRule                                 *)

GroupKey(ing, rule, protocol) ==
  [ns |-> ing.ns, class |-> ing.class, host |-> rule.host, protocol |-> protocol]

(* A group takes the name of its first Ingress, and the whole TLS list of  *)
(* an Ingress once for each of its rules.                                  *)
WithRule(gs, ing, rule, protocol) ==
  LET k == GroupKey(ing, rule, protocol)
      old == IF k \in DOMAIN gs THEN gs[k]
             ELSE [name |-> ing.name, tls |-> <<>>, rules |-> <<>>]
      new == [old EXCEPT !.tls = @ \o ing.tls,
                         !.rules = Append(@, [ing |-> <<ing.ns, ing.name>>,
                                              paths |-> rule.paths])]
  IN [x \in DOMAIN gs \cup {k} |-> IF x = k THEN new ELSE gs[x]]

(* The rules of a list of Ingresses, in its order, each with its Ingress.  *)
RulesOf(ings, protocol) ==
  FlattenSeq([i \in DOMAIN ings |->
    [j \in DOMAIN ings[i].rules |->
      [ing |-> ings[i], rule |-> ings[i].rules[j], protocol |-> protocol]]])

Grouped(asked) ==
  LET gs[i \in 0..Len(asked)] ==
        IF i = 0 THEN <<>>
        ELSE WithRule(gs[i - 1], asked[i].ing, asked[i].rule, asked[i].protocol)
  IN gs[Len(asked)]

(* addIngress: the default backends, which have no group.                  *)
DefaultsOf(ings) ==
  LET with == Keep(ings, {ing \in ToSet(ings) : ing.default # NoBackend})
  IN [i \in DOMAIN with |->
        [ns |-> with[i].ns, name |-> with[i].name,
         class |-> with[i].class, backend |-> with[i].default]]

-----------------------------------------------------------------------------
(* One rule group to a route                                               *)

ToBackendRef(ns, backend) ==
  CASE backend.portName = NoName ->
         [svc |-> backend.svc, port |-> backend.port, weight |-> NoWeight]
    [] backend.portName # NoName /\ <<ns, backend.svc, backend.portName>> \in DOMAIN ServicePorts ->
         [svc |-> backend.svc, weight |-> NoWeight,
          port |-> ServicePorts[<<ns, backend.svc, backend.portName>>]]
    [] OTHER -> NoRef

MatchKey(p) == <<p.type, p.path>>

(* All paths of a group with the Ingress they come from, in source order.  *)
Placed(ing, p) == [ing |-> ing, type |-> p.type, path |-> p.path, backend |-> p.backend]

PathsOf(group) ==
  FlattenSeq([i \in DOMAIN group.rules |->
    [j \in DOMAIN group.rules[i].paths |->
      Placed(group.rules[i].ing, group.rules[i].paths[j])]])

(* The distinct match keys in the order of their first path.               *)
MatchKeys(paths) == Firsts([i \in DOMAIN paths |-> MatchKey(paths[i])])

WithKey(paths, key) == Keep(paths, {p \in ToSet(paths) : MatchKey(p) = key})

(* toHTTPRouteMatch: a missing path type, or an ImplementationSpecific one *)
(* nobody converts, is an error.                                           *)
Convertible(key) ==
  \/ key[1] \in {"Exact", "Prefix"}
  \/ key[1] = "ImplementationSpecific" /\ ImplSpecific

HTTPMatch(key) == <<[type |-> key[1], path |-> key[2], header |-> <<>>]>>

(* ParseGRPCServiceMethod: the first segment and the rest, whatever the    *)
(* path type; the path "/" matches everything.                             *)
GRPCMatch(key) ==
  IF key[2] = <<>> THEN <<>>
  ELSE <<[service |-> Head(key[2]), method |-> Tail(key[2])]>>

(* configureBackendRef: backends that cannot be resolved are errors, and   *)
(* neither they nor their sources are kept.                                *)
Resolved(ns, paths) == Keep(paths, {p \in ToSet(paths) : ToBackendRef(ns, p.backend) # NoRef})

Backends(ns, paths) ==
  LET kept == Resolved(ns, paths) IN [i \in DOMAIN kept |-> ToBackendRef(ns, kept[i].backend)]

Sources(ns, paths) ==
  LET kept == Resolved(ns, paths)
  IN [i \in DOMAIN kept |-> [ing |-> kept[i].ing, backend |-> kept[i].backend, default |-> FALSE]]

(* A route with one rule per match key, and the sources of its backends.   *)
Route(k, group, keys, Match(_)) ==
  [ns      |-> k.ns,
   name    |-> RouteName(group.name, k.host),
   parent  |-> k.class,
   host    |-> k.host,
   rules   |-> [i \in DOMAIN keys |->
                  [matches  |-> Match(keys[i]), filters |-> <<>>,
                   backends |-> Backends(k.ns, WithKey(PathsOf(group), keys[i]))]],
   sources |-> [i \in DOMAIN keys |-> Sources(k.ns, WithKey(PathsOf(group), keys[i]))]]

ToHTTPRoute(k, group) ==
  LET keys == MatchKeys(PathsOf(group))
  IN Route(k, group, Keep(keys, {key \in ToSet(keys) : Convertible(key)}), HTTPMatch)

ToGRPCRoute(k, group) ==
  Route(k, group, MatchKeys(PathsOf(group)), GRPCMatch)

RouteErrors(k, group) ==
  LET paths == ToSet(PathsOf(group)) IN
  {<<"pathType", p.ing>> : p \in {q \in paths : k.protocol = "http" /\ ~Convertible(MatchKey(q))}}
  \cup
  {<<"port", p.ing>> : p \in
     {q \in paths : /\ k.protocol = "http" => Convertible(MatchKey(q))
                    /\ ToBackendRef(k.ns, q.backend) = NoRef}}

(* Mutant: the host of the TLS entry comes before the host of the rule.    *)
ToListenerTLSFirst(k, group) ==
  [host  |-> IF Len(group.tls) = 1 /\ Len(group.tls[1].hosts) = 1
             THEN group.tls[1].hosts[1]
             ELSE k.host,
   tls   |-> group.tls # <<>>,
   certs |-> {group.tls[i].secret : i \in 1..Len(group.tls)}]

(* The listener a group asks for.  Without a host the group takes the one  *)
(* host of its one TLS entry.                                              *)
ToListener(k, group) ==
  [host  |-> IF k.host # NoHost THEN k.host
             ELSE IF Len(group.tls) = 1 /\ Len(group.tls[1].hosts) = 1
                  THEN group.tls[1].hosts[1]
             ELSE NoHost,
   tls   |-> group.tls # <<>>,
   certs |-> {group.tls[i].secret : i \in 1..Len(group.tls)}]

GatewayKey(k) == <<k.ns, k.class>>

WithWished(ls, gw, w) ==
  [g \in DOMAIN ls \cup {gw} |->
     IF g # gw THEN ls[g] ELSE Append(IF gw \in DOMAIN ls THEN ls[gw] ELSE <<>>, w)]

-----------------------------------------------------------------------------
(* Default backends and gateways                                           *)

DefaultRoute(d) ==
  [ns      |-> d.ns,
   name    |-> d.name \o <<"default", "backend">>,
   parent  |-> d.class,
   host    |-> NoHost,
   rules   |-> IF ToBackendRef(d.ns, d.backend) = NoRef THEN <<>>
               ELSE <<[matches |-> <<>>, filters |-> <<>>,
                       backends |-> <<ToBackendRef(d.ns, d.backend)>>]>>,
   sources |-> <<<<[ing |-> <<d.ns, d.name>>, backend |-> d.backend, default |-> TRUE]>>>>]

ListenerName(host, scheme) ==
  IF host = NoHost THEN <<scheme>> ELSE Append(NameFromHost(host), scheme)

(* Mutant: the certificates of the first listener of a name are kept.      *)
MergeListenerKeepingCerts(ls, name, host, port, certs) ==
  IF \E i \in 1..Len(ls) : ls[i].name = name
  THEN ls
  ELSE Append(ls, [name |-> name, host |-> host, port |-> port, certs |-> certs,
                   mode |-> "Terminate"])

(* Listeners of the same name are merged into the first one: its host      *)
(* stays, and certificates accumulate (their order is left out).           *)
MergeListener(ls, name, host, port, certs) ==
  IF \E i \in 1..Len(ls) : ls[i].name = name
  THEN [i \in 1..Len(ls) |->
          IF ls[i].name = name THEN [ls[i] EXCEPT !.certs = @ \cup certs] ELSE ls[i]]
  ELSE Append(ls, [name |-> name, host |-> host, port |-> port, certs |-> certs,
                   mode |-> "Terminate"])

(* One wish is an HTTP listener, and an HTTPS listener if it has TLS.      *)
WithWish(ls, w) ==
  LET plain == MergeListener(ls, ListenerName(w.host, "http"), w.host, 80, {})
  IN IF w.tls
     THEN MergeListener(plain, ListenerName(w.host, "https"), w.host, 443, w.certs)
     ELSE plain

ToListeners(wanted) ==
  LET ls[i \in 0..Len(wanted)] == IF i = 0 THEN <<>> ELSE WithWish(ls[i - 1], wanted[i])
  IN ls[Len(wanted)]

(* Routes are stored by namespace and name: the last of a name wins.       *)
ByKey(routes) ==
  LET keys == [i \in DOMAIN routes |-> Key(routes[i])]
  IN [k \in ToSet(keys) |-> routes[LastOf(keys, k)]]

(* The hosts an Ingress names.                                             *)
HostsOf(ing) ==
  {rule.host : rule \in ToSet(ing.rules)} \cup UNION {ToSet(t.hosts) : t \in ToSet(ing.tls)}

(* A host has a name, for a listener, and a "*" only in front (wild).      *)
NamedHost(h) ==
  /\ IsList(NameFromHost(h)) /\ NameFromHost(h) # <<>>
  /\ IsList(h.labels) /\ \A label \in ToSet(h.labels) : IsList(label) /\ label # <<"*">>

(* What an Ingress holds are slices, its name is a sequence of words, and  *)
(* its hosts are those that the API server accepts.                        *)
WellFormed(ing) ==
  /\ IsList(ing.name) /\ IsList(ing.rules) /\ IsList(ing.tls)
  /\ \A t \in ToSet(ing.tls) : IsList(t.hosts)
  /\ \A rule \in ToSet(ing.rules) : IsList(rule.paths)
  /\ \A h \in HostsOf(ing) : NamedHost(h)

ASSUME InputsAssumption ==
  \A i \in Inputs :
    /\ IsList(i.http) /\ IsList(i.grpc)
    /\ \A ing \in ToSet(i.http) \cup ToSet(i.grpc) : WellFormed(ing)

EmptyIR == [http |-> <<>>, grpc |-> <<>>, gateways |-> <<>>]

-----------------------------------------------------------------------------
(* ToIR as a state machine.  Only the range over listenersByNamespaced-    *)
(* Gateway runs in map order; the groups are sorted first.                 *)

Init ==
  /\ input \in Inputs
  /\ pc = "add"
  /\ groups = <<>> /\ defaults = <<>>
  /\ httpRoutes = <<>> /\ grpcRoutes = <<>>
  /\ listeners = <<>> /\ gateways = <<>>
  /\ errors = {}
  /\ ir = EmptyIR

(* addIngress for the HTTP and then for the gRPC Ingresses.                *)
AddIngresses ==
  /\ pc = "add"
  /\ groups' = Grouped(RulesOf(input.http, "http") \o RulesOf(input.grpc, "grpc"))
  /\ defaults' = DefaultsOf(input.http \o input.grpc)
  /\ pc' = "groups"
  /\ UNCHANGED <<input, httpRoutes, grpcRoutes, listeners, gateways, errors, ir>>

(* The next group in key order becomes a route and asks for a listener.    *)
ConvertGroup ==
  /\ pc = "groups" /\ groups # <<>>
  /\ \E k \in DOMAIN groups :
        /\ \A o \in DOMAIN groups \ {k} : Earlier(k, o)
        /\ groups' = [o \in DOMAIN groups \ {k} |-> groups[o]]
        /\ listeners' = WithWished(listeners, GatewayKey(k), ToListener(k, groups[k]))
        /\ IF k.protocol = "http"
           THEN /\ httpRoutes' = Append(httpRoutes, ToHTTPRoute(k, groups[k]))
                /\ UNCHANGED grpcRoutes
           ELSE /\ grpcRoutes' = Append(grpcRoutes, ToGRPCRoute(k, groups[k]))
                /\ UNCHANGED httpRoutes
        /\ errors' = errors \cup RouteErrors(k, groups[k])
  /\ UNCHANGED <<input, pc, defaults, gateways, ir>>

(* Every default backend becomes a route that names the gateway of its     *)
(* class; no listener is added for it.                                     *)
ConvertDefaults ==
  /\ pc = "groups" /\ groups = <<>>
  /\ httpRoutes' = httpRoutes \o [i \in DOMAIN defaults |-> DefaultRoute(defaults[i])]
  /\ errors' = errors \cup
       {<<"port", <<d.ns, d.name>> >> :
          d \in {e \in ToSet(defaults) : ToBackendRef(e.ns, e.backend) = NoRef}}
  /\ pc' = "gateways"
  /\ UNCHANGED <<input, groups, defaults, grpcRoutes, listeners, gateways, ir>>

BuildGateway ==
  /\ pc = "gateways"
  /\ \E gw \in DOMAIN listeners :
       /\ listeners' = [g \in DOMAIN listeners \ {gw} |-> listeners[g]]
       /\ IF gw[2] \in SlashedClasses
          THEN errors' = errors \cup {<<"gateway key", gw>>} /\ UNCHANGED gateways
          ELSE /\ gateways' = [g \in DOMAIN gateways \cup {gw} |->
                                 IF g = gw THEN ToListeners(listeners[gw]) ELSE gateways[g]]
               /\ UNCHANGED errors
  /\ UNCHANGED <<input, pc, groups, defaults, httpRoutes, grpcRoutes, ir>>

(* Any error leaves an empty IR.                                           *)
Return ==
  /\ pc = "gateways" /\ listeners = <<>>
  /\ pc' = "done"
  /\ ir' = IF errors # {} THEN EmptyIR
           ELSE [http |-> ByKey(httpRoutes), grpc |-> ByKey(grpcRoutes), gateways |-> gateways]
  /\ UNCHANGED <<input, groups, defaults, httpRoutes, grpcRoutes, listeners, gateways, errors>>

Next == AddIngresses \/ ConvertGroup \/ ConvertDefaults \/ BuildGateway \/ Return

Spec == Init /\ [][Next]_vars

-----------------------------------------------------------------------------
(* Every path of the input, with where it stands.                          *)
Occurrence(protocol, ing, rule, p) ==
  [ns |-> ing.ns, class |-> ing.class, host |-> rule.host, protocol |-> protocol,
   ing |-> <<ing.ns, ing.name>>, path |-> p]

Occurrences ==
  UNION {UNION {UNION {
    {Occurrence(protocol, ing, rule, p) : p \in ToSet(rule.paths)}
    : rule \in ToSet(ing.rules)} : ing \in ToSet(input[protocol])} : protocol \in {"http", "grpc"}}

Ingresses == ToSet(input.http) \cup ToSet(input.grpc)

(* Routes that were made, before equal names overwrite each other.         *)
Made == [http |-> httpRoutes, grpc |-> grpcRoutes]

Unambiguous(ns) ==
  \A protocol \in {"http", "grpc"} : \A i, j \in 1..Len(Made[protocol]) :
    Key(Made[protocol][i]) = Key(Made[protocol][j]) /\ Made[protocol][i].ns = ns => i = j

MatchOf(o) ==
  IF o.protocol = "http" THEN HTTPMatch(MatchKey(o.path)) ELSE GRPCMatch(MatchKey(o.path))

(* The occurrence is served: some route has its host and parent, and a     *)
(* rule with its match that sends to its backend and names its Ingress as  *)
(* the source of that very backend.                                        *)
Served(o) ==
  \E k \in DOMAIN ir[o.protocol] : LET r == ir[o.protocol][k] IN
    /\ r.ns = o.ns /\ r.host = o.host /\ r.parent = o.class
    /\ \E i \in 1..Len(r.rules) :
         /\ r.rules[i].matches = MatchOf(o)
         /\ \E j \in 1..Len(r.rules[i].backends) :
              /\ r.rules[i].backends[j] = ToBackendRef(o.ns, o.path.backend)
              /\ r.sources[i][j] = [ing |-> o.ing, backend |-> o.path.backend, default |-> FALSE]

ListenersOf(route) == ir.gateways[<<route.ns, route.parent>>]

Distinct(ls) == \A i, j \in 1..Len(ls) : ls[i].name = ls[j].name => i = j

HostNamesake(route) ==
  \E ing \in Ingresses : \E h \in HostsOf(ing) \ {NoHost, route.host} :
    /\ ing.ns = route.ns /\ ing.class = route.parent
    /\ NameFromHost(h) = NameFromHost(route.host)

(* A route with a host reaches a listener of its gateway on port 80 that   *)
(* accepts this host, unless a namesake host of the same gateway took the  *)
(* listener's name; listeners of a gateway never share a name.             *)
RoutesReachListener ==
  \A protocol \in {"http", "grpc"} : \A k \in DOMAIN ir[protocol] :
    LET r == ir[protocol][k] IN
    (\E i \in 1..Len(r.sources) : \E j \in 1..Len(r.sources[i]) : ~r.sources[i][j].default) =>
      /\ <<r.ns, r.parent>> \in DOMAIN ir.gateways
      /\ Distinct(ListenersOf(r))
      /\ \/ HostNamesake(r)
         \/ \E l \in ToSet(ListenersOf(r)) :
              l.port = 80 /\ (r.host = NoHost \/ l.host = r.host)

(* Every secret of an Ingress ends up on an HTTPS listener of each of its  *)
(* hosts, whichever Ingress of the host is read first.                     *)
SecretsPresented ==
  pc = "done" /\ errors = {} =>
    \A ing \in Ingresses : \A rule \in ToSet(ing.rules) : \A t \in ToSet(ing.tls) :
      rule.host # NoHost =>
        \E l \in ToSet(ir.gateways[<<ing.ns, ing.class>>]) :
          /\ l.port = 443 /\ NameFromHost(l.host) = NameFromHost(rule.host)
          /\ t.secret \in l.certs

(* What ToIR cannot convert: a path whose type nobody converts, a port     *)
(* that no Service has, a gateway whose name would not be unambiguous.     *)
Defective ==
  \/ \E o \in Occurrences :
       \/ o.protocol = "http" /\ o.path.type \notin {"Exact", "Prefix"}
                              /\ ~(o.path.type = "ImplementationSpecific" /\ ImplSpecific)
       \/ ToBackendRef(o.ns, o.path.backend) = NoRef
  \/ \E ing \in Ingresses :
       \/ ing.rules # <<>> /\ ing.class \in SlashedClasses
       \/ ing.default # NoBackend /\ ToBackendRef(ing.ns, ing.default) = NoRef

(* Every backend of the route is one an Ingress names as its source, for   *)
(* the path that the rule matches on the host and gateway of the route.    *)
AskedFor(r, protocol) ==
  \A i \in DOMAIN r.rules : \A j \in DOMAIN r.rules[i].backends :
    LET s == r.sources[i][j] IN
    /\ r.rules[i].backends[j] = ToBackendRef(r.ns, s.backend)
    /\ IF s.default
       THEN \E ing \in Ingresses :
              /\ <<ing.ns, ing.name>> = s.ing /\ ing.default = s.backend
              /\ ing.ns = r.ns /\ ing.class = r.parent
              /\ r.host = NoHost /\ r.rules[i].matches = <<>>
       ELSE \E o \in Occurrences :
              /\ o.ing = s.ing /\ o.path.backend = s.backend
              /\ o.protocol = protocol /\ o.ns = r.ns /\ o.class = r.parent
              /\ r.host = o.host /\ r.rules[i].matches = MatchOf(o)

(* A defect anywhere in the input, also behind the paths a rule takes its  *)
(* match from, is reported, and then nothing is converted.  Without one    *)
(* every path is served, and no backend gets requests that no Ingress asks *)
(* for.  Routes of equal name overwrite each other.                        *)
PathsConverted ==
  pc = "done" =>
    /\ Defective <=> errors # {}
    /\ Defective => ir = EmptyIR
    /\ ~Defective => \A o \in Occurrences : Unambiguous(o.ns) => Served(o)
    /\ \A protocol \in {"http", "grpc"} : \A k \in DOMAIN ir[protocol] : AskedFor(ir[protocol][k], protocol)
=============================================================================
