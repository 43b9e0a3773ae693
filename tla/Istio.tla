-------------------------------- MODULE Istio --------------------------------
(***************************************************************************)
(* pkg/i2gw/providers/istio/converter.go: Istio Gateways become Gateways,  *)
(* VirtualServices become HTTP, TLS and TCP routes with parent references  *)
(* and ReferenceGrants.                                                    *)
(*                                                                         *)
(* Both kinds are kept in maps, so each is converted in any order, all     *)
(* Gateways before the first VirtualService.  A host is the sequence of    *)
(* its labels, the first of which may be "*"; a name is the sequence of    *)
(* its words between dashes, so that the names built from two others lose  *)
(* what the Go code loses.  Notifications, weights, ports, timeouts and    *)
(* the values of headers are carried over unread and left out.             *)
(***************************************************************************)
EXTENDS FiniteSets, Lists, TLC

CONSTANTS
  Inputs,     \* set of [gateways, services]: Istio Gateways and VirtualServices
  Addresses,  \* hosts that net.ParseIP parses
  None

VARIABLES
  input,
  todo,          \* Gateways and VirtualServices not yet converted
  allowedHosts,  \* gwAllowedHosts: gateway -> namespace -> hosts
  ir,            \* the ProviderIR: gateways, http, tls, tcp and grants by name
  errors         \* resources with an error

vars == <<input, todo, allowedHosts, ir, errors>>

Key(object) == <<object.ns, object.name>>

(* map[key] = value                                                        *)
Put(map, key, value) ==
  [k \in DOMAIN map \cup {key} |-> IF k = key THEN value ELSE map[k]]

-----------------------------------------------------------------------------
(* convertGateway                                                          *)

Protocol(server) ==
  CASE server.protocol \in {"HTTP", "HTTPS", "TCP", "TLS"} -> server.protocol
    [] server.protocol \in {"HTTP2", "GRPC"} -> IF server.tls = None THEN "HTTP" ELSE "HTTPS"
    [] server.protocol = "MONGO" -> "TCP"

KnownProtocols == {"HTTP", "HTTPS", "TCP", "TLS", "HTTP2", "GRPC", "MONGO"}

TLSMode(server) ==
  CASE server.tls \in {"PASSTHROUGH", "AUTO_PASSTHROUGH"} -> "Passthrough"
    [] server.tls \in {"SIMPLE", "MUTUAL"} -> "Terminate"
    [] OTHER -> None

(* Servers without port, and those with a TLS mode Istio alone knows, are  *)
(* skipped; an unknown protocol or mode fails the Gateway.                 *)
Unknown(server) ==
  /\ server.port # None
  /\ \/ server.protocol \notin KnownProtocols
     \/ server.tls = "unknown"

Skipped(server) == server.port = None \/ server.tls \in {"ISTIO_MUTUAL", "OPTIONAL_MUTUAL"}

Servers(gw) == Keep(gw.servers, {s \in ToSet(gw.servers) : ~Skipped(s)})

(* strings.Cut(host, "/"): without a namespace it is "*".                  *)
HostNamespace(host) == IF host.ns = None THEN "*" ELSE host.ns

Listener(server, host) ==
  [name |-> <<Protocol(server), HostNamespace(host), host.dns>>,
   port |-> server.port,
   protocol |-> Protocol(server),
   tls |-> TLSMode(server),
   hostname |-> IF host.dns = <<"*">> THEN None ELSE host.dns]

Listeners(gw) ==
  FlattenSeq([i \in DOMAIN Servers(gw) |->
    [j \in DOMAIN Servers(gw)[i].hosts |-> Listener(Servers(gw)[i], Servers(gw)[i].hosts[j])]])

GatewayHosts(gw) == UNION {ToSet(Servers(gw)[i].hosts) : i \in DOMAIN Servers(gw)}

AllowedHosts(gw) ==
  [ns \in {HostNamespace(h) : h \in GatewayHosts(gw)} |->
    {h.dns : h \in {g \in GatewayHosts(gw) : HostNamespace(g) = ns}}]

GatewayFails(gw) == \E i \in DOMAIN gw.servers : Unknown(gw.servers[i])

-----------------------------------------------------------------------------
(* Hosts: matches, matchAny, convertHostnames                              *)

WildCarded(h) == h # <<>> /\ h[1] = "*"

(* The labels of one end with those of the other, "*" standing for any     *)
(* that precede them.                                                      *)
Matches(h1, h2) ==
  CASE WildCarded(h1) /\ WildCarded(h2) ->
         IsSuffix(Tail(h1), Tail(h2)) \/ IsSuffix(Tail(h2), Tail(h1))
    [] WildCarded(h1) /\ ~WildCarded(h2) ->
         h1 = <<"*">> \/ IsStrictSuffix(Tail(h1), h2)
    [] ~WildCarded(h1) /\ WildCarded(h2) ->
         h2 = <<"*">> \/ IsStrictSuffix(Tail(h2), h1)
    [] OTHER -> h1 = h2

MatchAny(hosts, host) == \E h \in hosts : Matches(host, h)

(* A lone "*" and addresses are no hostnames of a route.                   *)
ConvertHostnames(hosts) ==
  Keep(hosts, ToSet(hosts) \ ({<<"*">>} \cup Addresses))

-----------------------------------------------------------------------------
(* convertVsHTTPRoutes                                                     *)

(* A condition is kept when Gateway API knows its kind of match; the       *)
(* others, like those on scheme, authority or gateways, are dropped.       *)
Supported(cond) ==
  \/ cond.field \in {"header", "query"} /\ cond.kind \in {"exact", "regex"}
  \/ cond.field = "method" /\ cond.kind = "exact"

ConvertMatch(match) ==
  [path |-> IF match.uri \in {"exact", "prefix", "regex"} THEN match.uri ELSE None,
   conds |-> {c \in match.conds : Supported(c)}]

(* destination2backendObjRef: a service without namespace is one of the    *)
(* VirtualService's own; a nil destination gives no reference.             *)
BackendRef(vs, dest) ==
  [service |-> dest.service, ns |-> IF dest.ns = None THEN vs.ns ELSE dest.ns]

BackendRefs(vs, dests) ==
  LET known == Keep(dests, ToSet(dests) \ {None}) IN
  [i \in DOMAIN known |-> BackendRef(vs, known[i])]

(* Filters in the order they are appended.                                 *)
Filters(vs, http) ==
  LET mirrors == BackendRefs(vs, (IF http.mirror = None THEN <<>> ELSE <<http.mirror>>)
                                 \o http.mirrors)
  IN (IF http.redirect THEN <<[type |-> "redirect"]>> ELSE <<>>)
     \o [i \in DOMAIN mirrors |-> [type |-> "mirror", to |-> mirrors[i]]]
     \o (IF "request" \in http.headers THEN <<[type |-> "request headers"]>> ELSE <<>>)
     \o (IF "response" \in http.headers THEN <<[type |-> "response headers"]>> ELSE <<>>)

Rewrite(kind) == [type |-> "rewrite", kind |-> kind]

HTTPName(vs, i) ==
  vs.name \o (IF vs.http[i].name = None THEN <<"idx", ToString(i - 1)>> ELSE vs.http[i].name)

Route(vs, name, matches, filters, dests) ==
  [ns |-> vs.ns, name |-> name, hostnames |-> ConvertHostnames(vs.hosts),
   matches |-> matches, filters |-> filters, backends |-> BackendRefs(vs, dests),
   parents |-> <<>>]

(* Appending one by one doubles the capacity of a slice when it is full:   *)
(* 1, 2, 4, 8.  When there is room, two appends to the same slice write    *)
(* the same place of the same array.                                       *)
Full(filters) == Len(filters) \in {0, 1, 2, 4, 8}

(* Mutant: matches without a path go to neither route.                     *)
PrefixWithPath(matches) == Keep(matches, {m \in ToSet(matches) : m.path = "prefix"})

PrefixMatches(matches) ==
  Keep(matches, {m \in ToSet(matches) : m.path \in {None, "prefix"}})

OtherMatches(matches) ==
  Keep(matches, {m \in ToSet(matches) : m.path \in {"exact", "regex"}})

(* createHTTPRoutesWithRewrite: one route for the exact and regex matches, *)
(* one for the others.                                                     *)
RoutesWithRewrite(vs, name, matches, filters, dests) ==
  LET other == OtherMatches(matches)
      prefix == PrefixMatches(matches)
      both == other # <<>> /\ prefix # <<>>
      full == Append(filters, Rewrite(IF both /\ ~Full(filters) THEN "prefix" ELSE "full"))
  IN (IF other = <<>> THEN <<>> ELSE <<Route(vs, name, other, full, dests)>>)
     \o (IF other # <<>> /\ prefix = <<>> THEN <<>>
         ELSE <<Route(vs, name \o <<"prefix", "match">>, prefix,
                      Append(filters, Rewrite("prefix")), dests)>>)

HTTPRoutes(vs, i) ==
  LET http == vs.http[i]
      matches == [j \in DOMAIN http.matches |-> ConvertMatch(http.matches[j])]
  IN IF http.rewrite
       THEN RoutesWithRewrite(vs, HTTPName(vs, i), matches, Filters(vs, http), http.dests)
       ELSE <<Route(vs, HTTPName(vs, i), matches, Filters(vs, http), http.dests)>>

MirrorConflict(http) == http.mirror # None /\ http.mirrors # <<>>

ServiceFails(vs) == \E i \in DOMAIN vs.http : MirrorConflict(vs.http[i])

AllHTTPRoutes(vs) ==
  IF ServiceFails(vs) THEN <<>> ELSE FlattenSeq([i \in DOMAIN vs.http |-> HTTPRoutes(vs, i)])

-----------------------------------------------------------------------------
(* convertVsTLSRoutes, convertVsTCPRoutes                                  *)

L4Route(vs, i, l4) ==
  [ns |-> vs.ns, name |-> vs.name \o <<"idx", ToString(i - 1)>>,
   hostnames |-> l4.sniHosts, backends |-> BackendRefs(vs, l4.dests), parents |-> <<>>]

L4Routes(vs, list) == [i \in DOMAIN list |-> L4Route(vs, i, list[i])]

-----------------------------------------------------------------------------
(* generateReferences                                                      *)

Referred(vs, ref) == <<IF ref.ns = None THEN vs.ns ELSE ref.ns, ref.name>>

Exported(vs, gateway) ==
  \/ vs.exportTo = {}
  \/ vs.exportTo \cap {gateway[1], "*"} # {}
  \/ "." \in vs.exportTo /\ vs.ns = gateway[1]

(* isVirtualServiceAllowedForGateway                                       *)
IsAllowed(vs, gateway) ==
  /\ Exported(vs, gateway)
  /\ gateway \in DOMAIN allowedHosts
  /\ LET hostsOf == allowedHosts[gateway] IN
     \E h \in ToSet(vs.hosts), ns \in DOMAIN hostsOf :
       /\ ns \in {vs.ns, "*"} \/ (ns = "." /\ vs.ns = gateway[1])
       /\ MatchAny(hostsOf[ns], h)

References(vs) ==
  LET gateways == [i \in DOMAIN vs.gateways |-> Referred(vs, vs.gateways[i])] IN
  Keep(gateways, {g \in ToSet(gateways) : IsAllowed(vs, g)})

(* Kinds of routes a VirtualService has at all.                            *)
RouteKinds(vs) ==
  (IF vs.http # <<>> THEN {"http"} ELSE {}) \cup
  (IF vs.tls # <<>> THEN {"tls"} ELSE {}) \cup (IF vs.tcp # <<>> THEN {"tcp"} ELSE {})

(* Mutant: a VirtualService's TLS and TCP routes are forgotten.            *)
GrantForHTTP(vs, gateway) ==
  [ns |-> gateway[1], name |-> <<vs.ns, gateway[1]>>,
   from |-> vs.ns, kinds |-> {"http"}, to |-> gateway[2]]

(* generateReferenceGrant: named for the two namespaces only.              *)
Grant(vs, gateway) ==
  [ns |-> gateway[1], name |-> <<vs.ns, gateway[1]>>,
   from |-> vs.ns, kinds |-> RouteKinds(vs), to |-> gateway[2]]

Grants(vs) ==
  LET refs == Keep(References(vs), {g \in ToSet(References(vs)) : g[1] # vs.ns}) IN
  [i \in DOMAIN refs |-> Grant(vs, refs[i])]

-----------------------------------------------------------------------------
(* The provider reads its resources into maps by namespace and name, and   *)
(* their fields are slices; None is nothing that a match converts to.      *)
ASSUME InputsAssumption ==
  \A x \in Inputs :
    /\ x = [gateways |-> x.gateways, services |-> x.services]
    /\ \A gw \in x.gateways :
         /\ \A other \in x.gateways : Key(other) = Key(gw) => other = gw
         /\ IsList(gw.servers) /\ \A s \in ToSet(gw.servers) : IsList(s.hosts)
    /\ \A vs \in x.services :
         /\ \A other \in x.services : Key(other) = Key(vs) => other = vs
         /\ IsList(vs.name) /\ IsList(vs.hosts) /\ IsList(vs.gateways)
         /\ IsList(vs.http) /\ IsList(vs.tls) /\ IsList(vs.tcp)
         /\ \A http \in ToSet(vs.http) :
              /\ http.name # None => IsList(http.name)
              /\ IsList(http.matches) /\ IsList(http.mirrors)
              /\ \A m \in ToSet(http.matches) : ConvertMatch(m) # None

(* Assignments to a map in the order of a slice: the last of a name stays. *)
StoreAll(map, objects) ==
  LET keys == [i \in DOMAIN objects |-> Key(objects[i])]
  IN [k \in DOMAIN map \cup ToSet(keys) |->
        IF k \in ToSet(keys) THEN objects[LastOf(keys, k)] ELSE map[k]]

WithParents(routes, parents) ==
  [i \in DOMAIN routes |-> [routes[i] EXCEPT !.parents = parents]]

EmptyIR == [gateways |-> <<>>, http |-> <<>>, tls |-> <<>>, tcp |-> <<>>, grants |-> <<>>]

Init ==
  /\ input \in Inputs
  /\ todo = input
  /\ allowedHosts = <<>>
  /\ ir = EmptyIR
  /\ errors = {}

(* Mutant: the hosts of a Gateway are known though it is not converted.    *)
ConvertGatewayLate ==
  \E gw \in todo.gateways :
    /\ todo' = [todo EXCEPT !.gateways = @ \ {gw}]
    /\ allowedHosts' = Put(allowedHosts, Key(gw), AllowedHosts(gw))
    /\ IF GatewayFails(gw)
         THEN /\ errors' = errors \cup {<<"Gateway", Key(gw)>>}
              /\ UNCHANGED ir
         ELSE /\ ir' = [ir EXCEPT !.gateways = Put(@, Key(gw), Listeners(gw))]
              /\ UNCHANGED errors
    /\ UNCHANGED input

ConvertGateway ==
  \E gw \in todo.gateways :
    /\ todo' = [todo EXCEPT !.gateways = @ \ {gw}]
    /\ IF GatewayFails(gw)
         THEN /\ errors' = errors \cup {<<"Gateway", Key(gw)>>}
              /\ UNCHANGED <<allowedHosts, ir>>
         ELSE /\ allowedHosts' = Put(allowedHosts, Key(gw), AllowedHosts(gw))
              /\ ir' = [ir EXCEPT !.gateways = Put(@, Key(gw), Listeners(gw))]
              /\ UNCHANGED errors
    /\ UNCHANGED input

(* Routes of a VirtualService with an error are dropped, but not those for *)
(* TLS and TCP.                                                            *)
ConvertVirtualService ==
  /\ todo.gateways = {}
  /\ \E vs \in todo.services :
       /\ todo' = [todo EXCEPT !.services = @ \ {vs}]
       /\ ir' = [ir EXCEPT
            !.http = StoreAll(@, WithParents(AllHTTPRoutes(vs), References(vs))),
            !.tls = StoreAll(@, WithParents(L4Routes(vs, vs.tls), References(vs))),
            !.tcp = StoreAll(@, WithParents(L4Routes(vs, vs.tcp), References(vs))),
            !.grants = StoreAll(@, Grants(vs))]
       /\ errors' = errors \cup (IF ServiceFails(vs) THEN {<<"VirtualService", Key(vs)>>} ELSE {})
  /\ UNCHANGED <<input, allowedHosts>>

Converted == todo.gateways = {} /\ todo.services = {}

Done == Converted /\ UNCHANGED vars

Next == ConvertGateway \/ ConvertVirtualService \/ Done

Spec == Init /\ [][Next]_vars

-----------------------------------------------------------------------------
RangeOf(map) == {map[k] : k \in DOMAIN map}

(* Does a server of the Gateway select this host of the VirtualService?    *)
(* (README.md of the provider, "Generated ReferenceGrants ...")            *)
Binds(gw, vs, h) ==
  /\ \E i \in DOMAIN vs.gateways : Referred(vs, vs.gateways[i]) = Key(gw)
  /\ Exported(vs, Key(gw))
  /\ \E s \in ToSet(Servers(gw)) : \E x \in ToSet(s.hosts) :
       /\ x.ns \in {None, "*", vs.ns} \/ (x.ns = "." /\ vs.ns = gw.ns)
       /\ Matches(x.dns, h)

RouteKeys(vs, i) == {Key(r) : r \in ToSet(HTTPRoutes(vs, i))}

(* Another route of the same name was, or will be, stored as well.         *)
NameClash(vs, i) ==
  \E w \in input.services : ~ServiceFails(w) /\ \E j \in DOMAIN w.http :
    /\ <<Key(w), j>> # <<Key(vs), i>>
    /\ RouteKeys(w, j) \cap RouteKeys(vs, i) # {}

(* The hostnames of a route answer a host that is one of them; without     *)
(* hostnames, any host.                                                    *)
Answers(route, h) == route.hostnames = <<>> \/ h \in ToSet(route.hostnames)

IsRewrite(filter) == filter.type = "rewrite"

(* Every request a VirtualService routes through a Gateway of its own      *)
(* namespace is still routed once all is converted: a listener and a route *)
(* of that Gateway take its host, and a match and the backends are the     *)
(* ones asked for, rewritten if asked for.  Not so for hosts that are      *)
(* addresses, for "*" next to other hosts, for a VirtualService or Gateway *)
(* with an error, and when two routes get the same name.                   *)
RequestsServed ==
  Converted =>
    \A gw \in input.gateways, vs \in input.services :
      \A h \in ToSet(vs.hosts), i \in DOMAIN vs.http :
        /\ Binds(gw, vs, h) /\ gw.ns = vs.ns
        /\ {<<"Gateway", Key(gw)>>, <<"VirtualService", Key(vs)>>} \cap errors = {}
        /\ h \notin Addresses /\ (h = <<"*">> => ConvertHostnames(vs.hosts) = <<>>)
        /\ ~NameClash(vs, i)
        => /\ \E l \in ToSet(ir.gateways[Key(gw)]) : l.hostname = None \/ Matches(l.hostname, h)
           /\ \A m \in {ConvertMatch(x) : x \in ToSet(vs.http[i].matches)} \cup {None} :
                m # None \/ vs.http[i].matches = <<>> =>
                \E r \in RangeOf(ir.http) :
                  /\ Key(r) \in RouteKeys(vs, i) /\ Answers(r, h)
                  /\ Key(gw) \in ToSet(r.parents)
                  /\ IF m = None THEN r.matches = <<>> ELSE m \in ToSet(r.matches)
                  /\ r.backends = BackendRefs(vs, vs.http[i].dests)
                  /\ vs.http[i].rewrite => \E f \in ToSet(r.filters) : IsRewrite(f)

(* No route takes requests nobody asked for: it answers other hosts than   *)
(* its VirtualService's only if that had nothing but "*" and addresses,    *)
(* its matches and backends are those of one of its HTTP routes, and its   *)
(* parents are Gateways that were converted.                               *)
RoutesTellTruth ==
  \A r \in RangeOf(ir.http) :
    /\ ToSet(r.parents) \subseteq DOMAIN ir.gateways
    /\ \E vs \in input.services : \E i \in DOMAIN vs.http :
         /\ r.ns = vs.ns
         /\ ToSet(r.hostnames) \subseteq ToSet(vs.hosts)
         /\ r.hostnames = <<>> => ToSet(vs.hosts) \subseteq {<<"*">>} \cup Addresses
         /\ r.matches = <<>> <=> vs.http[i].matches = <<>>
         /\ ToSet(r.matches) \subseteq {ConvertMatch(m) : m \in ToSet(vs.http[i].matches)}
         /\ r.backends = BackendRefs(vs, vs.http[i].dests)

(* A route whose Gateway is in another namespace comes with a grant for    *)
(* its kind and that Gateway, unless a reference with the same pair of     *)
(* namespaces, to another Gateway or from another VirtualService, writes a *)
(* grant of the same name.                                                 *)
GrantsCover ==
  Converted =>
    \A vs \in input.services : \A g \in ToSet(References(vs)) :
      /\ g[1] # vs.ns
      /\ \A w \in input.services : \A o \in ToSet(References(w)) :
           w.ns = vs.ns /\ o[1] = g[1] => w = vs /\ o = g
      => \E x \in RangeOf(ir.grants) :
           /\ x.ns = g[1] /\ x.to = g[2] /\ x.from = vs.ns
           /\ \A r \in RangeOf(ir.http) \cup RangeOf(ir.tls) \cup RangeOf(ir.tcp) :
                r.ns = vs.ns /\ g \in ToSet(r.parents) =>
                  \E k \in x.kinds : r \in RangeOf(ir[k])

(* What converter.go:756 says of rewrites: the route for matches that are  *)
(* not prefixes replaces the full path, the other one the prefix.          *)
RewritesFit ==
  \A r \in RangeOf(ir.http) : \A f \in ToSet(r.filters) :
    IsRewrite(f) =>
      f.kind = IF OtherMatches(r.matches) = <<>> THEN "prefix" ELSE "full"

=============================================================================
