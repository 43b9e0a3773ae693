----------------------------- MODULE Istio_proof -----------------------------
(***************************************************************************)
(* TLAPS proofs about Istio: any number of Gateways and VirtualServices    *)
(* with any servers, hosts, matches, filters and names, converted in any   *)
(* order.                                                                  *)
(*                                                                         *)
(* IInv says for every resource the loops are through with what is stored  *)
(* for it, and for everything stored whose it is.  References, on which    *)
(* all of it depends, reads allowedHosts: it stands still only because the *)
(* second loop starts when the first has ended.                            *)
(***************************************************************************)
EXTENDS Istio, Lists_proof

(* The VirtualServices the second loop is through with.                    *)
Through == input.services \ todo.services

(* All Gateways come before the first VirtualService.                      *)
LoopInv ==
  /\ input \in Inputs
  /\ DOMAIN todo = {"gateways", "services"}
  /\ todo.gateways \subseteq input.gateways /\ todo.services \subseteq input.services
  /\ todo.gateways # {} => todo.services = input.services
  /\ DOMAIN ir = {"gateways", "http", "tls", "tcp", "grants"}

(* What becomes of a Gateway stays, its hosts beside its listeners.        *)
GatewaysInv ==
  /\ DOMAIN allowedHosts = DOMAIN ir.gateways
  /\ \A gw \in input.gateways \ todo.gateways :
       IF GatewayFails(gw) THEN <<"Gateway", Key(gw)>> \in errors
       ELSE /\ Key(gw) \in DOMAIN ir.gateways
            /\ ir.gateways[Key(gw)] = Listeners(gw)
            /\ allowedHosts[Key(gw)] = AllowedHosts(gw)

(* The matches the HTTP route i of vs asks for.                            *)
Asked(vs, i) == {ConvertMatch(m) : m \in ToSet(vs.http[i].matches)}

(* What the HTTP route i of vs asks for, in the words of RoutesTellTruth.  *)
AskedFor(vs, i, r) ==
  /\ r.ns = vs.ns
  /\ ToSet(r.hostnames) \subseteq ToSet(vs.hosts)
  /\ r.hostnames = <<>> => ToSet(vs.hosts) \subseteq {<<"*">>} \cup Addresses
  /\ r.matches = <<>> <=> vs.http[i].matches = <<>>
  /\ ToSet(r.matches) \subseteq Asked(vs, i)
  /\ r.backends = BackendRefs(vs, vs.http[i].dests)

(* A stored route is one of a VirtualService that has routes of its kind.  *)
Owned(r, vs, kind) ==
  /\ r.ns = vs.ns /\ r.parents = References(vs) /\ vs[kind] # <<>>

RoutesInv ==
  /\ \A kind \in {"http", "tls", "tcp"} :
       \A r \in RangeOf(ir[kind]) : \E vs \in Through : Owned(r, vs, kind)
  /\ \A r \in RangeOf(ir.http) : \E vs \in input.services : \E i \in DOMAIN vs.http : AskedFor(vs, i, r)

(* Nothing overwrites a route whose name is its own.                       *)
ServicesInv ==
  \A vs \in Through :
    IF ServiceFails(vs) THEN <<"VirtualService", Key(vs)>> \in errors
    ELSE \A i \in DOMAIN vs.http : ~NameClash(vs, i) =>
           \A r \in ToSet(HTTPRoutes(vs, i)) :
             /\ Key(r) \in DOMAIN ir.http
             /\ ir.http[Key(r)] = [r EXCEPT !.parents = References(vs)]

(* A grant is named for its namespaces, and none that is due is missing.   *)
GrantsInv ==
  /\ \A vs \in Through : \A g \in ToSet(References(vs)) :
       g[1] # vs.ns => Key(Grant(vs, g)) \in DOMAIN ir.grants
  /\ \A k \in DOMAIN ir.grants : \E vs \in Through : \E g \in ToSet(References(vs)) :
       g[1] # vs.ns /\ ir.grants[k] = Grant(vs, g) /\ k = Key(Grant(vs, g))

IInv == LoopInv /\ GatewaysInv /\ RoutesInv /\ ServicesInv /\ GrantsInv

-----------------------------------------------------------------------------
(* Hosts, names and maps.                                                  *)

(* Which host comes first makes no difference to a match.                  *)
LEMMA MatchesSymmetric ==
  ASSUME NEW h1, NEW h2
  PROVE  Matches(h1, h2) <=> Matches(h2, h1)
<1>1. CASE WildCarded(h1) /\ WildCarded(h2)
  BY <1>1 DEF Matches
<1>2. CASE WildCarded(h1) /\ ~WildCarded(h2)
  BY <1>2 DEF Matches
<1>3. CASE ~WildCarded(h1) /\ WildCarded(h2)
  BY <1>3 DEF Matches
<1>4. CASE ~WildCarded(h1) /\ ~WildCarded(h2)
  BY <1>4 DEF Matches
<1> QED
  BY <1>1, <1>2, <1>3, <1>4

(* The names objects are stored at.                                        *)
Keys(objects) == {Key(o) : o \in ToSet(objects)}

(* A map after a loop that stores objects: those stored stay unless one of *)
(* the new ones has their name.                                            *)
LEMMA Stored ==
  ASSUME NEW map, NEW objects, IsList(objects)
  PROVE  /\ DOMAIN StoreAll(map, objects) = DOMAIN map \cup Keys(objects)
         /\ \A k \in Keys(objects) : /\ StoreAll(map, objects)[k] \in ToSet(objects)
                                     /\ Key(StoreAll(map, objects)[k]) = k
         /\ \A k \in DOMAIN map \ Keys(objects) : StoreAll(map, objects)[k] = map[k]
<1> DEFINE keys == [i \in DOMAIN objects |-> Key(objects[i])]
<1>1. ToSet(keys) = Keys(objects)
  BY DEF ToSet, Keys
<1>2. keys \in [DOMAIN objects -> Keys(objects)]
  BY DEF ToSet, Keys
<1>3. IsList(keys) /\ DOMAIN keys = DOMAIN objects
  BY <1>2, MadeList
<1>4. \A i \in DOMAIN objects : keys[i] = Key(objects[i]) /\ objects[i] \in ToSet(objects)
  BY InToSet
<1>5. StoreAll(map, objects) =
        [k \in DOMAIN map \cup ToSet(keys) |->
           IF k \in ToSet(keys) THEN objects[LastOf(keys, k)] ELSE map[k]]
  BY DEF StoreAll
<1> HIDE DEF keys
<1>6. \A k \in Keys(objects) :
        LET o == objects[LastOf(keys, k)] IN o \in ToSet(objects) /\ Key(o) = k
  <2> TAKE k \in Keys(objects)
  <2>1. LastOf(keys, k) \in DOMAIN keys /\ keys[LastOf(keys, k)] = k
    BY <1>1, <1>3, LastStays
  <2> QED
    BY <1>1, <1>3, <1>4, <2>1
<1>7. /\ DOMAIN StoreAll(map, objects) = DOMAIN map \cup Keys(objects)
      /\ \A k \in Keys(objects) : StoreAll(map, objects)[k] = objects[LastOf(keys, k)]
      /\ \A k \in DOMAIN map \ Keys(objects) : StoreAll(map, objects)[k] = map[k]
  BY <1>1, <1>5
<1> QED
  BY <1>6, <1>7

-----------------------------------------------------------------------------
(* The routes of a VirtualService.                                         *)

RouteFields == {"ns", "name", "hostnames", "matches", "filters", "backends", "parents"}

(* What InputsAssumption says of one VirtualService.                       *)
LEMMA ServiceLists ==
  ASSUME NEW x \in Inputs, NEW vs \in x.services
  PROVE  /\ IsList(vs.name) /\ IsList(vs.hosts) /\ IsList(vs.gateways)
         /\ IsList(vs.http) /\ IsList(vs.tls) /\ IsList(vs.tcp)
BY InputsAssumption

(* What it says of one of its HTTP routes.                                 *)
LEMMA HTTPLists ==
  ASSUME NEW x \in Inputs, NEW vs \in x.services, NEW i \in DOMAIN vs.http
  PROVE  /\ vs.http[i].name # None => IsList(vs.http[i].name)
         /\ IsList(vs.http[i].matches) /\ IsList(vs.http[i].mirrors)
         /\ \A m \in ToSet(vs.http[i].matches) : ConvertMatch(m) # None
<1>1. vs.http[i] \in ToSet(vs.http)
  BY InToSet
<1> QED
  BY <1>1, InputsAssumption

(* References to backends are a list.                                      *)
LEMMA BackendsAreList ==
  ASSUME NEW vs, NEW dests, IsList(dests)
  PROVE  IsList(BackendRefs(vs, dests))
<1> DEFINE known == Keep(dests, ToSet(dests) \ {None})
           refs == [i \in DOMAIN known |-> BackendRef(vs, known[i])]
<1>1. IsList(known)
  BY KeepList
<1> HIDE DEF known
<1>2. refs \in [DOMAIN known -> {BackendRef(vs, known[i]) : i \in DOMAIN known}]
  OBVIOUS
<1>3. IsList(refs)
  BY <1>1, <1>2, MadeList
<1> QED
  BY <1>3 DEF BackendRefs, known

(* So are filters.                                                         *)
LEMMA FiltersAreList ==
  ASSUME NEW vs, NEW http, IsList(http.mirrors)
  PROVE  IsList(Filters(vs, http))
<1> DEFINE asked == (IF http.mirror = None THEN <<>> ELSE <<http.mirror>>) \o http.mirrors
           mirrors == BackendRefs(vs, asked)
           made == [i \in DOMAIN mirrors |-> [type |-> "mirror", to |-> mirrors[i]]]
           F == {[type |-> "mirror", to |-> mirrors[i]] : i \in DOMAIN mirrors} \cup
                {[type |-> "redirect"], [type |-> "request headers"], [type |-> "response headers"]}
           redirect == IF http.redirect THEN <<[type |-> "redirect"]>> ELSE <<>>
           request == IF "request" \in http.headers THEN <<[type |-> "request headers"]>> ELSE <<>>
           response == IF "response" \in http.headers THEN <<[type |-> "response headers"]>> ELSE <<>>
<1>1. IsList(asked)
  <2> DEFINE X == ToSet(http.mirrors) \cup {http.mirror}
  <2>1. http.mirrors \in Seq(ToSet(http.mirrors))
    BY ListShape
  <2>2. http.mirrors \in Seq(X)
    BY <2>1
  <2>3. <<>> \in Seq(X) /\ <<http.mirror>> \in Seq(X)
    OBVIOUS
  <2> HIDE DEF X
  <2>4. asked \in Seq(X)
    <3> DEFINE one == IF http.mirror = None THEN <<>> ELSE <<http.mirror>>
    <3>1. one \in Seq(X)
      BY <2>3
    <3> HIDE DEF one
    <3>2. one \o http.mirrors \in Seq(X)
      BY <2>2, <3>1, ConcatHolds
    <3> QED
      BY <3>2 DEF one
  <2> QED
    BY <2>4, SeqIsList
<1> HIDE DEF asked
<1>2. IsList(mirrors)
  BY <1>1, BackendsAreList
<1> HIDE DEF mirrors
<1>3. made \in [DOMAIN mirrors -> F]
  OBVIOUS
<1>4. made \in Seq(F)
  BY <1>2, <1>3, MadeList
<1> HIDE DEF made
<1>5. /\ [type |-> "redirect"] \in F
      /\ [type |-> "request headers"] \in F
      /\ [type |-> "response headers"] \in F
  OBVIOUS
<1> HIDE DEF F
<1>6. redirect \in Seq(F)
  BY <1>5, LiteralHolds
<1>7. request \in Seq(F)
  BY <1>5, LiteralHolds
<1>8. response \in Seq(F)
  BY <1>5, LiteralHolds
<1>9. Filters(vs, http) = redirect \o made \o request \o response
  BY DEF Filters, made, mirrors, asked
<1> HIDE DEF redirect, request, response
<1>10. redirect \o made \in Seq(F)
  BY <1>4, <1>6, ConcatHolds
<1>11. redirect \o made \o request \in Seq(F)
  BY <1>7, <1>10, ConcatHolds
<1>12. Filters(vs, http) \in Seq(F)
  BY <1>8, <1>9, <1>11, ConcatHolds
<1> QED
  BY <1>12, SeqIsList

(* A name is a list of words, longer with another suffix.                  *)
LEMMA NamesDiffer ==
  ASSUME NEW x \in Inputs, NEW vs \in x.services, NEW i \in DOMAIN vs.http
  PROVE  HTTPName(vs, i) # HTTPName(vs, i) \o <<"prefix", "match">>
<1> DEFINE suffix == IF vs.http[i].name = None THEN <<"idx", ToString(i - 1)>> ELSE vs.http[i].name
<1>1. IsList(suffix)
  <2>1. CASE vs.http[i].name = None
    <3>1. <<"idx", ToString(i - 1)>> \in Seq({"idx", ToString(i - 1)})
      OBVIOUS
    <3>2. IsList(<<"idx", ToString(i - 1)>>)
      BY <3>1, SeqIsList
    <3> QED
      BY <2>1, <3>2
  <2>2. CASE vs.http[i].name # None
    BY <2>2, HTTPLists
  <2> QED
    BY <2>1, <2>2
<1> HIDE DEF suffix
<1>2. vs.name \in Seq(ToSet(vs.name)) /\ suffix \in Seq(ToSet(suffix))
  BY <1>1, ServiceLists, ListShape
<1> DEFINE W == ToSet(vs.name) \cup ToSet(suffix) \cup {"prefix", "match"}
<1>3. vs.name \in Seq(W) /\ suffix \in Seq(W) /\ <<"prefix", "match">> \in Seq(W)
  BY <1>2
<1> HIDE DEF W
<1>4. HTTPName(vs, i) = vs.name \o suffix
  BY DEF HTTPName, suffix
<1>5. HTTPName(vs, i) \in Seq(W)
  BY <1>3, <1>4
<1>6. Len(HTTPName(vs, i) \o <<"prefix", "match">>) = Len(HTTPName(vs, i)) + 2
  BY <1>3, <1>5
<1>7. Len(HTTPName(vs, i)) \in Nat
  BY <1>5
<1> QED
  BY <1>6, <1>7

(* A route's hostnames are hosts of its VirtualService, all those that are *)
(* hostnames at all.                                                       *)
LEMMA HostnamesKept ==
  ASSUME NEW hosts, IsList(hosts)
  PROVE  ToSet(ConvertHostnames(hosts)) = ToSet(hosts) \ ({<<"*">>} \cup Addresses)
         /\ (ConvertHostnames(hosts) = <<>> <=> ToSet(hosts) \subseteq {<<"*">>} \cup Addresses)
<1> DEFINE S == ToSet(hosts) \ ({<<"*">>} \cup Addresses)
<1>1. ConvertHostnames(hosts) = Keep(hosts, S)
  BY DEF ConvertHostnames
<1>2. ToSet(hosts) \cap S = S
  OBVIOUS
<1>3. ToSet(Keep(hosts, S)) = S /\ (Keep(hosts, S) = <<>> <=> S = {})
  BY <1>2, KeepList
<1> QED
  BY <1>1, <1>3

(* Some of the matches asked for, and none only if there are none.         *)
SomeAsked(vs, i, matches) ==
  /\ matches = <<>> <=> vs.http[i].matches = <<>>
  /\ ToSet(matches) \subseteq Asked(vs, i)

(* One route, whose matches are some of those asked for.                   *)
LEMMA OneRoute ==
  ASSUME NEW x \in Inputs, NEW vs \in x.services, NEW i \in DOMAIN vs.http,
         NEW name, NEW matches, NEW filters,
         SomeAsked(vs, i, matches)
  PROVE  LET r == Route(vs, name, matches, filters, vs.http[i].dests) IN
         /\ DOMAIN r = RouteFields
         /\ AskedFor(vs, i, r)
         /\ Key(r) = <<vs.ns, name>>
         /\ r.hostnames = ConvertHostnames(vs.hosts)
         /\ r.matches = matches
         /\ r.filters = filters
<1> DEFINE r == Route(vs, name, matches, filters, vs.http[i].dests)
<1>1. /\ DOMAIN r = RouteFields
      /\ r.ns = vs.ns /\ r.name = name
      /\ r.hostnames = ConvertHostnames(vs.hosts)
      /\ r.matches = matches /\ r.filters = filters
      /\ r.backends = BackendRefs(vs, vs.http[i].dests)
  BY DEF Route, RouteFields
<1> HIDE DEF r
<1>2. /\ ToSet(r.hostnames) \subseteq ToSet(vs.hosts)
      /\ r.hostnames = <<>> => ToSet(vs.hosts) \subseteq {<<"*">>} \cup Addresses
  BY <1>1, ServiceLists, HostnamesKept
<1>3. AskedFor(vs, i, r)
  BY <1>1, <1>2 DEF AskedFor, SomeAsked
<1>4. Key(r) = <<vs.ns, name>>
  BY <1>1 DEF Key
<1> QED
  BY <1>1, <1>3, <1>4 DEF r

(* Together, the routes of an HTTP route answer every match once.          *)
LEMMA RoutesOf ==
  ASSUME NEW x \in Inputs, NEW vs \in x.services, NEW i \in DOMAIN vs.http
  PROVE  LET rs == ToSet(HTTPRoutes(vs, i))
             http == vs.http[i]
         IN /\ IsList(HTTPRoutes(vs, i))
            /\ rs # {}
            /\ \A r \in rs : /\ DOMAIN r = RouteFields
                             /\ AskedFor(vs, i, r)
                             /\ r.hostnames = ConvertHostnames(vs.hosts)
                             /\ http.rewrite => \E f \in ToSet(r.filters) : IsRewrite(f)
            /\ \A r, q \in rs : Key(r) = Key(q) => r = q
            /\ \A m \in Asked(vs, i) : \E r \in rs : m \in ToSet(r.matches)
<1> DEFINE http == vs.http[i]
           rs == ToSet(HTTPRoutes(vs, i))
           asked == Asked(vs, i)
           matches == [j \in DOMAIN http.matches |-> ConvertMatch(http.matches[j])]
           name == HTTPName(vs, i)
           filters == Filters(vs, http)
           Fits(r) == /\ DOMAIN r = RouteFields
                      /\ AskedFor(vs, i, r)
                      /\ r.hostnames = ConvertHostnames(vs.hosts)
<1>1. IsList(http.matches)
  BY HTTPLists
<1>2. matches \in [DOMAIN http.matches -> asked] /\ ToSet(matches) = asked
  BY DEF ToSet, Asked
<1> HIDE DEF matches
<1>3. IsList(matches) /\ (matches = <<>> <=> http.matches = <<>>)
  BY <1>1, <1>2, MadeList
<1>4. http.matches = <<>> <=> asked = {}
  BY <1>2, <1>3, ListShape
<1> HIDE DEF filters
<1>5. CASE ~http.rewrite
  <2> DEFINE r == Route(vs, name, matches, filters, http.dests)
  <2>1. HTTPRoutes(vs, i) = <<r>>
    BY <1>5 DEF HTTPRoutes, matches, filters
  <2>2. Fits(r) /\ r.matches = matches
    <3>1. SomeAsked(vs, i, matches)
      BY <1>2, <1>3 DEF SomeAsked
    <3> QED
      BY <3>1, OneRoute
  <2> HIDE DEF r
  <2>3. <<r>> \in Seq({r}) /\ ToSet(<<r>>) = {r}
    BY DEF ToSet
  <2>4. IsList(<<r>>)
    BY <2>3, SeqIsList
  <2> QED
    BY <1>2, <1>5, <2>1, <2>2, <2>3, <2>4
<1>6. CASE http.rewrite
  <2> DEFINE other == OtherMatches(matches)
             prefix == PrefixMatches(matches)
             both == other # <<>> /\ prefix # <<>>
             kind == IF both /\ ~Full(filters) THEN "prefix" ELSE "full"
             full == Append(filters, Rewrite(kind))
             part == Append(filters, Rewrite("prefix"))
             r == Route(vs, name, other, full, http.dests)
             long == name \o <<"prefix", "match">>
             q == Route(vs, long, prefix, part, http.dests)
             made1 == IF other = <<>> THEN <<>> ELSE <<r>>
             made2 == IF other # <<>> /\ prefix = <<>> THEN <<>> ELSE <<q>>
  <2>1. HTTPRoutes(vs, i) = made1 \o made2
    BY <1>6 DEF HTTPRoutes, RoutesWithRewrite, matches, filters
  <2>2. /\ ToSet(other) = {m \in asked : m.path \in {"exact", "regex"}}
        /\ other = <<>> <=> ToSet(other) = {}
    <3> DEFINE S == {m \in ToSet(matches) : m.path \in {"exact", "regex"}}
    <3>1. ToSet(matches) \cap S = {m \in asked : m.path \in {"exact", "regex"}}
      BY <1>2
    <3> HIDE DEF S
    <3>2. ToSet(Keep(matches, S)) = ToSet(matches) \cap S
          /\ (Keep(matches, S) = <<>> <=> ToSet(matches) \cap S = {})
      BY <1>3, KeepList
    <3> QED
      BY <3>1, <3>2 DEF OtherMatches, S
  <2>3. /\ ToSet(prefix) = {m \in asked : m.path \in {None, "prefix"}}
        /\ prefix = <<>> <=> ToSet(prefix) = {}
    <3> DEFINE S == {m \in ToSet(matches) : m.path \in {None, "prefix"}}
    <3>1. ToSet(matches) \cap S = {m \in asked : m.path \in {None, "prefix"}}
      BY <1>2
    <3> HIDE DEF S
    <3>2. ToSet(Keep(matches, S)) = ToSet(matches) \cap S
          /\ (Keep(matches, S) = <<>> <=> ToSet(matches) \cap S = {})
      BY <1>3, KeepList
    <3> QED
      BY <3>1, <3>2 DEF PrefixMatches, S
  <2>4. asked = ToSet(other) \cup ToSet(prefix)
    <3>1. \A m \in asked : m.path \in {"exact", "prefix", "regex", None}
      BY DEF ConvertMatch, Asked
    <3> QED
      BY <2>2, <2>3, <3>1
  <2>5. /\ \E f \in ToSet(full) : IsRewrite(f)
        /\ \E f \in ToSet(part) : IsRewrite(f)
    <3> DEFINE F == ToSet(filters) \cup {Rewrite("full"), Rewrite("prefix")}
    <3>1. filters \in Seq(ToSet(filters))
      BY HTTPLists, FiltersAreList, ListShape DEF filters
    <3>2. filters \in Seq(F) /\ Rewrite(kind) \in F /\ Rewrite("prefix") \in F
      BY <3>1
    <3> HIDE DEF F, kind
    <3>3. Rewrite(kind) \in ToSet(full) /\ Rewrite("prefix") \in ToSet(part)
      BY <3>2, AppendHolds
    <3>4. IsRewrite(Rewrite(kind)) /\ IsRewrite(Rewrite("prefix"))
      BY DEF IsRewrite, Rewrite
    <3> QED
      BY <3>3, <3>4
  <2> HIDE DEF other, prefix, full, part, long
  <2>6. other # <<>> => Fits(r) /\ r.matches = other /\ r.filters = full /\ Key(r) = <<vs.ns, name>>
    <3> SUFFICES ASSUME other # <<>>
                 PROVE  Fits(r) /\ r.matches = other /\ r.filters = full /\ Key(r) = <<vs.ns, name>>
      OBVIOUS
    <3>1. SomeAsked(vs, i, other)
      BY <1>4, <2>2, <2>4 DEF SomeAsked
    <3> HIDE DEF name, Fits
    <3>2. DOMAIN r = RouteFields
      BY <3>1, OneRoute
    <3>3. Key(r) = <<vs.ns, name>>
      BY DEF Key, Route
    <3>4. AskedFor(vs, i, r)
      BY <3>1, OneRoute
    <3>5. r.filters = full
      BY <3>1, OneRoute
    <3>6. r.matches = other
      BY <3>1, OneRoute
    <3>7. r.hostnames = ConvertHostnames(vs.hosts)
      BY <3>1, OneRoute
    <3> QED
      BY <3>2, <3>3, <3>4, <3>5, <3>6, <3>7 DEF Fits
  <2>7. (other = <<>> \/ prefix # <<>>) =>
          Fits(q) /\ q.matches = prefix /\ q.filters = part
          /\ Key(q) = <<vs.ns, long>>
    <3> SUFFICES ASSUME other = <<>> \/ prefix # <<>>
                 PROVE  Fits(q) /\ q.matches = prefix /\ q.filters = part
                        /\ Key(q) = <<vs.ns, long>>
      OBVIOUS
    <3>1. SomeAsked(vs, i, prefix)
      BY <1>4, <2>2, <2>3, <2>4 DEF SomeAsked
    <3> HIDE DEF name, Fits
    <3>2. DOMAIN q = RouteFields
      BY <3>1, OneRoute
    <3>3. Key(q) = <<vs.ns, long>>
      BY DEF Key, Route
    <3>4. AskedFor(vs, i, q)
      BY <3>1, OneRoute
    <3>5. q.filters = part
      BY <3>1, OneRoute
    <3>6. q.matches = prefix
      BY <3>1, OneRoute
    <3>7. q.hostnames = ConvertHostnames(vs.hosts)
      BY <3>1, OneRoute
    <3> QED
      BY <3>2, <3>3, <3>4, <3>5, <3>6, <3>7 DEF Fits
  <2>8. name # long
    BY NamesDiffer DEF long
  <2> HIDE DEF name, r, q, Fits
  <2>9. /\ IsList(HTTPRoutes(vs, i))
        /\ rs = (IF other = <<>> THEN {} ELSE {r})
                \cup (IF other # <<>> /\ prefix = <<>> THEN {} ELSE {q})
    <3> DEFINE X == {r, q}
    <3>1. <<>> \in Seq(X) /\ <<r>> \in Seq(X) /\ <<q>> \in Seq(X)
      OBVIOUS
    <3>2. ToSet(<<>>) = {} /\ ToSet(<<r>>) = {r} /\ ToSet(<<q>>) = {q}
      BY LiteralHolds
    <3> HIDE DEF X
    <3>3. made1 \in Seq(X) /\ made2 \in Seq(X)
      BY <3>1
    <3>4. ToSet(made1) = (IF other = <<>> THEN {} ELSE {r})
          /\ ToSet(made2) = (IF other # <<>> /\ prefix = <<>> THEN {} ELSE {q})
      BY <3>2
    <3> HIDE DEF made1, made2
    <3>5. made1 \o made2 \in Seq(X) /\ ToSet(made1 \o made2) = ToSet(made1) \cup ToSet(made2)
      BY <3>3, ConcatHolds
    <3>6. IsList(made1 \o made2)
      BY <3>5, SeqIsList
    <3> QED
      BY <2>1, <3>4, <3>5, <3>6
  <2> HIDE DEF rs
  <2>10. rs # {}
    BY <2>9
  <2>11. \A p \in rs : Fits(p) /\ \E f \in ToSet(p.filters) : IsRewrite(f)
    BY <2>5, <2>6, <2>7, <2>9
  <2>12. \A p, o \in rs : Key(p) = Key(o) => p = o
    BY <2>6, <2>7, <2>8, <2>9
  <2>13. \A m \in asked : \E p \in rs : m \in ToSet(p.matches)
    BY <2>2, <2>3, <2>4, <2>6, <2>7, <2>9
  <2> QED
    BY <2>9, <2>10, <2>11, <2>12, <2>13 DEF Fits, rs
<1> QED
  BY <1>5, <1>6

(* The routes of a VirtualService without an error are those of its HTTP   *)
(* routes.                                                                 *)
LEMMA AllRoutesOf ==
  ASSUME NEW x \in Inputs, NEW vs \in x.services
  PROVE  /\ IsList(AllHTTPRoutes(vs))
         /\ \A r : r \in ToSet(AllHTTPRoutes(vs)) <=>
              ~ServiceFails(vs) /\ \E i \in DOMAIN vs.http : r \in ToSet(HTTPRoutes(vs, i))
<1> DEFINE parts == [i \in DOMAIN vs.http |-> HTTPRoutes(vs, i)]
           X == UNION {ToSet(HTTPRoutes(vs, i)) : i \in DOMAIN vs.http}
<1>1. CASE ServiceFails(vs)
  <2>1. AllHTTPRoutes(vs) = <<>>
    BY <1>1 DEF AllHTTPRoutes
  <2>2. <<>> \in Seq({0}) /\ ToSet(<<>>) = {}
    BY LiteralHolds
  <2>3. IsList(<<>>)
    BY <2>2, SeqIsList
  <2> QED
    BY <1>1, <2>1, <2>2, <2>3
<1>2. CASE ~ServiceFails(vs)
  <2>1. AllHTTPRoutes(vs) = FlattenSeq(parts)
    BY <1>2 DEF AllHTTPRoutes
  <2>2. \A i \in DOMAIN vs.http : HTTPRoutes(vs, i) \in Seq(X)
    <3> TAKE i \in DOMAIN vs.http
    <3>1. IsList(HTTPRoutes(vs, i))
      BY RoutesOf
    <3>2. HTTPRoutes(vs, i) \in Seq(ToSet(HTTPRoutes(vs, i)))
      BY <3>1, ListShape
    <3>3. ToSet(HTTPRoutes(vs, i)) \subseteq X
      OBVIOUS
    <3> QED
      BY <3>2, <3>3
  <2> HIDE DEF X
  <2>3. parts \in [DOMAIN vs.http -> Seq(X)]
    BY <2>2
  <2>4. \A i \in DOMAIN vs.http : parts[i] = HTTPRoutes(vs, i)
    OBVIOUS
  <2> HIDE DEF parts
  <2>5. IsList(vs.http)
    BY ServiceLists
  <2>6. parts \in Seq(Seq(X)) /\ DOMAIN parts = DOMAIN vs.http
    BY <2>3, <2>5, MadeList
  <2>7. FlattenSeq(parts) \in Seq(X)
        /\ ToSet(FlattenSeq(parts)) = UNION {ToSet(parts[i]) : i \in DOMAIN parts}
    BY <2>6, FlattenHolds
  <2>8. IsList(FlattenSeq(parts))
    BY <2>7, SeqIsList
  <2>9. \A r : r \in ToSet(FlattenSeq(parts)) <=>
               \E i \in DOMAIN vs.http : r \in ToSet(HTTPRoutes(vs, i))
    BY <2>4, <2>6, <2>7
  <2> QED
    BY <1>2, <2>1, <2>8, <2>9
<1> QED
  BY <1>1, <1>2

(* "route.Spec.ParentRefs = parents" leaves the rest of the route alone.   *)
LEMMA Parented ==
  ASSUME NEW r, NEW p, {"ns", "name", "parents"} \subseteq DOMAIN r
  PROVE  LET q == [r EXCEPT !.parents = p] IN
         /\ q.parents = p /\ q.ns = r.ns /\ q.name = r.name /\ Key(q) = Key(r)
         /\ \A f \in DOMAIN r \ {"parents"} : q[f] = r[f]
<1> DEFINE q == [r EXCEPT !.parents = p]
<1>1. q.parents = p /\ q.ns = r.ns /\ q.name = r.name
  OBVIOUS
<1>2. \A f \in DOMAIN r \ {"parents"} : q[f] = r[f]
  OBVIOUS
<1> QED
  BY <1>1, <1>2 DEF Key

(* Routes with their parents are a list, and each is one of the routes.    *)
LEMMA ParentsSet ==
  ASSUME NEW routes, IsList(routes), NEW parents
  PROVE  /\ IsList(WithParents(routes, parents))
         /\ \A q : q \in ToSet(WithParents(routes, parents)) <=>
              \E r \in ToSet(routes) : q = [r EXCEPT !.parents = parents]
<1> DEFINE set == [i \in DOMAIN routes |-> [routes[i] EXCEPT !.parents = parents]]
           Q == {[r EXCEPT !.parents = parents] : r \in ToSet(routes)}
<1>1. set \in [DOMAIN routes -> Q]
  BY DEF ToSet
<1>2. WithParents(routes, parents) = set
  BY DEF WithParents
<1>3. ToSet(set) = Q
  BY DEF ToSet
<1> HIDE DEF set
<1>4. IsList(set)
  BY <1>1, MadeList
<1> QED
  BY <1>2, <1>3, <1>4

(* A TLS or TCP route asks for parents too.                                *)
LEMMA L4RoutesOf ==
  ASSUME NEW vs, NEW list, IsList(list)
  PROVE  /\ IsList(L4Routes(vs, list))
         /\ L4Routes(vs, list) = <<>> <=> list = <<>>
         /\ \A r \in ToSet(L4Routes(vs, list)) :
              r.ns = vs.ns /\ {"ns", "name", "parents"} \subseteq DOMAIN r
<1> DEFINE made == [i \in DOMAIN list |-> L4Route(vs, i, list[i])]
           R == {L4Route(vs, i, list[i]) : i \in DOMAIN list}
<1>1. made \in [DOMAIN list -> R]
  OBVIOUS
<1>2. L4Routes(vs, list) = made
  BY DEF L4Routes
<1>3. \A r \in R : r.ns = vs.ns /\ {"ns", "name", "parents"} \subseteq DOMAIN r
  <2>1. \A i \in DOMAIN list : LET r == L4Route(vs, i, list[i]) IN
          r.ns = vs.ns /\ DOMAIN r = {"ns", "name", "hostnames", "backends", "parents"}
    BY DEF L4Route
  <2> QED
    BY <2>1
<1> HIDE DEF made, R
<1>4. IsList(made) /\ made \in Seq(R) /\ (made = <<>> <=> list = <<>>)
  BY <1>1, MadeList
<1>5. ToSet(made) \subseteq R
  BY <1>4, SeqIsList
<1> QED
  BY <1>2, <1>3, <1>4, <1>5

(* References are the Gateways a VirtualService names and may use.         *)
LEMMA ReferencesOf ==
  ASSUME NEW vs, IsList(vs.gateways)
  PROVE  /\ IsList(References(vs))
         /\ \A g : g \in ToSet(References(vs)) <=>
              IsAllowed(vs, g) /\ \E i \in DOMAIN vs.gateways : g = Referred(vs, vs.gateways[i])
<1> DEFINE named == [i \in DOMAIN vs.gateways |-> Referred(vs, vs.gateways[i])]
           S == {g \in ToSet(named) : IsAllowed(vs, g)}
           R == {Referred(vs, vs.gateways[i]) : i \in DOMAIN vs.gateways}
<1>1. named \in [DOMAIN vs.gateways -> R]
  OBVIOUS
<1>2. ToSet(named) = R
  BY DEF ToSet
<1>3. References(vs) = Keep(named, S)
  BY DEF References
<1>4. S \subseteq ToSet(named) /\ \A g : g \in S <=> g \in R /\ IsAllowed(vs, g)
  BY <1>2
<1> HIDE DEF named, S
<1>5. IsList(named)
  BY <1>1, MadeList
<1>6. IsList(Keep(named, S)) /\ ToSet(Keep(named, S)) = ToSet(named) \cap S
  BY <1>5, KeepList
<1>7. ToSet(References(vs)) = S
  BY <1>3, <1>4, <1>6
<1> QED
  BY <1>3, <1>4, <1>6, <1>7

(* Grants are for references to other namespaces.                          *)
LEMMA GrantsOf ==
  ASSUME NEW vs, IsList(vs.gateways)
  PROVE  /\ IsList(Grants(vs))
         /\ \A x : x \in ToSet(Grants(vs)) <=>
              \E g \in ToSet(References(vs)) : g[1] # vs.ns /\ x = Grant(vs, g)
<1> DEFINE S == {g \in ToSet(References(vs)) : g[1] # vs.ns}
           refs == Keep(References(vs), S)
           made == [i \in DOMAIN refs |-> Grant(vs, refs[i])]
           R == {Grant(vs, refs[i]) : i \in DOMAIN refs}
<1>1. Grants(vs) = made
  BY DEF Grants
<1>2. made \in [DOMAIN refs -> R] /\ ToSet(made) = R
  BY DEF ToSet
<1>3. IsList(References(vs))
  BY ReferencesOf
<1>4. ToSet(References(vs)) \cap S = S
  OBVIOUS
<1> HIDE DEF S
<1>5. IsList(refs) /\ ToSet(refs) = S
  BY <1>3, <1>4, KeepList
<1> HIDE DEF made, refs
<1>6. IsList(made)
  BY <1>2, <1>5, MadeList
<1>7. \A x : x \in R <=> \E g \in S : x = Grant(vs, g)
  BY <1>5, InToSet
<1> QED
  BY <1>1, <1>2, <1>6, <1>7 DEF S

(* Storing adds no values but the objects.                                 *)
LEMMA RangeStored ==
  ASSUME NEW map, NEW objects, IsList(objects)
  PROVE  RangeOf(StoreAll(map, objects)) \subseteq RangeOf(map) \cup ToSet(objects)
<1> DEFINE m == StoreAll(map, objects)
<1>1. /\ DOMAIN m = DOMAIN map \cup Keys(objects)
      /\ \A k \in Keys(objects) : m[k] \in ToSet(objects)
      /\ \A k \in DOMAIN map \ Keys(objects) : m[k] = map[k]
  BY Stored
<1> HIDE DEF m
<1> SUFFICES ASSUME NEW k \in DOMAIN m PROVE m[k] \in RangeOf(map) \cup ToSet(objects)
  BY DEF RangeOf, m
<1> QED
  BY <1>1 DEF RangeOf

-----------------------------------------------------------------------------
(* The invariant.                                                          *)

(* While allowedHosts stands still, so do references and grants.           *)
LEMMA SameReferences ==
  ASSUME allowedHosts' = allowedHosts
  PROVE  \A vs : References(vs)' = References(vs) /\ Grants(vs)' = Grants(vs)
<1>1. \A vs, g : IsAllowed(vs, g)' = IsAllowed(vs, g)
  BY DEF IsAllowed
<1>2. \A vs : References(vs)' = References(vs)
  BY <1>1 DEF References
<1> QED
  BY <1>2 DEF Grants

(* The names of routes are those of the input.                             *)
LEMMA SameNames ==
  ASSUME input' = input
  PROVE  \A vs, i : NameClash(vs, i)' = NameClash(vs, i)
BY DEF NameClash

(* At the start nothing is stored and no loop has run.                     *)
LEMMA InitInv ==
  ASSUME Init
  PROVE  IInv
<1>1. input \in Inputs /\ todo = input /\ Through = {}
  BY DEF Init, Through
<1>2. input = [gateways |-> input.gateways, services |-> input.services]
  BY <1>1, InputsAssumption
<1>3. LoopInv
  <2>1. DOMAIN todo = {"gateways", "services"}
    BY <1>1, <1>2
  <2>2. DOMAIN ir = {"gateways", "http", "tls", "tcp", "grants"}
    BY DEF Init, EmptyIR
  <2> QED
    BY <1>1, <2>1, <2>2 DEF LoopInv
<1>4. \A kind \in {"gateways", "http", "tls", "tcp", "grants"} : ir[kind] = <<>>
  BY DEF Init, EmptyIR
<1>5. GatewaysInv
  <2>1. DOMAIN allowedHosts = DOMAIN ir.gateways
    BY <1>4 DEF Init
  <2> QED
    BY <1>1, <2>1 DEF GatewaysInv
<1>6. \A kind \in {"http", "tls", "tcp"} : RangeOf(ir[kind]) = {}
  <2>1. RangeOf(<<>>) = {}
    BY DEF RangeOf
  <2> QED
    BY <1>4, <2>1
<1>7. RoutesInv
  BY <1>6 DEF RoutesInv
<1>8. ServicesInv
  BY <1>1 DEF ServicesInv
<1>9. GrantsInv
  <2>1. DOMAIN ir.grants = {}
    BY <1>4
  <2> QED
    BY <1>1, <2>1 DEF GrantsInv
<1> QED
  BY <1>3, <1>5, <1>7, <1>8, <1>9 DEF IInv

(* Converting a Gateway, before any VirtualService.                        *)
LEMMA GatewayStep ==
  ASSUME IInv, ConvertGateway
  PROVE  IInv'
<1> USE DEF IInv
<1>1. PICK gw \in todo.gateways :
        /\ todo' = [todo EXCEPT !.gateways = @ \ {gw}]
        /\ IF GatewayFails(gw)
             THEN /\ errors' = errors \cup {<<"Gateway", Key(gw)>>}
                  /\ UNCHANGED <<allowedHosts, ir>>
             ELSE /\ allowedHosts' = Put(allowedHosts, Key(gw), AllowedHosts(gw))
                  /\ ir' = [ir EXCEPT !.gateways = Put(@, Key(gw), Listeners(gw))]
                  /\ UNCHANGED errors
        /\ UNCHANGED input
  BY DEF ConvertGateway
<1>2. /\ DOMAIN todo' = {"gateways", "services"}
      /\ todo'.gateways = todo.gateways \ {gw}
      /\ todo'.services = todo.services
  BY <1>1 DEF LoopInv
<1>3. /\ DOMAIN ir' = DOMAIN ir
      /\ \A kind \in {"http", "tls", "tcp", "grants"} : ir'[kind] = ir[kind]
  BY <1>1 DEF LoopInv
<1>4. LoopInv'
  BY <1>1, <1>2, <1>3 DEF LoopInv
<1>5. Through = {} /\ Through' = {}
  BY <1>1, <1>2 DEF LoopInv, Through
<1>6. GatewaysInv'
  <2>1. CASE GatewayFails(gw)
    <3>1. \A g \in (input.gateways \ todo.gateways)' :
            g = gw \/ g \in input.gateways \ todo.gateways
      BY <1>1, <1>2
    <3>2. errors \subseteq errors' /\ <<"Gateway", Key(gw)>> \in errors'
      BY <1>1, <2>1
    <3> QED
      BY <1>1, <2>1, <3>1, <3>2 DEF GatewaysInv
  <2>2. CASE ~GatewayFails(gw)
    <3>1. ir'.gateways = Put(ir.gateways, Key(gw), Listeners(gw))
      BY <1>1, <2>2 DEF LoopInv
    <3>2. allowedHosts' = Put(allowedHosts, Key(gw), AllowedHosts(gw)) /\ errors' = errors
      BY <1>1, <2>2
    <3>3. DOMAIN allowedHosts' = DOMAIN ir'.gateways
      BY <3>1, <3>2 DEF GatewaysInv, Put
    <3>4. \A g \in (input.gateways \ todo.gateways)' :
            g = gw \/ (g \in input.gateways \ todo.gateways /\ Key(g) # Key(gw))
      <4>1. input \in Inputs /\ gw \in input.gateways
        BY DEF LoopInv
      <4>2. \A g \in input.gateways : g # gw => Key(g) # Key(gw)
        BY <4>1, InputsAssumption
      <4> QED
        BY <1>1, <1>2, <4>2
    <3>5. /\ Key(gw) \in DOMAIN ir'.gateways
          /\ ir'.gateways[Key(gw)] = Listeners(gw)
          /\ allowedHosts'[Key(gw)] = AllowedHosts(gw)
      BY <3>1, <3>2 DEF Put
    <3>6. ASSUME NEW g \in input.gateways \ todo.gateways, Key(g) # Key(gw), ~GatewayFails(g)
          PROVE  /\ Key(g) \in DOMAIN ir'.gateways
                 /\ ir'.gateways[Key(g)] = Listeners(g)
                 /\ allowedHosts'[Key(g)] = AllowedHosts(g)
      <4>1. /\ Key(g) \in DOMAIN ir.gateways /\ Key(g) \in DOMAIN allowedHosts
            /\ ir.gateways[Key(g)] = Listeners(g) /\ allowedHosts[Key(g)] = AllowedHosts(g)
        BY <3>6 DEF GatewaysInv
      <4> QED
        BY <3>1, <3>2, <3>6, <4>1 DEF Put
    <3>7. \A g \in (input.gateways \ todo.gateways)' :
            IF GatewayFails(g) THEN <<"Gateway", Key(g)>> \in errors'
            ELSE /\ Key(g) \in DOMAIN ir'.gateways
                 /\ ir'.gateways[Key(g)] = Listeners(g)
                 /\ allowedHosts'[Key(g)] = AllowedHosts(g)
      BY <2>2, <3>2, <3>4, <3>5, <3>6 DEF GatewaysInv
    <3> QED
      BY <3>3, <3>7 DEF GatewaysInv
  <2> QED
    BY <2>1, <2>2
<1>7. RoutesInv'
  <2>1. \A kind \in {"http", "tls", "tcp"} : RangeOf(ir'[kind]) = {}
    BY <1>3, <1>5 DEF RoutesInv
  <2> QED
    BY <2>1 DEF RoutesInv
<1>8. ServicesInv'
  BY <1>5 DEF ServicesInv
<1>9. GrantsInv'
  <2>1. DOMAIN ir'.grants = {}
    BY <1>3, <1>5 DEF GrantsInv
  <2> QED
    BY <1>5, <2>1 DEF GrantsInv
<1> QED
  BY <1>4, <1>6, <1>7, <1>8, <1>9

(* What a step of the second loop leaves.                                  *)
Stores(vs) ==
  /\ todo.gateways = {} /\ vs \in todo.services
  /\ input' = input /\ allowedHosts' = allowedHosts
  /\ DOMAIN todo' = {"gateways", "services"}
  /\ todo'.gateways = {} /\ todo'.services = todo.services \ {vs}
  /\ DOMAIN ir' = DOMAIN ir
  /\ ir'.gateways = ir.gateways
  /\ ir'.http = StoreAll(ir.http, WithParents(AllHTTPRoutes(vs), References(vs)))
  /\ ir'.tls = StoreAll(ir.tls, WithParents(L4Routes(vs, vs.tls), References(vs)))
  /\ ir'.tcp = StoreAll(ir.tcp, WithParents(L4Routes(vs, vs.tcp), References(vs)))
  /\ ir'.grants = StoreAll(ir.grants, Grants(vs))
  /\ errors \subseteq errors'
  /\ ServiceFails(vs) => <<"VirtualService", Key(vs)>> \in errors'

(* ConvertVirtualService is one of these for some VirtualService.           *)
LEMMA ServiceStores ==
  ASSUME LoopInv, ConvertVirtualService
  PROVE  \E vs \in todo.services : Stores(vs)
<1>1. PICK vs \in todo.services :
        /\ todo' = [todo EXCEPT !.services = @ \ {vs}]
        /\ ir' = [ir EXCEPT
             !.http = StoreAll(@, WithParents(AllHTTPRoutes(vs), References(vs))),
             !.tls = StoreAll(@, WithParents(L4Routes(vs, vs.tls), References(vs))),
             !.tcp = StoreAll(@, WithParents(L4Routes(vs, vs.tcp), References(vs))),
             !.grants = StoreAll(@, Grants(vs))]
        /\ errors' = errors \cup (IF ServiceFails(vs) THEN {<<"VirtualService", Key(vs)>>} ELSE {})
  BY DEF ConvertVirtualService
<1>2. todo.gateways = {} /\ input' = input /\ allowedHosts' = allowedHosts
  BY DEF ConvertVirtualService
<1>3. /\ DOMAIN todo' = {"gateways", "services"}
      /\ todo'.gateways = todo.gateways /\ todo'.services = todo.services \ {vs}
  BY <1>1 DEF LoopInv
<1>4. /\ DOMAIN ir' = DOMAIN ir
      /\ ir'.gateways = ir.gateways
      /\ ir'.http = StoreAll(ir.http, WithParents(AllHTTPRoutes(vs), References(vs)))
      /\ ir'.tls = StoreAll(ir.tls, WithParents(L4Routes(vs, vs.tls), References(vs)))
      /\ ir'.tcp = StoreAll(ir.tcp, WithParents(L4Routes(vs, vs.tcp), References(vs)))
      /\ ir'.grants = StoreAll(ir.grants, Grants(vs))
  BY <1>1 DEF LoopInv
<1>5. errors \subseteq errors' /\ (ServiceFails(vs) => <<"VirtualService", Key(vs)>> \in errors')
  BY <1>1
<1> QED
  BY <1>2, <1>3, <1>4, <1>5 DEF Stores

(* The routes a VirtualService stores, as the invariant knows them.        *)
LEMMA NewRoutes ==
  ASSUME LoopInv, NEW vs \in input.services
  PROVE  LET new == WithParents(AllHTTPRoutes(vs), References(vs)) IN
         /\ IsList(new)
         /\ \A q : q \in ToSet(new) <=>
              /\ ~ServiceFails(vs)
              /\ \E i \in DOMAIN vs.http : \E r \in ToSet(HTTPRoutes(vs, i)) :
                   q = [r EXCEPT !.parents = References(vs)]
         /\ \A q \in ToSet(new) : Owned(q, vs, "http") /\ \E i \in DOMAIN vs.http : AskedFor(vs, i, q)
<1> DEFINE new == WithParents(AllHTTPRoutes(vs), References(vs))
<1>1. input \in Inputs
  BY DEF LoopInv
<1>2. /\ IsList(AllHTTPRoutes(vs))
      /\ \A r : r \in ToSet(AllHTTPRoutes(vs)) <=>
           ~ServiceFails(vs) /\ \E i \in DOMAIN vs.http : r \in ToSet(HTTPRoutes(vs, i))
  BY <1>1, AllRoutesOf
<1>3. IsList(new) /\ \A q : q \in ToSet(new) <=>
        \E r \in ToSet(AllHTTPRoutes(vs)) : q = [r EXCEPT !.parents = References(vs)]
  BY <1>2, ParentsSet
<1>4. ASSUME NEW i \in DOMAIN vs.http, NEW r \in ToSet(HTTPRoutes(vs, i))
      PROVE  LET q == [r EXCEPT !.parents = References(vs)] IN
             Owned(q, vs, "http") /\ AskedFor(vs, i, q)
  <2> DEFINE q == [r EXCEPT !.parents = References(vs)]
  <2>1. DOMAIN r = RouteFields /\ AskedFor(vs, i, r)
    BY <1>1, RoutesOf
  <2>2. /\ q.ns = r.ns /\ q.parents = References(vs)
        /\ q.hostnames = r.hostnames /\ q.matches = r.matches /\ q.backends = r.backends
    BY <2>1 DEF RouteFields
  <2>3. vs.http # <<>>
    <3>1. IsList(vs.http)
      BY <1>1, ServiceLists
    <3> QED
      BY <3>1, ListShape
  <2> HIDE DEF q
  <2>4. Owned(q, vs, "http")
    BY <2>1, <2>2, <2>3 DEF Owned, AskedFor
  <2>5. AskedFor(vs, i, q)
    BY <2>1, <2>2 DEF AskedFor
  <2> QED
    BY <2>4, <2>5 DEF q
<1> HIDE DEF new
<1>5. \A q : q \in ToSet(new) <=>
        /\ ~ServiceFails(vs)
        /\ \E i \in DOMAIN vs.http : \E r \in ToSet(HTTPRoutes(vs, i)) :
             q = [r EXCEPT !.parents = References(vs)]
  BY <1>2, <1>3
<1>6. \A q \in ToSet(new) : Owned(q, vs, "http") /\ \E i \in DOMAIN vs.http : AskedFor(vs, i, q)
  BY <1>4, <1>5
<1> QED
  BY <1>3, <1>5, <1>6 DEF new

(* So for TLS and TCP.                                                     *)
LEMMA NewL4Routes ==
  ASSUME LoopInv, NEW vs \in input.services, NEW kind \in {"tls", "tcp"}
  PROVE  LET new == WithParents(L4Routes(vs, vs[kind]), References(vs)) IN
         IsList(new) /\ \A q \in ToSet(new) : Owned(q, vs, kind)
<1> DEFINE routes == L4Routes(vs, vs[kind])
           new == WithParents(routes, References(vs))
<1>1. IsList(vs[kind])
  BY ServiceLists DEF LoopInv
<1>2. /\ IsList(routes) /\ (routes = <<>> <=> vs[kind] = <<>>)
      /\ \A r \in ToSet(routes) : r.ns = vs.ns /\ {"ns", "name", "parents"} \subseteq DOMAIN r
  BY <1>1, L4RoutesOf
<1> HIDE DEF routes
<1>3. IsList(new) /\ \A q : q \in ToSet(new) <=>
        \E r \in ToSet(routes) : q = [r EXCEPT !.parents = References(vs)]
  BY <1>2, ParentsSet
<1> HIDE DEF new
<1>4. ASSUME NEW r \in ToSet(routes), NEW q, q = [r EXCEPT !.parents = References(vs)]
      PROVE  Owned(q, vs, kind)
  <2>1. q.ns = vs.ns /\ q.parents = References(vs)
    BY <1>2, <1>4
  <2>2. routes # <<>>
    BY <1>2, ListShape
  <2> QED
    BY <1>2, <2>1, <2>2 DEF Owned
<1> QED
  BY <1>3, <1>4 DEF new, routes

(* A stored route stays until one of its own name comes, which none does.  *)
LEMMA RoutesStay ==
  ASSUME LoopInv, NEW vs \in input.services, NEW w \in input.services, w # vs,
         NEW i \in DOMAIN w.http, ~NameClash(w, i), NEW r \in ToSet(HTTPRoutes(w, i))
  PROVE  \A q \in ToSet(WithParents(AllHTTPRoutes(vs), References(vs))) : Key(q) # Key(r)
<1> SUFFICES ASSUME NEW q \in ToSet(WithParents(AllHTTPRoutes(vs), References(vs))), Key(q) = Key(r)
             PROVE  FALSE
  OBVIOUS
<1>1. input \in Inputs
  BY DEF LoopInv
<1>2. ~ServiceFails(vs) /\ \E j \in DOMAIN vs.http : \E p \in ToSet(HTTPRoutes(vs, j)) :
        q = [p EXCEPT !.parents = References(vs)]
  BY NewRoutes
<1> PICK j \in DOMAIN vs.http : \E p \in ToSet(HTTPRoutes(vs, j)) :
        q = [p EXCEPT !.parents = References(vs)]
  BY <1>2
<1> PICK p \in ToSet(HTTPRoutes(vs, j)) : q = [p EXCEPT !.parents = References(vs)]
  OBVIOUS
<1>3. Key(q) = Key(p)
  <2>1. DOMAIN p = RouteFields
    BY <1>1, RoutesOf
  <2> QED
    BY <2>1, Parented DEF RouteFields
<1>4. Key(r) \in RouteKeys(vs, j) \cap RouteKeys(w, i)
  BY <1>3 DEF RouteKeys
<1>5. Key(vs) # Key(w)
  BY <1>1, InputsAssumption
<1> QED
  BY <1>2, <1>4, <1>5 DEF NameClash

(* Those of the VirtualService itself are stored, each at its own name.    *)
LEMMA RoutesStored ==
  ASSUME LoopInv, NEW vs \in input.services, ~ServiceFails(vs), NEW map,
         NEW i \in DOMAIN vs.http, ~NameClash(vs, i), NEW r \in ToSet(HTTPRoutes(vs, i))
  PROVE  LET m == StoreAll(map, WithParents(AllHTTPRoutes(vs), References(vs))) IN
         /\ Key(r) \in DOMAIN m
         /\ m[Key(r)] = [r EXCEPT !.parents = References(vs)]
<1> DEFINE new == WithParents(AllHTTPRoutes(vs), References(vs))
           m == StoreAll(map, new)
           With(p) == [p EXCEPT !.parents = References(vs)]
<1>1. input \in Inputs
  BY DEF LoopInv
<1>2. /\ IsList(new)
      /\ \A q : q \in ToSet(new) <=>
           \E j \in DOMAIN vs.http : \E p \in ToSet(HTTPRoutes(vs, j)) : q = With(p)
  BY NewRoutes
<1>3. \A j \in DOMAIN vs.http : \A p \in ToSet(HTTPRoutes(vs, j)) : Key(With(p)) = Key(p)
  <2> TAKE j \in DOMAIN vs.http
  <2> TAKE p \in ToSet(HTTPRoutes(vs, j))
  <2>1. DOMAIN p = RouteFields
    BY <1>1, RoutesOf
  <2> QED
    BY <2>1, Parented DEF RouteFields
<1> HIDE DEF new, With
<1>4. With(r) \in ToSet(new) /\ Key(With(r)) = Key(r)
  BY <1>2, <1>3
<1>5. Key(r) \in DOMAIN m /\ m[Key(r)] \in ToSet(new) /\ Key(m[Key(r)]) = Key(r)
  <2>1. Key(r) \in Keys(new)
    BY <1>4 DEF Keys
  <2>2. IsList(new)
    BY <1>2
  <2>3. DOMAIN m = DOMAIN map \cup Keys(new)
    BY <2>2, Stored
  <2>4. \A k \in Keys(new) : m[k] \in ToSet(new) /\ Key(m[k]) = k
    BY <2>2, Stored
  <2> QED
    BY <2>1, <2>3, <2>4
<1> HIDE DEF m
<1>6. PICK j \in DOMAIN vs.http : \E p \in ToSet(HTTPRoutes(vs, j)) : m[Key(r)] = With(p)
  BY <1>2, <1>5
<1> PICK p \in ToSet(HTTPRoutes(vs, j)) : m[Key(r)] = With(p)
  BY <1>6
<1>7. Key(p) = Key(r)
  BY <1>3, <1>5
<1>8. j = i
  <2>1. Key(r) \in RouteKeys(vs, j) \cap RouteKeys(vs, i)
    BY <1>7 DEF RouteKeys
  <2> QED
    BY <2>1 DEF NameClash
<1>9. p = r
  BY <1>1, <1>7, <1>8, RoutesOf
<1> QED
  BY <1>5, <1>9 DEF m, new, With

(* Converting a VirtualService, when all Gateways have been.               *)
LEMMA ServiceStep ==
  ASSUME IInv, ConvertVirtualService
  PROVE  IInv'
<1> USE DEF IInv
<1>1. PICK vs \in todo.services : Stores(vs)
  BY ServiceStores
<1>2. vs \in input.services /\ input \in Inputs
  BY DEF LoopInv
<1>3. LoopInv'
  BY <1>1 DEF LoopInv, Stores
<1>4. Through' = Through \cup {vs} /\ vs \notin Through /\ Through \subseteq input.services
  BY <1>1, <1>2 DEF Stores, Through
<1>5. /\ \A w : References(w)' = References(w)
      /\ \A w, i : NameClash(w, i)' = NameClash(w, i)
  BY <1>1, SameReferences, SameNames DEF Stores
<1>6. GatewaysInv'
  BY <1>1 DEF GatewaysInv, LoopInv, Stores
<1> DEFINE http == WithParents(AllHTTPRoutes(vs), References(vs))
<1>7. RoutesInv'
  <2>1. ASSUME NEW kind \in {"http", "tls", "tcp"}, NEW r \in RangeOf(ir'[kind])
        PROVE  \E w \in Through' : Owned(r, w, kind)'
    <3>1. RangeOf(ir'[kind]) \subseteq
            RangeOf(ir[kind]) \cup {q \in RangeOf(ir'[kind]) : Owned(q, vs, kind)}
      <4>1. CASE kind = "http"
        <5>1. IsList(http) /\ \A q \in ToSet(http) : Owned(q, vs, "http")
          BY <1>2, NewRoutes
        <5>2. RangeOf(ir'.http) \subseteq RangeOf(ir.http) \cup ToSet(http)
          BY <1>1, <5>1, RangeStored DEF Stores
        <5> QED
          BY <4>1, <5>1, <5>2
      <4>2. CASE kind \in {"tls", "tcp"}
        <5> DEFINE new == WithParents(L4Routes(vs, vs[kind]), References(vs))
        <5>1. IsList(new) /\ \A q \in ToSet(new) : Owned(q, vs, kind)
          BY <1>2, <4>2, NewL4Routes
        <5>2. ir'[kind] = StoreAll(ir[kind], new)
          BY <1>1, <4>2 DEF Stores
        <5> HIDE DEF new
        <5>3. RangeOf(ir'[kind]) \subseteq RangeOf(ir[kind]) \cup ToSet(new)
          BY <5>1, <5>2, RangeStored
        <5> QED
          BY <5>1, <5>3
      <4> QED
        BY <4>1, <4>2
    <3>2. \A q, w : Owned(q, w, kind)' <=> Owned(q, w, kind)
      BY <1>5 DEF Owned
    <3>3. CASE r \in RangeOf(ir[kind])
      BY <1>4, <3>2, <3>3 DEF RoutesInv
    <3>4. CASE Owned(r, vs, kind)
      BY <1>4, <3>2, <3>4
    <3> QED
      BY <2>1, <3>1, <3>3, <3>4
  <2>2. ASSUME NEW r \in RangeOf(ir'.http)
        PROVE  \E w \in input.services : \E i \in DOMAIN w.http : AskedFor(w, i, r)
    <3>1. IsList(http) /\ \A q \in ToSet(http) : \E i \in DOMAIN vs.http : AskedFor(vs, i, q)
      BY <1>2, NewRoutes
    <3>2. RangeOf(ir'.http) \subseteq RangeOf(ir.http) \cup ToSet(http)
      BY <1>1, <3>1, RangeStored DEF Stores
    <3> HIDE DEF http
    <3> QED
      BY <1>2, <2>2, <3>1, <3>2 DEF RoutesInv
  <2>3. input' = input
    BY <1>1 DEF Stores
  <2> QED
    BY <2>1, <2>2, <2>3 DEF RoutesInv
<1>8. ServicesInv'
  <2>1. ASSUME NEW w \in Through, ~ServiceFails(w), NEW i \in DOMAIN w.http, ~NameClash(w, i),
               NEW r \in ToSet(HTTPRoutes(w, i))
        PROVE  /\ Key(r) \in DOMAIN ir'.http
               /\ ir'.http[Key(r)] = [r EXCEPT !.parents = References(w)]
    <3>1. Key(r) \in DOMAIN ir.http /\ ir.http[Key(r)] = [r EXCEPT !.parents = References(w)]
      BY <2>1 DEF ServicesInv
    <3>2. Key(r) \notin Keys(http)
      BY <1>2, <1>4, <2>1, RoutesStay DEF Keys
    <3>3. IsList(http)
      BY <1>2, NewRoutes
    <3>4. ir'.http = StoreAll(ir.http, http)
      BY <1>1 DEF Stores
    <3> HIDE DEF http
    <3>5. DOMAIN ir'.http = DOMAIN ir.http \cup Keys(http)
      BY <3>3, <3>4, Stored
    <3>6. \A k \in DOMAIN ir.http \ Keys(http) : StoreAll(ir.http, http)[k] = ir.http[k]
      BY <3>3, Stored
    <3> QED
      BY <3>1, <3>2, <3>4, <3>5, <3>6
  <2>2. ASSUME ~ServiceFails(vs), NEW i \in DOMAIN vs.http, ~NameClash(vs, i),
               NEW r \in ToSet(HTTPRoutes(vs, i))
        PROVE  /\ Key(r) \in DOMAIN ir'.http
               /\ ir'.http[Key(r)] = [r EXCEPT !.parents = References(vs)]
    BY <1>1, <1>2, <2>2, RoutesStored DEF Stores
  <2>3. \A w \in Through : ServiceFails(w) => <<"VirtualService", Key(w)>> \in errors'
    BY <1>1 DEF ServicesInv, Stores
  <2>4. ServiceFails(vs) => <<"VirtualService", Key(vs)>> \in errors'
    BY <1>1 DEF Stores
  <2> QED
    BY <1>4, <1>5, <2>1, <2>2, <2>3, <2>4 DEF ServicesInv
<1>9. GrantsInv'
  <2> DEFINE new == Keys(Grants(vs))
  <2>1. /\ IsList(Grants(vs))
        /\ \A x : x \in ToSet(Grants(vs)) <=>
             \E g \in ToSet(References(vs)) : g[1] # vs.ns /\ x = Grant(vs, g)
    BY <1>2, ServiceLists, GrantsOf
  <2>2. ir'.grants = StoreAll(ir.grants, Grants(vs))
    BY <1>1 DEF Stores
  <2>3. /\ DOMAIN ir'.grants = DOMAIN ir.grants \cup new
        /\ \A k \in new : ir'.grants[k] \in ToSet(Grants(vs)) /\ Key(ir'.grants[k]) = k
        /\ \A k \in DOMAIN ir.grants \ new : ir'.grants[k] = ir.grants[k]
    <3>1. IsList(Grants(vs))
      BY <2>1
    <3>2. DOMAIN ir'.grants = DOMAIN ir.grants \cup new
      BY <2>2, <3>1, Stored
    <3>3. \A k \in new : LET x == StoreAll(ir.grants, Grants(vs))[k] IN
            x \in ToSet(Grants(vs)) /\ Key(x) = k
      BY <3>1, Stored
    <3>4. \A k \in DOMAIN ir.grants \ new : StoreAll(ir.grants, Grants(vs))[k] = ir.grants[k]
      BY <3>1, Stored
    <3> QED
      BY <2>2, <3>2, <3>3, <3>4
  <2>4. ASSUME NEW w \in Through', NEW g \in ToSet(References(w)), g[1] # w.ns
        PROVE  Key(Grant(w, g)) \in DOMAIN ir'.grants
    <3>1. CASE w = vs
      BY <2>1, <2>3, <2>4, <3>1 DEF Keys
    <3>2. CASE w \in Through
      BY <2>3, <2>4, <3>2 DEF GrantsInv
    <3> QED
      BY <1>4, <3>1, <3>2
  <2>5. ASSUME NEW k \in DOMAIN ir'.grants
        PROVE  \E w \in Through' : \E g \in ToSet(References(w)) :
                 g[1] # w.ns /\ ir'.grants[k] = Grant(w, g) /\ k = Key(Grant(w, g))
    <3>1. CASE k \in new
      BY <1>4, <2>1, <2>3, <3>1
    <3>2. CASE k \notin new
      <4>1. k \in DOMAIN ir.grants /\ ir'.grants[k] = ir.grants[k]
        BY <2>3, <2>5, <3>2
      <4> HIDE DEF new
      <4> QED
        BY <1>4, <4>1 DEF GrantsInv
    <3> QED
      BY <3>1, <3>2
  <2> QED
    BY <1>5, <2>4, <2>5 DEF GrantsInv
<1> QED
  BY <1>3, <1>6, <1>7, <1>8, <1>9

(* The invariant holds in every reachable state.                           *)
LEMMA Invariant == Spec => []IInv
<1>1. Init => IInv
  BY InitInv
<1>2. IInv /\ [Next]_vars => IInv'
  <2> SUFFICES ASSUME IInv, [Next]_vars PROVE IInv'
    OBVIOUS
  <2>1. CASE ConvertGateway
    BY <2>1, GatewayStep
  <2>2. CASE ConvertVirtualService
    BY <2>2, ServiceStep
  <2>3. CASE UNCHANGED vars
    <3>1. /\ input' = input /\ todo' = todo /\ allowedHosts' = allowedHosts
          /\ ir' = ir /\ errors' = errors
      BY <2>3 DEF vars
    <3>2. Through' = Through /\ \A w : References(w)' = References(w)
      BY <3>1, SameReferences DEF Through
    <3>3. \A w, i : NameClash(w, i)' = NameClash(w, i)
      BY <3>1, SameNames
    <3>4. LoopInv' /\ GatewaysInv'
      BY <3>1 DEF IInv, LoopInv, GatewaysInv
    <3>5. RoutesInv'
      BY <3>1, <3>2 DEF IInv, RoutesInv, Owned
    <3>6. ServicesInv'
      BY <3>1, <3>2, <3>3 DEF IInv, ServicesInv
    <3>7. GrantsInv'
      BY <3>1, <3>2 DEF IInv, GrantsInv
    <3> QED
      BY <3>4, <3>5, <3>6, <3>7 DEF IInv
  <2> QED
    BY <2>1, <2>2, <2>3 DEF Next, Done
<1> QED
  BY <1>1, <1>2, PTL DEF Spec

-----------------------------------------------------------------------------
(* The theorems.                                                           *)

(* No HTTP route takes requests nobody asked for, nor names a Gateway that *)
(* was not converted, whatever was stored under whatever name before       *)
(* (ConvertGateway, ConvertVirtualService, generateReferences).            *)
THEOREM NothingInvented == Spec => []RoutesTellTruth
<1>1. IInv => RoutesTellTruth
  <2> SUFFICES ASSUME IInv, NEW r \in RangeOf(ir.http)
               PROVE  /\ ToSet(r.parents) \subseteq DOMAIN ir.gateways
                      /\ \E vs \in input.services : \E i \in DOMAIN vs.http : AskedFor(vs, i, r)
    BY DEF RoutesTellTruth, AskedFor, Asked
  <2>1. PICK vs \in Through : Owned(r, vs, "http")
    BY DEF IInv, RoutesInv
  <2>2. \A g \in ToSet(References(vs)) : g \in DOMAIN allowedHosts
    <3>1. IsList(vs.gateways)
      BY ServiceLists DEF IInv, LoopInv, Through
    <3> QED
      BY <3>1, ReferencesOf DEF IsAllowed
  <2>3. ToSet(r.parents) \subseteq DOMAIN ir.gateways
    BY <2>1, <2>2 DEF Owned, IInv, GatewaysInv
  <2> QED
    BY <2>3 DEF IInv, RoutesInv
<1> QED
  BY <1>1, Invariant, PTL

(* What GrantsCover promises of a reference to another namespace, when no  *)
(* other reference writes the grant of that name (generateReferenceGrant). *)
THEOREM GrantsReach == Spec => []GrantsCover
<1>1. IInv => GrantsCover
  <2> SUFFICES ASSUME IInv, Converted, NEW vs \in input.services, NEW g \in ToSet(References(vs)),
                      g[1] # vs.ns,
                      \A w \in input.services : \A o \in ToSet(References(w)) :
                        w.ns = vs.ns /\ o[1] = g[1] => w = vs /\ o = g
               PROVE  \E x \in RangeOf(ir.grants) :
                        /\ x.ns = g[1] /\ x.to = g[2] /\ x.from = vs.ns
                        /\ \A r \in RangeOf(ir.http) \cup RangeOf(ir.tls) \cup RangeOf(ir.tcp) :
                             r.ns = vs.ns /\ g \in ToSet(r.parents) =>
                               \E k \in x.kinds : r \in RangeOf(ir[k])
    BY DEF GrantsCover
  <2>1. Through = input.services
    BY DEF Converted, Through
  <2> DEFINE x == Grant(vs, g)
  <2>2. x \in RangeOf(ir.grants)
    <3>1. Key(x) \in DOMAIN ir.grants
      BY <2>1 DEF IInv, GrantsInv
    <3>2. PICK w \in input.services : \E o \in ToSet(References(w)) :
            o[1] # w.ns /\ ir.grants[Key(x)] = Grant(w, o) /\ Key(x) = Key(Grant(w, o))
      BY <2>1, <3>1 DEF IInv, GrantsInv
    <3>3. PICK o \in ToSet(References(w)) : ir.grants[Key(x)] = Grant(w, o) /\ Key(x) = Key(Grant(w, o))
      BY <3>2
    <3>4. w.ns = vs.ns /\ o[1] = g[1]
      BY <3>3 DEF Key, Grant
    <3>5. ir.grants[Key(x)] = x
      BY <3>3, <3>4
    <3> QED
      BY <3>1, <3>5 DEF RangeOf
  <2>3. x.ns = g[1] /\ x.to = g[2] /\ x.from = vs.ns /\ x.kinds = RouteKinds(vs)
    BY DEF Grant
  <2>4. ASSUME NEW kind \in {"http", "tls", "tcp"}, NEW r \in RangeOf(ir[kind]),
               r.ns = vs.ns, g \in ToSet(r.parents)
        PROVE  kind \in RouteKinds(vs)
    <3>1. PICK w \in input.services : Owned(r, w, kind)
      BY <2>1, <2>4 DEF IInv, RoutesInv
    <3>2. w = vs
      BY <2>4, <3>1 DEF Owned
    <3> QED
      BY <3>1, <3>2 DEF Owned, RouteKinds
  <2> HIDE DEF x
  <2> QED
    BY <2>2, <2>3, <2>4
<1> QED
  BY <1>1, Invariant, PTL

(* What InputsAssumption says of a Gateway: servers and hosts are lists.   *)
LEMMA ServersOf ==
  ASSUME NEW x \in Inputs, NEW gw \in x.gateways
  PROVE  IsList(Servers(gw)) /\ \A s \in ToSet(Servers(gw)) : IsList(s.hosts)
<1>1. IsList(gw.servers) /\ \A s \in ToSet(gw.servers) : IsList(s.hosts)
  BY InputsAssumption
<1> DEFINE S == {s \in ToSet(gw.servers) : ~Skipped(s)}
<1>2. S \subseteq ToSet(gw.servers) /\ Servers(gw) = Keep(gw.servers, S)
  BY DEF Servers
<1> HIDE DEF S
<1>3. IsList(Keep(gw.servers, S)) /\ ToSet(Keep(gw.servers, S)) = ToSet(gw.servers) \cap S
  BY <1>1, KeepList
<1> QED
  BY <1>1, <1>2, <1>3

(* Every host of a server has a listener.                                  *)
LEMMA ListenerThere ==
  ASSUME NEW x \in Inputs, NEW gw \in x.gateways,
         NEW s \in ToSet(Servers(gw)), NEW host \in ToSet(s.hosts)
  PROVE  Listener(s, host) \in ToSet(Listeners(gw))
<1> DEFINE row(i) == [j \in DOMAIN Servers(gw)[i].hosts |->
                        Listener(Servers(gw)[i], Servers(gw)[i].hosts[j])]
           rows == [i \in DOMAIN Servers(gw) |-> row(i)]
           X == UNION {ToSet(row(i)) : i \in DOMAIN Servers(gw)}
<1>1. IsList(Servers(gw)) /\ \A i \in DOMAIN Servers(gw) : IsList(Servers(gw)[i].hosts)
  BY ServersOf, InToSet
<1>2. \A i \in DOMAIN Servers(gw) : row(i) \in Seq(X)
  <2> TAKE i \in DOMAIN Servers(gw)
  <2> DEFINE r == row(i)
  <2>1. r \in [DOMAIN Servers(gw)[i].hosts -> ToSet(r)]
    BY DEF ToSet
  <2>2. ToSet(r) \subseteq X
    OBVIOUS
  <2> HIDE DEF r
  <2>3. r \in Seq(ToSet(r))
    BY <1>1, <2>1, MadeList
  <2> HIDE DEF X
  <2>4. r \in Seq(X)
    BY <2>2, <2>3
  <2> QED
    BY <2>4 DEF r
<1> HIDE DEF X
<1>3. rows \in [DOMAIN Servers(gw) -> Seq(X)] /\ \A i \in DOMAIN Servers(gw) : rows[i] = row(i)
  BY <1>2
<1>4. Listeners(gw) = FlattenSeq(rows)
  BY DEF Listeners
<1> HIDE DEF rows
<1>5. rows \in Seq(Seq(X)) /\ DOMAIN rows = DOMAIN Servers(gw)
  BY <1>1, <1>3, MadeList
<1>6. ToSet(FlattenSeq(rows)) = UNION {ToSet(rows[i]) : i \in DOMAIN rows}
  BY <1>5, FlattenHolds
<1>7. PICK i \in DOMAIN Servers(gw) : Servers(gw)[i] = s
  BY InToSet
<1>8. Listener(s, host) \in ToSet(row(i))
  <2>1. PICK j \in DOMAIN s.hosts : s.hosts[j] = host
    BY InToSet
  <2> QED
    BY <1>7, <2>1 DEF ToSet
<1> HIDE DEF row
<1> QED
  BY <1>3, <1>4, <1>5, <1>6, <1>7, <1>8

(* A Gateway that selects a host of a VirtualService that names it is one  *)
(* of the VirtualService's parents.                                        *)
LEMMA BoundIsParent ==
  ASSUME IInv, NEW gw \in input.gateways, NEW vs \in input.services, NEW h \in ToSet(vs.hosts),
         Binds(gw, vs, h), Key(gw) \in DOMAIN allowedHosts,
         allowedHosts[Key(gw)] = AllowedHosts(gw)
  PROVE  Key(gw) \in ToSet(References(vs))
<1>1. PICK s \in ToSet(Servers(gw)) : \E x \in ToSet(s.hosts) :
        /\ x.ns \in {None, "*", vs.ns} \/ (x.ns = "." /\ vs.ns = gw.ns)
        /\ Matches(x.dns, h)
  BY DEF Binds
<1>2. PICK x \in ToSet(s.hosts) :
        /\ x.ns \in {None, "*", vs.ns} \/ (x.ns = "." /\ vs.ns = gw.ns)
        /\ Matches(x.dns, h)
  BY <1>1
<1>3. x \in GatewayHosts(gw)
  BY InToSet DEF GatewayHosts
<1> DEFINE ns == HostNamespace(x)
<1>4. ns \in {vs.ns, "*"} \/ (ns = "." /\ vs.ns = Key(gw)[1])
  BY <1>2 DEF HostNamespace, Key
<1>5. ns \in DOMAIN AllowedHosts(gw) /\ x.dns \in AllowedHosts(gw)[ns]
  BY <1>3 DEF AllowedHosts
<1> HIDE DEF ns
<1>6. MatchAny(AllowedHosts(gw)[ns], h)
  BY <1>2, <1>5, MatchesSymmetric DEF MatchAny
<1>7. IsAllowed(vs, Key(gw))
  BY <1>4, <1>5, <1>6 DEF IsAllowed, Binds
<1>8. IsList(vs.gateways)
  BY ServiceLists DEF IInv, LoopInv
<1> QED
  BY <1>7, <1>8, ReferencesOf DEF Binds

(* Every request a VirtualService routes is routed the same way by what is *)
(* stored when all is converted, for a host, a match and a name as         *)
(* RequestsServed has them (convertToIR).                                  *)
THEOREM Served == Spec => []RequestsServed
<1>1. IInv => RequestsServed
  <2> SUFFICES ASSUME IInv, Converted, NEW gw \in input.gateways, NEW vs \in input.services,
                      NEW h \in ToSet(vs.hosts), NEW i \in DOMAIN vs.http,
                      Binds(gw, vs, h), gw.ns = vs.ns,
                      {<<"Gateway", Key(gw)>>, <<"VirtualService", Key(vs)>>} \cap errors = {},
                      h \notin Addresses, h = <<"*">> => ConvertHostnames(vs.hosts) = <<>>,
                      ~NameClash(vs, i)
               PROVE  /\ \E l \in ToSet(ir.gateways[Key(gw)]) :
                           l.hostname = None \/ Matches(l.hostname, h)
                      /\ \A m \in {ConvertMatch(x) : x \in ToSet(vs.http[i].matches)} \cup {None} :
                           m # None \/ vs.http[i].matches = <<>> =>
                           \E r \in RangeOf(ir.http) :
                             /\ Key(r) \in RouteKeys(vs, i) /\ Answers(r, h)
                             /\ Key(gw) \in ToSet(r.parents)
                             /\ IF m = None THEN r.matches = <<>> ELSE m \in ToSet(r.matches)
                             /\ r.backends = BackendRefs(vs, vs.http[i].dests)
                             /\ vs.http[i].rewrite => \E f \in ToSet(r.filters) : IsRewrite(f)
    BY DEF RequestsServed
  <2> DEFINE http == vs.http[i]
             rs == ToSet(HTTPRoutes(vs, i))
             With(r) == [r EXCEPT !.parents = References(vs)]
  <2>1. input \in Inputs /\ Through = input.services /\ todo.gateways = {}
    BY DEF IInv, LoopInv, Converted, Through
  <2>2. /\ Key(gw) \in DOMAIN ir.gateways /\ Key(gw) \in DOMAIN allowedHosts
        /\ ir.gateways[Key(gw)] = Listeners(gw) /\ allowedHosts[Key(gw)] = AllowedHosts(gw)
    BY <2>1 DEF IInv, GatewaysInv
  <2>3. \E l \in ToSet(ir.gateways[Key(gw)]) : l.hostname = None \/ Matches(l.hostname, h)
    <3>1. PICK s \in ToSet(Servers(gw)) : \E x \in ToSet(s.hosts) : Matches(x.dns, h)
      BY DEF Binds
    <3>2. PICK x \in ToSet(s.hosts) : Matches(x.dns, h)
      BY <3>1
    <3>3. Listener(s, x) \in ToSet(Listeners(gw))
      BY <2>1, ListenerThere
    <3>4. Listener(s, x).hostname = None \/ Listener(s, x).hostname = x.dns
      BY DEF Listener
    <3> QED
      BY <2>2, <3>2, <3>3, <3>4
  <2>4. Key(gw) \in ToSet(References(vs))
    BY <2>2, BoundIsParent
  <2>5. \A r \in rs : Key(r) \in DOMAIN ir.http /\ ir.http[Key(r)] = With(r)
    BY <2>1 DEF IInv, ServicesInv
  <2>6. ASSUME NEW r \in rs
        PROVE  LET q == With(r) IN
               /\ q \in RangeOf(ir.http)
               /\ Key(q) \in RouteKeys(vs, i) /\ Answers(q, h)
               /\ Key(gw) \in ToSet(q.parents)
               /\ q.matches = r.matches
               /\ q.backends = BackendRefs(vs, http.dests)
               /\ http.rewrite => \E f \in ToSet(q.filters) : IsRewrite(f)
    <3>1. /\ DOMAIN r = RouteFields /\ AskedFor(vs, i, r)
          /\ r.hostnames = ConvertHostnames(vs.hosts)
          /\ http.rewrite => \E f \in ToSet(r.filters) : IsRewrite(f)
      BY <2>1, RoutesOf
    <3>2. /\ With(r).parents = References(vs) /\ Key(With(r)) = Key(r)
          /\ With(r).hostnames = r.hostnames /\ With(r).matches = r.matches
          /\ With(r).filters = r.filters /\ With(r).backends = r.backends
      <4>1. {"ns", "name", "parents"} \subseteq DOMAIN r
            /\ {"hostnames", "matches", "filters", "backends"} \subseteq DOMAIN r \ {"parents"}
        BY <3>1 DEF RouteFields
      <4> QED
        BY <4>1, Parented
    <3> HIDE DEF With
    <3>3. With(r) \in RangeOf(ir.http)
      BY <2>5 DEF RangeOf
    <3>4. Key(With(r)) \in RouteKeys(vs, i)
      BY <3>2 DEF RouteKeys
    <3>5. Answers(With(r), h)
      <4>1. IsList(vs.hosts)
        BY <2>1, ServiceLists
      <4>2. h = <<"*">> \/ h \in ToSet(ConvertHostnames(vs.hosts))
        BY <4>1, HostnamesKept
      <4> QED
        BY <3>1, <3>2, <4>2 DEF Answers
    <3>6. With(r).backends = BackendRefs(vs, http.dests)
      BY <3>1, <3>2 DEF AskedFor
    <3> QED
      BY <2>4, <3>1, <3>2, <3>3, <3>4, <3>5, <3>6
  <2>7. \A m \in Asked(vs, i) : m # None /\ \E r \in rs : m \in ToSet(r.matches)
    <3>1. \A m \in Asked(vs, i) : m # None
      BY <2>1, HTTPLists DEF Asked
    <3> QED
      BY <2>1, <3>1, RoutesOf
  <2>8. http.matches = <<>> => \E r \in rs : r.matches = <<>>
    <3>1. \E r \in rs : AskedFor(vs, i, r)
      BY <2>1, RoutesOf
    <3> QED
      BY <3>1 DEF AskedFor
  <2>9. http.matches = <<>> => Asked(vs, i) = {}
    BY DEF Asked, ToSet
  <2>10. ASSUME NEW m \in Asked(vs, i) \cup {None}, m # None \/ http.matches = <<>>
         PROVE  \E r \in RangeOf(ir.http) :
                  /\ Key(r) \in RouteKeys(vs, i) /\ Answers(r, h)
                  /\ Key(gw) \in ToSet(r.parents)
                  /\ IF m = None THEN r.matches = <<>> ELSE m \in ToSet(r.matches)
                  /\ r.backends = BackendRefs(vs, http.dests)
                  /\ http.rewrite => \E f \in ToSet(r.filters) : IsRewrite(f)
    <3>1. PICK r \in rs : IF m = None THEN r.matches = <<>> ELSE m \in ToSet(r.matches)
      BY <2>7, <2>8, <2>10
    <3> HIDE DEF With, rs
    <3> QED
      BY <2>6, <3>1
  <2>11. {ConvertMatch(x) : x \in ToSet(vs.http[i].matches)} = Asked(vs, i)
    BY DEF Asked
  <2> QED
    BY <2>3, <2>10, <2>11
<1> QED
  BY <1>1, Invariant, PTL
=============================================================================
