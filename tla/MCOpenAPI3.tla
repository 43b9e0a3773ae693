------------------------------ MODULE MCOpenAPI3 ------------------------------
(***************************************************************************)
(* Documents for OpenAPI3: one to three servers, relative, http and https, *)
(* with no, one or two enumerated variables and defaults; up to six        *)
(* operations whose paths meet behind a base path, with servers and        *)
(* parameters of their own, so that routes are cut into parts.             *)
(***************************************************************************)
EXTENDS OpenAPI3

Ranks == <<"*", ".", "-", "a", "b", "com", "eu", "us">>
Rank(w) == CHOOSE i \in DOMAIN Ranks : Ranks[i] = w

(* "http://..." is before "https://..." since ":" is before "s".           *)
Codes(l) == <<IF l.scheme = "http" THEN 1 ELSE 2>> \o [i \in DOMAIN l.host |-> Rank(l.host[i]) + 2]

Letters(group) == FlattenSeq([i \in DOMAIN group |-> Append(Codes(group[i]), 0)])

MCEarlier(g, h) ==
  LET s == Letters(g)
      t == Letters(h) IN
  \E n \in 0..Len(s) :
    /\ n < Len(t)
    /\ \A i \in 1..n : s[i] = t[i]
    /\ n = Len(s) \/ s[n + 1] < t[n + 1]

PathRanks == <<"/", "cats", "pets", "v1">>
MethodRanks == <<"GET", "POST", "PUT">>

MCLess(m, n) ==
  LET Key(x) == [i \in 1..Len(x.path) |-> CHOOSE k \in DOMAIN PathRanks : PathRanks[k] = x.path[i]]
                \o <<0, CHOOSE k \in DOMAIN MethodRanks : MethodRanks[k] = x.method>>
      s == Key(m)
      t == Key(n) IN
  \E i \in DOMAIN s : i \in DOMAIN t /\ s[i] < t[i] /\ \A j \in 1..(i - 1) : s[j] = t[j]

Server(scheme, host, base, v) == [scheme |-> scheme, host |-> host, base |-> base, vars |-> v]
Enum(values) == [enum |-> values, default |-> Head(values)]
Default(value) == [enum |-> <<>>, default |-> value]

A == <<"a", ".", "com">>

Relative == Server("", <<>>, <<"v1">>, <<>>)
Root  == Server("", <<>>, <<>>, <<>>)
HTTP  == Server("http", A, <<>>, <<>>)
HTTPS == Server("https", A, <<>>, <<>>)
Other == Server("https", <<"b", ".", "com">>, <<"v1">>, <<>>)
Dot   == Server("http", <<"a", ".", "b", ".", "com">>, <<>>, <<>>)
Dash  == Server("http", <<"a", "-", "b", ".", "com">>, <<>>, <<>>)
Regions == Server("http", <<"r", ".", "com">>, <<"v">>,
                  [r |-> Enum(<<"eu", "us">>), v |-> Default("v1")])
Versions == Server("https", <<"r", ".", "h", ".", "com">>, <<>>,
                   [r |-> Enum(<<"eu", "us">>), h |-> Enum(<<"a", "b">>)])

ServerLists ==
  {<<>>, <<Relative>>, <<Root, HTTP>>, <<HTTP>>, <<HTTP, HTTPS>>, <<HTTPS, Other>>, <<Dot, Dash>>, <<Regions>>,
   <<Versions, HTTP>>}

Op(method, servers, params) == [method |-> method, servers |-> servers, params |-> params]
Item(path, servers, ops) ==
  [path |-> path, servers |-> servers, params |-> {[in |-> "header", name |-> "h", required |-> TRUE]},
   ops |-> ops]

Query == <<{[in |-> "query", name |-> "q", required |-> TRUE], [in |-> "query", name |-> "o", required |-> FALSE]}>>

PathLists ==
  {<<Item(<<"pets">>, servers, <<Op("GET", own, <<>>), Op("PUT", <<>>, Query)>>)>> :
     servers \in {<<>>, <<HTTPS>>, <<Other, HTTP>>}, own \in {<<>>, <<HTTP>>, <<Versions>>}}
  \cup
  {<<Item(<<"v1", "pets">>, <<>>, <<Op("GET", own, Query), Op("PUT", <<>>, <<>>)>>),
     Item(<<"pets">>, <<>>, <<Op("GET", <<>>, <<>>), Op("PUT", <<>>, <<>>)>>)>> : own \in {<<>>, <<HTTPS>>}}
  \cup
  {<<Item(<<"pets">>, <<>>, <<Op("GET", <<>>, <<>>), Op("PUT", <<>>, <<>>), Op("POST", <<>>, <<>>)>>),
     Item(<<"cats">>, <<>>, <<Op("GET", <<>>, <<>>), Op("PUT", own, <<>>)>>)>> : own \in {<<>>, <<HTTP>>}}

Confs == {[ns |-> "", backend |-> "", secret |-> ""], [ns |-> "ns", backend |-> "apps", secret |-> "tls"],
          [ns |-> "ns", backend |-> "ns", secret |-> ""]}

MCDocuments == {[servers |-> s, paths |-> p, conf |-> c] : s \in ServerLists, p \in PathLists, c \in Confs}
=============================================================================
