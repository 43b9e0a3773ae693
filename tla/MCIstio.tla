------------------------------- MODULE MCIstio -------------------------------
(***************************************************************************)
(* Small Istio configurations: two Gateways in one or two namespaces, with *)
(* every kind of server and host; two VirtualServices that export to       *)
(* them, share hosts and names, and use every part of a route.             *)
(***************************************************************************)
EXTENDS Istio

AnyHost == <<"*">>
Com     == <<"*", "com">>
Foo     == <<"foo", "com">>
Bar     == <<"bar", "org">>
Address == <<"10", "0", "0", "1">>

Host(ns, dns) == [ns |-> ns, dns |-> dns]

Server(port, protocol, tls, hosts) ==
  [port |-> port, protocol |-> protocol, tls |-> tls, hosts |-> hosts]

Plain(hosts) == Server(80, "HTTP", None, hosts)

Gateway(ns, name, servers) == [ns |-> ns, name |-> name, servers |-> servers]

ServerLists ==
  {<<Plain(<<Host(None, AnyHost)>>)>>,
   <<Plain(<<Host("a", Com)>>), Server(443, "HTTP2", "SIMPLE", <<Host(".", Foo)>>)>>,
   <<Server(443, "GRPC", "PASSTHROUGH", <<Host("*", Foo), Host("b", AnyHost)>>)>>,
   <<Server(None, "HTTP", None, <<Host(None, AnyHost)>>),
     Server(443, "HTTPS", "ISTIO_MUTUAL", <<Host(None, AnyHost)>>),
     Server(27017, "MONGO", None, <<Host(None, Bar)>>)>>,
   <<Server(443, "HTTPS", "unknown", <<Host(None, AnyHost)>>)>>,
   <<Plain(<<Host(None, AnyHost)>>), Server(9000, "UDP", None, <<Host(None, AnyHost)>>)>>}

Match(uri, conds) == [uri |-> uri, conds |-> conds]
Cond(field, kind) == [field |-> field, kind |-> kind]
Dest(service, ns) == [service |-> service, ns |-> ns]

(* Matches, name, mirrors, header changes, redirect and rewrite of a route *)
HTTP(name, matches, dests, mirror, mirrors, headers, redirect, rewrite) ==
  [name |-> name, matches |-> matches, dests |-> dests, mirror |-> mirror,
   mirrors |-> mirrors, headers |-> headers, redirect |-> redirect, rewrite |-> rewrite]

MatchLists ==
  {<<>>,
   <<Match("exact", {Cond("header", "exact"), Cond("method", "regex")})>>,
   <<Match("prefix", {}), Match(None, {Cond("query", "regex"), Cond("scheme", "exact")})>>,
   <<Match("regex", {Cond("method", "exact")}), Match("prefix", {}), Match("other", {})>>}

D1 == Dest("s1", None)
D2 == Dest("s2", "b")

HTTPRoutesOf ==
  {HTTP(None, ms, <<D1, None>>, None, <<>>, hs, FALSE, rw) :
     ms \in MatchLists, hs \in {{}, {"request"}}, rw \in BOOLEAN}
  \cup
  {HTTP(<<"idx", "1">>, ms, <<D2>>, D1, <<>>, {"request", "response"}, FALSE, rw) :
     ms \in MatchLists, rw \in BOOLEAN}
  \cup {HTTP(None, <<>>, <<>>, None, <<D1, D2>>, {}, TRUE, FALSE)}

Conflict == HTTP(None, <<>>, <<D1>>, D1, <<D2>>, {}, FALSE, FALSE)

L4(sniHosts, dests) == [sniHosts |-> sniHosts, dests |-> dests]

Service(ns, name, hosts, exportTo, gateways, http, tls, tcp) ==
  [ns |-> ns, name |-> name, hosts |-> hosts, exportTo |-> exportTo,
   gateways |-> gateways, http |-> http, tls |-> tls, tcp |-> tcp]

Ref(ns, name) == [ns |-> ns, name |-> name]

W == <<"web">>

Gateways1 == {{Gateway("a", <<"g">>, sl)} : sl \in ServerLists}
Gateways2 == {{Gateway("a", <<"g">>, <<Plain(<<Host(None, AnyHost)>>)>>), Gateway("a", <<"h">>, sl)} :
                sl \in ServerLists}

Simple == HTTP(None, <<>>, <<D1>>, None, <<>>, {}, FALSE, FALSE)
HostLists == {<<Foo>>, <<AnyHost>>, <<Com, AnyHost>>, <<Address>>, <<Address, Bar>>}

(* One VirtualService: hosts and servers, then routes.                     *)
Hosted ==
  [gateways : Gateways1,
   services : {{Service("a", W, hs, ex, <<Ref(None, <<"g">>)>>, <<Simple>>, <<>>, <<>>)} :
                 hs \in HostLists, ex \in {{}, {"."}, {"b"}}}]

Routed ==
  [gateways : {{Gateway("a", <<"g">>, <<Plain(<<Host(None, AnyHost)>>)>>)}},
   services : {{Service("a", W, <<Foo>>, {}, <<Ref(None, <<"g">>)>>, <<h1, h2>>, <<>>, <<>>)} :
                 h1, h2 \in HTTPRoutesOf \cup {Conflict}}]

(* Two of them, in the namespace of the Gateways or in another one.        *)
Pairs ==
  [gateways : Gateways2,
   services : {{Service(ns, W, hs, {}, <<Ref("a", <<"g">>), Ref("a", <<"h">>)>>, <<Simple>>, <<>>, tcp),
                Service(ns, W \o n, <<Foo>>, {"a"}, <<Ref("a", <<"h">>)>>, <<h>>,
                        <<L4({Foo}, <<D1>>)>>, <<>>)} :
                 ns \in {"a", "b"}, hs \in {<<Foo>>, <<Bar>>}, n \in {<<"x">>, <<"idx">>},
                 tcp \in {<<>>, <<L4({}, <<D2>>)>>},
                 h \in {Simple, Conflict, HTTP(<<"0">>, <<>>, <<D2>>, None, <<>>, {}, FALSE, TRUE)}}]

MCAddresses == {Address}

MCInputs == Hosted \cup Routed \cup Pairs
=============================================================================
