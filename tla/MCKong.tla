-------------------------------- MODULE MCKong --------------------------------
(***************************************************************************)
(* Small inputs for Kong: two Ingresses that share a host or not, in both  *)
(* orders, with one to six combinations of header values, methods that are *)
(* and are not, and plugins; TCPIngresses that share ports, hosts, names   *)
(* and the Gateway of an Ingress, from the cluster and from a file.        *)
(***************************************************************************)
EXTENDS Kong

Foo   == [wild |-> FALSE, labels |-> <<<<"foo">>, <<"com">>>>]
AnyFoo == [wild |-> TRUE, labels |-> <<<<"foo">>, <<"com">>>>]

HostOrder == <<NoHost, AnyFoo, Foo>>
ClassOrder == <<"a/b", "kong">>
Pos(seq, x) == CHOOSE i \in 1..Len(seq) : seq[i] = x

MCEarlier(k, o) ==
  \/ Pos(ClassOrder, k.class) < Pos(ClassOrder, o.class)
  \/ k.class = o.class /\ Pos(HostOrder, k.host) < Pos(HostOrder, o.host)

Web == <<"web">>
Api == <<"api">>

S1 == [svc |-> "s1", portName |-> "", port |-> 80]
A  == [type |-> "Prefix", path |-> <<"a">>, backend |-> S1]
B  == [type |-> "Exact", path |-> <<"b">>, backend |-> S1]

Ann(headers, methods, plugins) == [headers |-> headers, methods |-> methods, plugins |-> plugins]

Anns ==
  {Ann(<<>>, {}, <<>>),
   Ann([h \in {"h1"} |-> <<"v1", "v2">>], {"GET", "POST"}, <<"p">>),
   Ann([h \in {"h1"} |-> <<>>], {}, <<>>),
   Ann([h1 |-> <<"v1", "v2">>, h2 |-> <<"w1">>], {"GET"}, <<>>),
   Ann([h1 |-> <<"v1", "v2">>, h2 |-> <<"w1", "w2">>], {}, <<"p", "q">>),
   Ann([h1 |-> <<"v1", "v2">>, h2 |-> <<"w1", "w2", "w3">>], {"GET", "POST"}, <<>>),
   Ann(<<>>, {"GET", "get"}, <<"p">>)}

Ingress(name, rules, ann) ==
  [ns |-> "ns", name |-> name, class |-> "kong", rules |-> rules, tls |-> <<>>,
   default |-> NoBackend, ann |-> ann]

Rule(host, paths) == [host |-> host, paths |-> paths]

RuleLists == {<<Rule(Foo, <<A>>)>>, <<Rule(Foo, <<A, B>>), Rule(NoHost, <<A>>)>>, <<Rule(AnyFoo, <<B>>)>>}

Plain == Ingress(Web, <<Rule(Foo, <<A>>)>>, Ann(<<>>, {}, <<>>))

Patches ==
  {[http |-> list, grpc |-> <<>>, tcp |-> <<>>, source |-> "cluster"] :
     list \in UNION {{<<i>>, <<i, j>>, <<j, i>>} :
                i \in {Ingress(Web, rules, ann) : rules \in RuleLists, ann \in Anns},
                j \in {Ingress(Api, <<Rule(Foo, <<A>>)>>, ann) : ann \in Anns}}}

TCPIngress(name, class, tls, rules) ==
  [ns |-> "ns", name |-> name, class |-> class, tls |-> tls, rules |-> rules]

TCPRule(host, port, backend) == [host |-> host, port |-> port, backend |-> backend]

TLSLists == {<<>>, <<[hosts |-> <<Foo>>, secret |-> "c1"]>>, <<[hosts |-> <<>>, secret |-> "c2"]>>}

TCPRuleLists ==
  {<<TCPRule(Foo, 9000, "s1")>>, <<TCPRule(NoHost, 9000, "s1")>>,
   <<TCPRule(Foo, 9000, "s1"), TCPRule(Foo, 9000, "s2")>>,
   <<TCPRule(Foo, 9000, "s1"), TCPRule(Foo, 9001, "s2")>>,
   <<TCPRule(NoHost, 9000, "s1"), TCPRule(AnyFoo, 9000, "s2"), TCPRule(Foo, 9001, "s1")>>}

Streams ==
  {[http |-> http, grpc |-> <<>>, source |-> source,
    tcp |-> <<TCPIngress(Web, "kong", tls, rules), TCPIngress(Api, class, <<>>, others)>>] :
     http \in {<<>>, <<Plain>>}, source \in {"cluster", "file"},
     tls \in TLSLists, rules \in TCPRuleLists, class \in {"kong", "a/b"}, others \in TCPRuleLists}

MCInputs == Patches \cup Streams
=============================================================================
