---------------------------- MODULE MCProviders ----------------------------
(***************************************************************************)
(* Small sets of Ingresses for Providers.  Plain ones for ToIR: two        *)
(* Ingresses that may share hosts, paths, secrets and path types, gRPC     *)
(* next to HTTP, hosts and names that become equal when turned into names, *)
(* default backends, several classes, unresolvable ports and bad path      *)
(* types.  Then annotated ones for the features of each provider.          *)
(***************************************************************************)
EXTENDS Providers

Foo     == [wild |-> FALSE, labels |-> <<<<"foo">>, <<"com">>>>]
WildFoo == [wild |-> TRUE,  labels |-> <<<<"foo">>, <<"com">>>>]
Bar     == [wild |-> FALSE, labels |-> <<<<"bar">>, <<"com">>>>]
FooBar  == [wild |-> FALSE, labels |-> <<<<"foo", "bar">>, <<"com">>>>]

(* "ns/class/host/protocol": no host sorts first and "*" before letters.   *)
HostOrder == <<NoHost, WildFoo, Bar, Foo, FooBar>>
ClassOrder == <<"", "a/b", "gce", "gce-internal", "nginx", "other", "traefik">>
Pos(seq, x) == CHOOSE i \in 1..Len(seq) : seq[i] = x

MCEarlier(k, o) ==
  \/ Pos(ClassOrder, k.class) < Pos(ClassOrder, o.class)
  \/ /\ k.class = o.class
     /\ \/ Pos(HostOrder, k.host) < Pos(HostOrder, o.host)
        \/ k.host = o.host /\ k.protocol = "grpc" /\ o.protocol = "http"

MCServicePorts == [x \in {<<"ns", "s2", "web">>} |-> 8080]

S1      == [svc |-> "s1", portName |-> "", port |-> 80]
S2      == [svc |-> "s2", portName |-> "web", port |-> -1]
Unknown == [svc |-> "s1", portName |-> "web", port |-> -1]

Path(type, path, backend) == [type |-> type, path |-> path, backend |-> backend]

PathLists ==
  {<<Path("Prefix", <<"a">>, S1)>>,
   <<Path("Exact", <<"a">>, S2), Path("Prefix", <<"a">>, S2)>>,
   <<Path("ImplementationSpecific", <<>>, S1), Path("Prefix", <<"a">>, S2)>>}

BadPathLists ==
  {<<Path("", <<"a">>, S1)>>, <<Path("Prefix", <<"a">>, S1), Path("Prefix", <<"a">>, Unknown)>>}

Ingress(name, class, rules, tls, default) ==
  [ns |-> "ns", name |-> name, class |-> class, rules |-> rules, tls |-> tls,
   default |-> default]

Rule(host, paths) == [host |-> host, paths |-> paths]
Cert(hosts, secret) == <<[hosts |-> hosts, secret |-> secret]>>

Web == <<"web">>
WebFoo == <<"web", "foo">>

OneRule == {<<Rule(h, ps)>> : h \in {NoHost, Foo, WildFoo}, ps \in PathLists}
TwoRules == {<<Rule(h, ps), Rule(Bar, ps)>> : h \in {Foo, Bar}, ps \in PathLists}

First == {Ingress(Web, "nginx", rules, tls, NoBackend) :
            rules \in OneRule \cup TwoRules, tls \in {<<>>, Cert(<<Foo>>, "c1")}}

Second == {Ingress(WebFoo, "nginx", rules, tls, NoBackend) :
             rules \in OneRule, tls \in {<<>>, Cert(<<WildFoo>>, "c2")}}

Shared == {[http |-> <<i, j>>, grpc |-> <<>>] : i \in First, j \in Second}
Mixed  == {[http |-> <<i>>, grpc |-> <<j>>] : i \in First, j \in Second}

(* Errors: in the first or the second Ingress, or in its class.            *)
Bad == {[http |-> <<Ingress(Web, "nginx", <<Rule(Foo, ps)>>, <<>>, NoBackend), j>>, grpc |-> <<>>] :
          ps \in BadPathLists, j \in {Ingress(WebFoo, class, <<Rule(Bar, qs)>>, <<>>, d) :
            class \in {"nginx", "a/b"}, qs \in PathLists \cup BadPathLists \cup {<<>>}, d \in {NoBackend, Unknown}}}

(* Default backends, with and without rules, and other classes.            *)
Defaults == {[http |-> <<Ingress(Web, c1, rules, <<>>, S1), Ingress(WebFoo, c2, <<>>, <<>>, d)>>, grpc |-> <<>>] :
               c1 \in {"", "nginx", "a/b"}, c2 \in {"nginx", "other"},
               rules \in OneRule, d \in {S1, S2, Unknown}}

(* Different Ingresses and hosts, one route name: web + foo-bar.com and    *)
(* web-foo + bar.com.                                                      *)
Namesakes == {[http |-> <<Ingress(Web, "nginx", <<Rule(h1, ps)>>, <<>>, NoBackend),
                          Ingress(WebFoo, "nginx", <<Rule(h2, qs)>>, <<>>, NoBackend)>>, grpc |-> <<>>] :
                h1 \in {FooBar, Foo}, h2 \in {Bar, Foo}, ps \in PathLists, qs \in PathLists}

For(provider, inputs) == {i @@ [provider |-> provider] : i \in inputs}

PlainInputs == For("", Shared \cup Mixed \cup Bad \cup Defaults \cup Namesakes)

-----------------------------------------------------------------------------
(* Two annotated Ingresses: one host, or two, or both the same.            *)
OnePath == <<Path("Prefix", <<"a">>, S1)>>
TwoPaths == <<Path("Exact", <<"a">>, S1), Path("Prefix", <<"b", "c">>, S2)>>
TwoBackends == <<Path("Prefix", <<"a">>, S1), Path("Prefix", <<"a">>, S2)>>

Annotated(i, j, a, b) ==
  [http |-> <<i, j>>, grpc |-> <<>>, annotations |-> (<<i.ns, i.name>> :> a) @@ (<<j.ns, j.name>> :> b)]

FirstOf(class) ==
  {Ingress(Web, class, rules, tls, NoBackend) :
     rules \in {<<Rule(Foo, OnePath)>>, <<Rule(Foo, TwoPaths), Rule(Bar, OnePath)>>, <<Rule(WildFoo, TwoBackends)>>},
     tls \in {<<>>, Cert(<<Foo>>, "c1")}}

SecondOf(class) ==
  {Ingress(WebFoo, class, <<Rule(h, TwoPaths)>>, <<>>, NoBackend) : h \in {NoHost, Foo, Bar}}

Pairs(class, As, Bs) ==
  InMapOrder({Annotated(i, j, a, b) : i \in FirstOf(class), j \in SecondOf(class), a \in As, b \in Bs})

Traefik ==
  LET As == [tls : BOOLEAN, entrypoints : {{}, {"web"}, {"websecure"}, {"web", "websecure"}, {"metrics"}}]
  IN For("traefik", Pairs("traefik", As, {a \in As : a.tls => "websecure" \in a.entrypoints}))

Cilium == For("cilium", Pairs("nginx", [https : BOOLEAN], [https : BOOLEAN]))

Apisix == For("apisix", Pairs("nginx", [https : BOOLEAN], [https : BOOLEAN]))

(* nginx: one or two annotations of interest at a time.                    *)
None == [http |-> {}, https |-> {}, rewrites |-> {}, hide |-> FALSE, set |-> FALSE, regex |-> "",
         redirect |-> FALSE, hsts |-> FALSE, tls |-> {}, grpc |-> {}]

Listens ==
  {[None EXCEPT !.http = ps, !.https = qs, !.redirect = r] :
     ps \in {{}, {8080}, {80, 8443}}, qs \in {{}, {8443}}, r \in BOOLEAN}

Filters ==
  {[None EXCEPT !.rewrites = {"s1"}, !.hide = TRUE], [None EXCEPT !.set = TRUE, !.hsts = TRUE, !.tls = {"s1"}]}
    \cup {[None EXCEPT !.regex = r, !.hide = TRUE] : r \in {"exact", "true", "case_insensitive"}}

Moved ==
  {[None EXCEPT !.grpc = ss, !.redirect = r, !.regex = x] :
     ss \in {{"s1"}, {"s1", "s2"}}, r \in BOOLEAN, x \in {"", "case_insensitive"}}

Nginx ==
  For("nginx", Pairs("nginx", Listens, {a \in Listens : a.https = {} /\ a.http # {8080}}) \cup Pairs("nginx", Filters, {None, [None EXCEPT !.grpc = {"s2"}]})
                 \cup Pairs("nginx", Moved, {None, [None EXCEPT !.grpc = {"s1"}, !.regex = "exact"]}))

-----------------------------------------------------------------------------
(* gce: two Services, each with no BackendConfig, one by either annotation *)
(* or both, one of them not there and one invalid; and two FrontendConfigs.*)
Kinds == {"affinity", "security", "healthCheck", "cdn"}

Configs ==
  ("all" :> [valid |-> TRUE, kinds |-> Kinds]) @@ ("cdn" :> [valid |-> TRUE, kinds |-> {"cdn"}])
    @@ ("bad" :> [valid |-> FALSE, kinds |-> {"healthCheck"}])

Gce ==
  LET Named == {"", "all", "cdn", "bad", "gone"}
      Ings == {<<Ingress(Web, c, rules, <<>>, S1), Ingress(WebFoo, d, <<Rule(Foo, TwoPaths)>>, <<>>, NoBackend)>> :
                 c \in {"", "gce-internal"}, d \in {"", "gce"},
                 rules \in {<<>>, <<Rule(Foo, TwoBackends)>>}}
      Services == {("s1" :> [v1 |-> "all", beta |-> x]) @@ ("s2" :> [v1 |-> y, beta |-> z]) :
                     x \in {"", "cdn"}, y \in Named, z \in {"", "bad", "cdn"}}
  IN For("gce", {Annotated(WithClass(ings[1]), WithClass(ings[2]), [frontend |-> f], [frontend |-> g])
                    @@ [services |-> ss, configs |-> Configs, gatewayClass |-> gc,
                      frontends |-> ("f1" :> "modern") @@ ("f2" :> "")] :
                  ings \in Ings, ss \in Services, gc \in {"", "gke-l7-rilb", "unknown"},
                  f \in {"", "f1"}, g \in {"f1", "f2"}})

MCInputs == PlainInputs \cup Traefik \cup Cilium \cup Apisix \cup Nginx \cup Gce
=============================================================================
