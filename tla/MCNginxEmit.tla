----------------------------- MODULE MCNginxEmit -----------------------------
(***************************************************************************)
(* Ingresses for Emitters: two Ingresses that share a host, with every    *)
(* pair of annotations and with TLS on the first, the second or none; a    *)
(* main Ingress with a canary; a host and its www name; and TLS that one   *)
(* Ingress has for the host of another.  For the route features of         *)
(* IngressNginx alone: canaries of every kind, on one host or on a host    *)
(* and its wildcard, next to a gRPC or unsupported Ingress that sorts      *)
(* first; and every pair of route features on one host.  A passthrough     *)
(* Ingress whose canary is not.  For panics: two                           *)
(* rule groups of one route name and a default backend.  For Services:     *)
(* two Ingresses, or a main Ingress and its canary, with backend TLS and   *)
(* affinity for the same or for different Services.                        *)
(***************************************************************************)
EXTENDS Emitters

Node   == [wild |-> FALSE, labels |-> <<<<"node">>>>]
Node0  == [wild |-> FALSE, labels |-> <<<<"node", "0">>>>]
Foo    == [wild |-> FALSE, labels |-> <<<<"foo">>, <<"com">>>>]
Com    == [wild |-> FALSE, labels |-> <<<<"com">>>>]
WWWFoo == [wild |-> FALSE, labels |-> <<<<"www">>, <<"foo">>, <<"com">>>>]
AnyFoo == [wild |-> TRUE,  labels |-> <<<<"foo">>, <<"com">>>>]

HostOrder == <<NoHost, Com, AnyFoo, Foo, Node, Node0, WWWFoo>>
Pos(seq, x) == CHOOSE i \in 1..Len(seq) : seq[i] = x
MCEarlier(k, o) ==
  \/ Pos(HostOrder, k.host) < Pos(HostOrder, o.host)
  \/ k.host = o.host /\ k.protocol = "grpc" /\ o.protocol = "http"

(* Names are compared word by word: a dash sorts before letters and digits. *)
Words ==
  <<"0", "00", "all", "api", "backend", "canary", "com", "default", "foo", "hosts", "node", "ns", "other",
    "web", "www">>
MCNameBefore(a, b) ==
  \/ IsStrictPrefix(a, b)
  \/ \E i \in DOMAIN a \cap DOMAIN b :
       /\ \A j \in 1..(i - 1) : a[j] = b[j]
       /\ Pos(Words, a[i]) < Pos(Words, b[i])

MCServicePorts == [x \in {} |-> 0]

Plain == [protocol |-> "", canary |-> FALSE, weight |-> NoWeight, header |-> FALSE, value |-> "",
          redirect |-> "", regex |-> FALSE, rewrite |-> FALSE, passthrough |-> FALSE, appRoot |-> "",
          captures |-> FALSE, ipRange |-> FALSE, timeouts |-> {}, cors |-> FALSE, bodySize |-> {},
          sslRedirect |-> "", www |-> "", setHeaders |-> FALSE, proxySSL |-> "", affinity |-> FALSE]

Anns ==
  {Plain, [Plain EXCEPT !.sslRedirect = "false"], [Plain EXCEPT !.sslRedirect = "true", !.cors = TRUE],
   [Plain EXCEPT !.rewrite = TRUE], [Plain EXCEPT !.rewrite = TRUE, !.captures = TRUE],
   [Plain EXCEPT !.rewrite = TRUE, !.sslRedirect = "false", !.timeouts = {"valid", "invalid"}],
   [Plain EXCEPT !.ipRange = TRUE, !.bodySize = {"valid"}],
   [Plain EXCEPT !.bodySize = {"valid", "invalid"}, !.timeouts = {"invalid"}],
   [Plain EXCEPT !.redirect = "valid"], [Plain EXCEPT !.appRoot = "valid"],
   [Plain EXCEPT !.passthrough = TRUE], [Plain EXCEPT !.www = "true"], [Plain EXCEPT !.www = "bad"]}

Ingress(name, host, type, path, tls, ann) ==
  [ns |-> "ns", name |-> name, class |-> "nginx", default |-> NoBackend, ann |-> ann, tls |-> tls,
   rules |-> <<[host |-> host, paths |-> <<[type |-> type, path |-> path,
                  backend |-> [svc |-> name[1], portName |-> "", port |-> 80]]>>]>>]

Cert(hosts) == [hosts |-> hosts, secret |-> "cert"]

Web(type, path, tls, ann) == Ingress(<<"web">>, Foo, type, path, tls, ann)
Api(host, type, path, tls, ann) == Ingress(<<"api">>, host, type, path, tls, ann)

Shared ==
  {<<Web("Prefix", p, t, a), Api(Foo, q[1], q[2], u, b)>> :
     p \in {<<>>, <<"a", "">>}, q \in {<<"Exact", <<>>>>, <<"Prefix", <<"a">>>>, <<"Exact", <<"a", "">>>>},
     t \in {<<>>, <<Cert(<<Foo>>)>>}, u \in {<<>>, <<Cert(<<>>), Cert(<<Foo>>)>>},
     a \in Anns, b \in Anns}

Canaries ==
  {<<Ingress(<<"canary">>, Foo, "Prefix", <<"a", "">>, <<>>,
             [b EXCEPT !.canary = TRUE, !.weight = 20]),
     Web("Prefix", <<"a", "">>, t, a)>> : t \in {<<>>, <<Cert(<<Foo>>)>>}, a \in Anns, b \in Anns}

TwoNames ==
  {<<Web("Prefix", <<>>, t, a), Api(h, "Prefix", <<>>, u, b)>> :
     h \in {WWWFoo, AnyFoo, NoHost}, t \in {<<>>, <<Cert(<<Foo>>)>>, <<Cert(<<Foo, WWWFoo>>)>>},
     u \in {<<>>, <<Cert(<<>>)>>}, a \in Anns, b \in {[Plain EXCEPT !.www = w] : w \in {"", "false", "true", "bad"}}}

(* One Ingress with policies for all rules of a route or, next to another, *)
(* for one of two; a policy's name is the name of another host's policy.   *)
Limits == {[Plain EXCEPT !.ipRange = TRUE, !.bodySize = {"valid"}], [Plain EXCEPT !.bodySize = {"valid"}], Plain}

TwoPaths(host, p, ann) ==
  [Ingress(<<"web">>, host, "Prefix", <<"a">>, <<>>, ann) EXCEPT
     !.rules[1].paths = Append(@, [type |-> "Prefix", path |-> p, backend |-> @[1].backend])]

Limited ==
  {<<TwoPaths(Foo, p, a)>> : p \in {<<"b">>, <<"b", "">>}, a \in Limits}
    \cup {<<TwoPaths(Foo, <<"b">>, a), Api(Foo, "Prefix", <<"c">>, <<>>, b)>> : a \in Limits, b \in Limits}
    \cup {<<[TwoPaths(Node, <<"b">>, a) EXCEPT !.rules = Append(@, [host |-> Node0, paths |-> <<@[1].paths[1]>>])],
            Api(Node, "Prefix", <<"c">>, <<>>, b)>> : a \in Limits, b \in Limits}

-----------------------------------------------------------------------------
(* For the route features.                                                 *)
CanaryAnns ==
  {[Plain EXCEPT !.canary = TRUE, !.weight = w, !.header = h[1], !.value = h[2]] :
     w \in {NoWeight, 0, 20, 150}, h \in {<<FALSE, "">>, <<TRUE, "">>, <<TRUE, "blue">>}}

RouteAnns ==
  {Plain, [Plain EXCEPT !.redirect = "valid"], [Plain EXCEPT !.redirect = "invalid"],
   [Plain EXCEPT !.regex = TRUE], [Plain EXCEPT !.rewrite = TRUE],
   [Plain EXCEPT !.passthrough = TRUE], [Plain EXCEPT !.appRoot = "valid"],
   [Plain EXCEPT !.appRoot = "valid", !.redirect = "valid"],
   [Plain EXCEPT !.passthrough = TRUE, !.redirect = "valid"]}

Service(name) == [svc |-> name, portName |-> "", port |-> 80]
Resource == [svc |-> "bucket", portName |-> "", port |-> 0]

Path(type, path, backend) == [type |-> type, path |-> path, backend |-> backend]

OnHosts(name, hosts, path, ann) ==
  [ns |-> "ns", name |-> name, class |-> "nginx", tls |-> <<>>, default |-> NoBackend, ann |-> ann,
   rules |-> [i \in 1..Len(hosts) |-> [host |-> hosts[i], paths |-> <<path>>]]]

Prefix(path, svc) == Path("Prefix", path, Service(svc))

Main(hosts, ann) == OnHosts(<<"web">>, hosts, Prefix(<<"a">>, "main"), ann)
Canary1(hosts, ann) == OnHosts(<<"web", "canary">>, hosts, Prefix(<<"a">>, "canary"), ann)
Canary2(hosts, ann) == OnHosts(<<"web", "other">>, hosts, Prefix(<<"a">>, "other"), ann)

WithCanary ==
  {<<Main(hosts, a), Canary1(hosts, c)>> : hosts \in {<<Foo>>, <<Foo, AnyFoo>>}, a \in RouteAnns, c \in CanaryAnns}

(* An Ingress "api" of another protocol comes first on the host.           *)
Mixed ==
  {<<OnHosts(<<"api">>, <<Foo>>, Prefix(<<"svc">>, "api"), [Plain EXCEPT !.protocol = pr]),
     Main(<<Foo>>, Plain), Canary1(<<Foo>>, c)>> :
     pr \in {"HTTP", "GRPC", "FCGI"}, c \in CanaryAnns}

(* After it, two main Ingresses share a path, and no error says so.        *)
TwoMains ==
  {<<OnHosts(<<"api">>, <<Foo>>, Prefix(<<"svc">>, "api"), [Plain EXCEPT !.protocol = pr]),
     Main(<<Foo>>, a), Canary2(<<Foo>>, b)>> : pr \in {"GRPC", "FCGI"}, a \in RouteAnns, b \in RouteAnns}

GRPCCanary ==
  {<<Main(<<Foo>>, [Plain EXCEPT !.protocol = "GRPC"]), Canary1(<<Foo>>, [c EXCEPT !.protocol = "GRPC"])>> :
     c \in CanaryAnns}

(* One canary too many, one main Ingress too many, none at all.            *)
Wrong ==
  LET c == [Plain EXCEPT !.canary = TRUE, !.weight = 20] IN
  {<<Main(<<Foo>>, Plain), Canary1(<<Foo>>, c), Canary2(<<Foo>>, c)>>,
   <<Main(<<Foo>>, Plain), Canary2(<<Foo>>, Plain)>>, <<Canary1(<<Foo>>, c)>>}

Pairs ==
  {<<OnHosts(<<"web">>, <<Foo>>, p, a), OnHosts(<<"web", "other">>, <<Foo>>, q, b)>> :
     a \in RouteAnns, b \in RouteAnns,
     p \in {Path("Exact", <<>>, Service("s1")), Prefix(<<>>, "s1")},
     q \in {Prefix(<<"a">>, "s2"), Prefix(<<>>, "s2"), Path("Prefix", <<"a">>, Resource)}}

(* A passthrough Ingress leaves its rule to its canary.                    *)
LeftToCanary ==
  {<<Main(<<Foo>>, [Plain EXCEPT !.passthrough = TRUE, !.setHeaders = TRUE]), Canary1(<<Foo>>, c)>> : c \in CanaryAnns}

-----------------------------------------------------------------------------
(* For Services.                                                           *)
Secure == [Plain EXCEPT !.protocol = "HTTPS", !.proxySSL = "ca1"]

ServiceAnns ==
  {Plain, Secure, [Secure EXCEPT !.proxySSL = "ca2"], [Secure EXCEPT !.proxySSL = ""],
   [Secure EXCEPT !.protocol = "https"], [Secure EXCEPT !.protocol = "GRPCS"],
   [Plain EXCEPT !.affinity = TRUE, !.setHeaders = TRUE], [Secure EXCEPT !.affinity = TRUE],
   [Secure EXCEPT !.redirect = "valid"]}

SharedServices ==
  {<<OnHosts(hosts[1][1], <<hosts[1][2]>>, Prefix(<<"a">>, "s1"), a),
     OnHosts(hosts[2][1], <<hosts[2][2]>>, Prefix(<<"b">>, svc), b)>> :
     hosts \in {<<<<<<"web">>, Foo>>, <<<<"web", "other">>, Foo>>>>,
                <<<<<<"other", "web">>, WWWFoo>>, <<<<"web">>, Foo>>>>},
     svc \in {"s1", "s2"}, a \in ServiceAnns, b \in ServiceAnns}
  \cup {<<Main(<<Foo>>, a), Canary1(<<Foo>>, [b EXCEPT !.canary = TRUE, !.weight = w, !.header = (w = NoWeight)])>> :
         w \in {NoWeight, 20}, a \in ServiceAnns, b \in ServiceAnns}

(* An Ingress that is dropped and names a port that is not there.          *)
Unresolved ==
  {<<Main(<<Foo>>, a),
     OnHosts(<<"web", "other">>, <<Foo>>, Path("Prefix", <<"b">>, [Service("s2") EXCEPT !.portName = "http"]),
             [Plain EXCEPT !.protocol = "FCGI"])>> : a \in {Plain, Secure}}

(* The canary of "web-foo" for the host "com" makes "web" for "foo.com"    *)
(* visit its route as well; a passthrough Ingress has a default backend.   *)
Panics ==
  {<<OnHosts(<<"web">>, <<Foo>>, Prefix(<<"a">>, "main"), [Plain EXCEPT !.protocol = pr]),
     OnHosts(<<"web", "foo">>, <<Com>>, Prefix(<<"a">>, "main"), Plain),
     OnHosts(<<"web", "foo", "canary">>, <<Com>>, Prefix(<<"a">>, "canary"), c)>> :
     pr \in {"GRPC", "FCGI"}, c \in CanaryAnns}
  \cup {<<[Main(<<Foo>>, [Plain EXCEPT !.passthrough = TRUE]) EXCEPT !.default = d]>> : d \in {Resource, Service("s1")}}

RouteLists == Panics \cup TwoMains \cup SharedServices \cup Unresolved \cup WithCanary \cup Mixed \cup GRPCCanary \cup Wrong \cup Pairs
                \cup LeftToCanary

MCInputs == {Split(list) : list \in Shared \cup Canaries \cup TwoNames \cup Limited \cup RouteLists}
=============================================================================
