------------------------- MODULE IngressNginx_proof -------------------------
(***************************************************************************)
(* TLAPS proofs about common.ToIR (IngressAggregator) and about what the   *)
(* features of ingress-nginx make of its routes: any number of Ingresses   *)
(* with any rules, hosts, classes, TLS entries and annotations, groups,    *)
(* gateways and routes in any order.                                       *)
(*                                                                         *)
(* What a rule asks for moves: from the Ingress into a group, from the     *)
(* group into a wish for a listener, from the wish into a gateway.  IInv   *)
(* follows the host of every route and every secret along that way, and    *)
(* says of all hosts on the way whose they are, since a host can only lose *)
(* its listener to a namesake that some Ingress of the gateway names.      *)
(*                                                                         *)
(* The second half shows that every feature keeps NginxInv, CanaryInv and  *)
(* FlowsInv; Emitters_proof draws the conclusions for EmittersSpec.        *)
(***************************************************************************)
EXTENDS IngressNginx, Lists_proof, FiniteSetTheorems

(* Some Ingress of the gateway names the host.                             *)
Claimed(gw, h) ==
  \E ing \in Ingresses : <<ing.ns, ing.class>> = gw /\ h \in HostsOf(ing)

FlowInv ==
  /\ input \in Inputs
  /\ pc \in {"add", "groups", "gateways", "done"}
  /\ pc \in {"add", "groups"} => gateways = <<>>
  /\ pc \in {"gateways", "done"} => groups = <<>>
  /\ pc = "done" => listeners = <<>>
  /\ DOMAIN gateways \cap DOMAIN listeners = {}
  /\ ir = IF pc # "done" \/ errors # {} THEN EmptyIR
          ELSE [http |-> ByKey(httpRoutes), grpc |-> ByKey(grpcRoutes), gateways |-> gateways]

(* A group and the hosts of its TLS entries are those of Ingresses of the  *)
(* gateway it will ask for a listener.                                     *)
OfGateway(gw, k, group) ==
  /\ Claimed(gw, k.host)
  /\ IsList(group.tls)
  /\ \A t \in ToSet(group.tls) : IsList(t.hosts) /\ \A h \in ToSet(t.hosts) : Claimed(gw, h)

GroupsInv == \A k \in DOMAIN groups : OfGateway(GatewayKey(k), k, groups[k])

WishesInv ==
  \A gw \in DOMAIN listeners :
    /\ IsList(listeners[gw])
    /\ \A w \in ToSet(listeners[gw]) : w.tls \in BOOLEAN /\ (w.host = NoHost \/ Claimed(gw, w.host))

AllDefault(r) ==
  \A i \in 1..Len(r.sources) : \A j \in 1..Len(r.sources[i]) : r.sources[i][j].default

(* A listener for the host is asked for, or there, or its name is taken,   *)
(* or the conversion has failed.                                           *)
Reaches(gw, h) ==
  \/ gw \in DOMAIN listeners /\ \E w \in ToSet(listeners[gw]) : h # NoHost => w.host = h
  \/ /\ gw \in DOMAIN gateways /\ Distinct(gateways[gw])
     /\ \/ \E l \in ToSet(gateways[gw]) : l.port = 80 /\ (h = NoHost \/ l.host = h)
        \/ \E ing \in Ingresses : \E o \in HostsOf(ing) \ {NoHost, h} :
             <<ing.ns, ing.class>> = gw /\ NameFromHost(o) = NameFromHost(h)
  \/ gw[2] \in SlashedClasses /\ errors # {}

RoutesInv ==
  /\ IsList(defaults) /\ IsList(httpRoutes) /\ IsList(grpcRoutes)
  /\ \A r \in ToSet(httpRoutes) \cup ToSet(grpcRoutes) :
       AllDefault(r) \/ Reaches(<<r.ns, r.parent>>, r.host)

(* The secret is with the group, or with a wish, or with a listener.       *)
Carried(k, secret) ==
  \/ k \in DOMAIN groups /\ \E t \in ToSet(groups[k].tls) : t.secret = secret
  \/ /\ GatewayKey(k) \in DOMAIN listeners
     /\ \E w \in ToSet(listeners[GatewayKey(k)]) : w.host = k.host /\ w.tls /\ secret \in w.certs
  \/ /\ GatewayKey(k) \in DOMAIN gateways
     /\ \E l \in ToSet(gateways[GatewayKey(k)]) :
          l.port = 443 /\ NameFromHost(l.host) = NameFromHost(k.host) /\ secret \in l.certs
  \/ k.class \in SlashedClasses /\ errors # {}

SecretsInv ==
  pc # "add" =>
    \A protocol \in {"http", "grpc"} : \A ing \in ToSet(input[protocol]) :
      \A rule \in ToSet(ing.rules) : \A t \in ToSet(ing.tls) :
        rule.host # NoHost => Carried(GroupKey(ing, rule, protocol), t.secret)

IInv == FlowInv /\ GroupsInv /\ WishesInv /\ RoutesInv /\ SecretsInv

-----------------------------------------------------------------------------
(* Names of listeners.                                                     *)

(* A name that ends in a word tells the word and what comes before it.     *)
LEMMA LastWord ==
  ASSUME NEW s, IsList(s), NEW t, IsList(t), NEW d, NEW e, Append(s, d) = Append(t, e)
  PROVE  s = t /\ d = e
<1> DEFINE X == ToSet(s) \cup ToSet(t) \cup {d, e}
<1>1. s \in Seq(X) /\ t \in Seq(X) /\ d \in X /\ e \in X
  <2>1. s \in Seq(ToSet(s)) /\ t \in Seq(ToSet(t))
    BY ListShape
  <2> QED
    BY <2>1
<1> HIDE DEF X
<1> QED
  BY <1>1, AppendInjective

(* Listeners of one name have one scheme, and hosts of one name.           *)
LEMMA ListenerNames ==
  ASSUME NEW h, NamedHost(h), NEW o, NamedHost(o), NEW d, NEW e, ListenerName(h, d) = ListenerName(o, e)
  PROVE  d = e /\ NameFromHost(h) = NameFromHost(o) /\ (h = NoHost <=> o = NoHost)
<1> DEFINE n == NameFromHost(h)
           m == NameFromHost(o)
<1>1. IsList(n) /\ n # <<>> /\ IsList(m) /\ m # <<>>
  BY DEF NamedHost
<1>2. /\ ListenerName(h, d) = IF h = NoHost THEN <<d>> ELSE Append(n, d)
      /\ ListenerName(o, e) = IF o = NoHost THEN <<e>> ELSE Append(m, e)
  BY DEF ListenerName
<1> HIDE DEF n, m
<1>3. IsList(<<>>)
  BY EmptyList
<1>4. \A x : <<x>> = Append(<<>>, x)
  OBVIOUS
<1>5. CASE h = NoHost /\ o = NoHost
  <2>1. Append(<<>>, d) = Append(<<>>, e)
    BY <1>2, <1>4, <1>5
  <2>2. d = e
    BY <1>3, <2>1, LastWord
  <2> QED
    BY <1>5, <2>2
<1>6. CASE h = NoHost /\ o # NoHost
  <2>1. Append(<<>>, d) = Append(m, e)
    BY <1>2, <1>4, <1>6
  <2> QED
    BY <1>1, <1>3, <2>1, LastWord
<1>7. CASE h # NoHost /\ o = NoHost
  <2>1. Append(n, d) = Append(<<>>, e)
    BY <1>2, <1>4, <1>7
  <2> QED
    BY <1>1, <1>3, <2>1, LastWord
<1>8. CASE h # NoHost /\ o # NoHost
  <2>1. Append(n, d) = Append(m, e)
    BY <1>2, <1>8
  <2>2. n = m /\ d = e
    BY <1>1, <2>1, LastWord
  <2> QED
    BY <1>8, <2>2 DEF n, m
<1> QED
  BY <1>5, <1>6, <1>7, <1>8

-----------------------------------------------------------------------------
(* The listeners of a gateway.                                             *)

(* An HTTP or an HTTPS listener, named for its own host.                   *)
Proper(l) ==
  /\ DOMAIN l = {"name", "host", "port", "certs", "mode"} /\ l.mode = "Terminate"
  /\ \/ l.port = 80 /\ l.name = ListenerName(l.host, "http")
     \/ l.port = 443 /\ l.name = ListenerName(l.host, "https")

(* Listeners for some of the hosts, no two of one name.                    *)
BuiltFor(ls, hosts) ==
  /\ IsList(ls) /\ Distinct(ls)
  /\ \A l \in ToSet(ls) : Proper(l) /\ l.host \in hosts

Has(ls, name, certs) == \E l \in ToSet(ls) : l.name = name /\ certs \subseteq l.certs

(* Merging a listener adds it or its certificates, and loses nothing.      *)
LEMMA MergeHolds ==
  ASSUME NEW hosts, NEW ls, BuiltFor(ls, hosts), NEW host \in hosts, NEW certs, NEW name, NEW port,
         \/ port = 80 /\ name = ListenerName(host, "http")
         \/ port = 443 /\ name = ListenerName(host, "https")
  PROVE  /\ BuiltFor(MergeListener(ls, name, host, port, certs), hosts)
         /\ Has(MergeListener(ls, name, host, port, certs), name, certs)
         /\ \A n, c : Has(ls, n, c) => Has(MergeListener(ls, name, host, port, certs), n, c)
<1> DEFINE new == MergeListener(ls, name, host, port, certs)
<1>1. /\ ls \in Seq(ToSet(ls)) /\ Len(ls) \in Nat /\ DOMAIN ls = 1 .. Len(ls)
      /\ Distinct(ls)
      /\ \A i \in 1 .. Len(ls) : Proper(ls[i]) /\ ls[i].host \in hosts
  <2>1. IsList(ls)
    BY DEF BuiltFor
  <2>2. ls \in Seq(ToSet(ls)) /\ Len(ls) \in Nat /\ DOMAIN ls = 1 .. Len(ls)
    BY <2>1, ListShape
  <2>3. \A i \in 1 .. Len(ls) : ls[i] \in ToSet(ls)
    BY <2>2, InToSet
  <2> QED
    BY <2>2, <2>3 DEF BuiltFor
<1>2. CASE \E i \in 1..Len(ls) : ls[i].name = name
  <2> DEFINE Merged(l) == IF l.name = name THEN [l EXCEPT !.certs = @ \cup certs] ELSE l
  <2>1. \A l : Proper(l) =>
          /\ Proper(Merged(l)) /\ Merged(l).name = l.name /\ Merged(l).host = l.host
          /\ l.certs \subseteq Merged(l).certs
          /\ l.name = name => certs \subseteq Merged(l).certs
    <3> SUFFICES ASSUME NEW l, Proper(l)
                 PROVE  /\ Proper(Merged(l)) /\ Merged(l).name = l.name /\ Merged(l).host = l.host
                        /\ l.certs \subseteq Merged(l).certs
                        /\ l.name = name => certs \subseteq Merged(l).certs
      OBVIOUS
    <3> DEFINE m == [l EXCEPT !.certs = @ \cup certs]
    <3>1. DOMAIN l = {"name", "host", "port", "certs", "mode"}
      BY DEF Proper
    <3>2. /\ DOMAIN m = DOMAIN l
          /\ m.name = l.name /\ m.host = l.host /\ m.port = l.port /\ m.mode = l.mode
          /\ m.certs = l.certs \cup certs
      BY <3>1
    <3> HIDE DEF m
    <3>3. Proper(m)
      BY <3>1, <3>2 DEF Proper
    <3>4. Merged(l) = IF l.name = name THEN m ELSE l
      BY DEF m
    <3> QED
      BY <3>2, <3>3, <3>4
  <2>2. new = [i \in 1 .. Len(ls) |-> Merged(ls[i])]
    BY <1>2 DEF MergeListener
  <2> HIDE DEF new, Merged
  <2>3. IsList(new) /\ DOMAIN new = 1 .. Len(ls) /\ Len(new) = Len(ls)
    <3> DEFINE X == {Merged(ls[i]) : i \in 1 .. Len(ls)}
    <3>1. new \in [1 .. Len(ls) -> X]
      BY <2>2
    <3> HIDE DEF X
    <3>2. new \in Seq(X)
      BY <1>1, <3>1
    <3>3. Len(new) = Len(ls)
      BY <1>1, <3>1, <3>2
    <3> QED
      BY <3>1, <3>2, <3>3, SeqIsList
  <2>4. \A i \in 1 .. Len(ls) :
          /\ Proper(new[i]) /\ new[i].name = ls[i].name /\ new[i].host = ls[i].host
          /\ ls[i].certs \subseteq new[i].certs
          /\ ls[i].name = name => certs \subseteq new[i].certs
    BY <1>1, <2>1, <2>2
  <2>5. Distinct(new)
    BY <1>1, <2>3, <2>4 DEF Distinct
  <2>6. \A l \in ToSet(new) : Proper(l) /\ l.host \in hosts
    <3> SUFFICES ASSUME NEW l \in ToSet(new) PROVE Proper(l) /\ l.host \in hosts
      OBVIOUS
    <3>1. PICK i \in 1 .. Len(ls) : new[i] = l
      BY <2>3, InToSet
    <3> QED
      BY <1>1, <2>4, <3>1
  <2>7. \A i \in 1 .. Len(ls) : new[i] \in ToSet(new)
    BY <2>3, InToSet
  <2>8. Has(new, name, certs)
    BY <1>2, <2>4, <2>7 DEF Has
  <2>9. ASSUME NEW n, NEW c, Has(ls, n, c) PROVE Has(new, n, c)
    <3>1. PICK l \in ToSet(ls) : l.name = n /\ c \subseteq l.certs
      BY <2>9 DEF Has
    <3>2. PICK i \in 1 .. Len(ls) : ls[i] = l
      BY <1>1, InToSet
    <3> QED
      BY <2>4, <2>7, <3>1, <3>2 DEF Has
  <2>10. BuiltFor(new, hosts)
    BY <2>3, <2>5, <2>6 DEF BuiltFor
  <2> QED
    BY <2>8, <2>9, <2>10 DEF new
<1>3. CASE ~\E i \in 1..Len(ls) : ls[i].name = name
  <2> DEFINE l == [name |-> name, host |-> host, port |-> port, certs |-> certs,
                   mode |-> "Terminate"]
  <2>1. new = Append(ls, l)
    BY <1>3 DEF MergeListener
  <2>2. l.name = name /\ l.host = host /\ l.certs = certs /\ Proper(l)
    BY DEF Proper
  <2> HIDE DEF new, l
  <2> DEFINE X == ToSet(ls) \cup {l}
  <2>3. ls \in Seq(X) /\ l \in X
    BY <1>1
  <2> HIDE DEF X
  <2>4. new \in Seq(X) /\ ToSet(new) = ToSet(ls) \cup {l}
    BY <2>1, <2>3, AppendHolds
  <2>5. Len(new) = Len(ls) + 1 /\ new[Len(ls) + 1] = l /\ \A i \in 1 .. Len(ls) : new[i] = ls[i]
    BY <1>1, <2>1, <2>3
  <2>6. Distinct(new)
    <3> SUFFICES ASSUME NEW i \in 1 .. Len(new), NEW j \in 1 .. Len(new), new[i].name = new[j].name
                 PROVE  i = j
      BY DEF Distinct
    <3>1. CASE i \in 1 .. Len(ls) /\ j \in 1 .. Len(ls)
      BY <1>1, <2>5, <3>1 DEF Distinct
    <3>2. CASE i = Len(ls) + 1 /\ j \in 1 .. Len(ls)
      BY <1>3, <2>2, <2>5, <3>2
    <3>3. CASE i \in 1 .. Len(ls) /\ j = Len(ls) + 1
      BY <1>3, <2>2, <2>5, <3>3
    <3>4. CASE i = Len(ls) + 1 /\ j = Len(ls) + 1
      BY <3>4
    <3> QED
      BY <1>1, <2>5, <3>1, <3>2, <3>3, <3>4
  <2>7. IsList(new)
    BY <2>4, SeqIsList
  <2>8. BuiltFor(new, hosts)
    BY <2>2, <2>4, <2>6, <2>7 DEF BuiltFor
  <2>9. Has(new, name, certs)
    BY <2>2, <2>4 DEF Has
  <2>10. \A n, c : Has(ls, n, c) => Has(new, n, c)
    BY <2>4 DEF Has
  <2> QED
    BY <2>8, <2>9, <2>10 DEF new
<1> QED
  BY <1>2, <1>3

(* One wish: its listeners are there afterwards, and none is lost.         *)
LEMMA WishHolds ==
  ASSUME NEW hosts, NEW ls, BuiltFor(ls, hosts), NEW w, w.host \in hosts, w.tls \in BOOLEAN
  PROVE  /\ BuiltFor(WithWish(ls, w), hosts)
         /\ Has(WithWish(ls, w), ListenerName(w.host, "http"), {})
         /\ w.tls => Has(WithWish(ls, w), ListenerName(w.host, "https"), w.certs)
         /\ \A n, c : Has(ls, n, c) => Has(WithWish(ls, w), n, c)
<1> DEFINE plain == MergeListener(ls, ListenerName(w.host, "http"), w.host, 80, {})
           both == MergeListener(plain, ListenerName(w.host, "https"), w.host, 443, w.certs)
<1>1. BuiltFor(plain, hosts)
  BY MergeHolds
<1>2. Has(plain, ListenerName(w.host, "http"), {})
  BY MergeHolds
<1>3. \A n, c : Has(ls, n, c) => Has(plain, n, c)
  BY MergeHolds
<1>4. WithWish(ls, w) = IF w.tls THEN both ELSE plain
  BY DEF WithWish
<1> HIDE DEF plain
<1>5. BuiltFor(both, hosts)
  BY <1>1, MergeHolds
<1>6. Has(both, ListenerName(w.host, "https"), w.certs)
  BY <1>1, MergeHolds
<1>7. \A n, c : Has(plain, n, c) => Has(both, n, c)
  BY <1>1, MergeHolds
<1> HIDE DEF both
<1>8. CASE w.tls
  <2>1. WithWish(ls, w) = both
    BY <1>4, <1>8
  <2>2. Has(both, ListenerName(w.host, "http"), {})
    BY <1>2, <1>7
  <2>3. \A n, c : Has(ls, n, c) => Has(both, n, c)
    BY <1>3, <1>7
  <2> QED
    BY <1>5, <1>6, <2>1, <2>2, <2>3
<1>9. CASE ~w.tls
  <2>1. WithWish(ls, w) = plain
    BY <1>4, <1>9
  <2> QED
    BY <1>1, <1>2, <1>3, <1>9, <2>1
<1> QED
  BY <1>8, <1>9

(* The loop of ToListeners, as a function of the index it has come to.     *)
LEMMA ListenersLoop ==
  ASSUME NEW X, NEW s \in Seq(X)
  PROVE  \E f : /\ ToListeners(s) = f[Len(s)]
                /\ f[0] = <<>>
                /\ \A i \in 1 .. Len(s) : f[i] = WithWish(f[i - 1], s[i])
<1> DEFINE Step(f, i) == IF i = 0 THEN <<>> ELSE WithWish(f[i - 1], s[i])
           Body(f, m) == [i \in 0 .. m |-> Step(f, i)]
           T == {m \in Nat : \E f : f = Body(f, m)}
<1>1. \A f, g, i : (i # 0 => f[i - 1] = g[i - 1]) => Step(f, i) = Step(g, i)
  OBVIOUS
<1>2. \A f : Step(f, 0) = <<>>
  OBVIOUS
<1> HIDE DEF Step
<1>3. 0 \in T
  <2> DEFINE f == [i \in 0 .. 0 |-> <<>>]
  <2>1. f = Body(f, 0)
    BY <1>2
  <2> QED
    BY <2>1
<1>4. ASSUME NEW m \in Nat, m \in T PROVE m + 1 \in T
  <2>1. PICK f : f = Body(f, m)
    BY <1>4
  <2>2. \A i \in 0 .. m : f[i] = Step(f, i)
    <3>1. \A i \in 0 .. m : Body(f, m)[i] = Step(f, i)
      OBVIOUS
    <3> HIDE DEF Body
    <3> QED
      BY <2>1, <3>1
  <2> DEFINE g == [i \in 0 .. m + 1 |-> IF i = m + 1 THEN Step(f, i) ELSE f[i]]
  <2>3. \A i \in 0 .. m + 1 : g[i] = Step(g, i)
    <3> SUFFICES ASSUME NEW i \in 0 .. m + 1 PROVE g[i] = Step(g, i)
      OBVIOUS
    <3>1. g[i] = Step(f, i)
      BY <2>2
    <3>2. i # 0 => f[i - 1] = g[i - 1]
      OBVIOUS
    <3> QED
      BY <1>1, <3>1, <3>2
  <2>4. g = Body(g, m + 1) /\ m + 1 \in Nat
    BY <2>3
  <2> QED
    BY <2>4
<1> HIDE DEF T
<1>5. \E f : f = Body(f, Len(s))
  <2>1. Len(s) \in T
    BY <1>3, <1>4, Induction
  <2> QED
    BY <2>1 DEF T
<1> DEFINE f == CHOOSE f : f = Body(f, Len(s))
<1>6. f = Body(f, Len(s))
  BY <1>5
<1>7. ToListeners(s) = f[Len(s)]
  BY DEF ToListeners, Step
<1> HIDE DEF f
<1>8. \A i \in 0 .. Len(s) : f[i] = Step(f, i)
  <2>1. \A i \in 0 .. Len(s) : Body(f, Len(s))[i] = Step(f, i)
    OBVIOUS
  <2> HIDE DEF Body
  <2> QED
    BY <1>6, <2>1
<1>9. f[0] = <<>> /\ \A i \in 1 .. Len(s) : f[i] = WithWish(f[i - 1], s[i])
  BY <1>8 DEF Step
<1> QED
  BY <1>7, <1>9

(* Every wish gets its listeners, and no others are made.                  *)
LEMMA ListenersHold ==
  ASSUME NEW hosts, NEW s, IsList(s),
         \A w \in ToSet(s) : w.host \in hosts /\ w.tls \in BOOLEAN
  PROVE  /\ BuiltFor(ToListeners(s), hosts)
         /\ \A w \in ToSet(s) :
              /\ Has(ToListeners(s), ListenerName(w.host, "http"), {})
              /\ w.tls => Has(ToListeners(s), ListenerName(w.host, "https"), w.certs)
<1>1. s \in Seq(ToSet(s)) /\ Len(s) \in Nat /\ DOMAIN s = 1 .. Len(s)
  BY ListShape
<1>2. PICK f : /\ ToListeners(s) = f[Len(s)]
               /\ f[0] = <<>>
               /\ \A i \in 1 .. Len(s) : f[i] = WithWish(f[i - 1], s[i])
  BY <1>1, ListenersLoop
<1> DEFINE Met(ls, w) == /\ Has(ls, ListenerName(w.host, "http"), {})
                         /\ w.tls => Has(ls, ListenerName(w.host, "https"), w.certs)
           Holds(i) == BuiltFor(f[i], hosts) /\ \A j \in 1 .. i : Met(f[i], s[j])
           T == {i \in Nat : i <= Len(s) => Holds(i)}
<1>3. Holds(0)
  <2>1. IsList(<<>>) /\ ToSet(<<>>) = {}
    BY EmptyList
  <2>2. Distinct(<<>>)
    BY DEF Distinct
  <2>3. 1 .. 0 = {}
    OBVIOUS
  <2>4. BuiltFor(<<>>, hosts)
    BY <2>1, <2>2 DEF BuiltFor
  <2> QED
    BY <1>2, <2>3, <2>4
<1>4. ASSUME NEW i \in Nat, i + 1 <= Len(s), Holds(i) PROVE Holds(i + 1)
  <2> DEFINE ls == f[i]
             new == f[i + 1]
             w == s[i + 1]
  <2>1. i + 1 \in 1 .. Len(s) /\ (i + 1) - 1 = i
    BY <1>1, <1>4
  <2>2. new = WithWish(ls, w) /\ w \in ToSet(s)
    BY <1>1, <1>2, <2>1, InToSet
  <2>3. BuiltFor(ls, hosts)
    BY <1>4
  <2>4. w.host \in hosts /\ w.tls \in BOOLEAN
    BY <2>2
  <2> HIDE DEF ls, new, w
  <2>5. BuiltFor(new, hosts)
    BY <2>2, <2>3, <2>4, WishHolds
  <2>6. Met(new, w)
    BY <2>2, <2>3, <2>4, WishHolds
  <2>7. \A n, c : Has(ls, n, c) => Has(new, n, c)
    BY <2>2, <2>3, <2>4, WishHolds
  <2>8. \A j \in 1 .. i : Met(new, s[j])
    <3>1. \A j \in 1 .. i : Met(ls, s[j])
      BY <1>4 DEF ls
    <3> QED
      BY <2>7, <3>1
  <2> HIDE DEF Met
  <2>9. 1 .. i + 1 = (1 .. i) \cup {i + 1}
    OBVIOUS
  <2>10. \A j \in 1 .. i + 1 : Met(new, s[j])
    BY <2>6, <2>8, <2>9 DEF w
  <2> QED
    BY <2>5, <2>10 DEF new
<1> HIDE DEF Holds
<1>5. 0 \in T
  BY <1>3
<1>6. ASSUME NEW i \in Nat, i \in T PROVE i + 1 \in T
  BY <1>1, <1>4, <1>6
<1> HIDE DEF T
<1>7. Len(s) \in T
  BY <1>1, <1>5, <1>6, Induction
<1>8. Holds(Len(s))
  BY <1>1, <1>7 DEF T
<1> HIDE DEF Met
<1>9. \A w \in ToSet(s) : Met(ToListeners(s), w)
  <2> SUFFICES ASSUME NEW w \in ToSet(s) PROVE Met(ToListeners(s), w)
    OBVIOUS
  <2>1. PICK i \in 1 .. Len(s) : s[i] = w
    BY <1>1, InToSet
  <2> QED
    BY <1>2, <1>8, <2>1 DEF Holds
<1>10. BuiltFor(ToListeners(s), hosts)
  BY <1>2, <1>8 DEF Holds
<1> QED
  BY <1>9, <1>10 DEF Met

-----------------------------------------------------------------------------
(* The groups of the rules.                                                *)

KeyOf(a) == GroupKey(a.ing, a.rule, a.protocol)

Asks(ing, rule, protocol) == [ing |-> ing, rule |-> rule, protocol |-> protocol]

(* The rules of the Ingresses, and nothing else.                           *)
LEMMA RulesHold ==
  ASSUME NEW ings, IsList(ings), \A ing \in ToSet(ings) : IsList(ing.rules), NEW protocol
  PROVE  /\ IsList(RulesOf(ings, protocol))
         /\ \A a : a \in ToSet(RulesOf(ings, protocol)) <=>
                     \E ing \in ToSet(ings) : \E rule \in ToSet(ing.rules) : a = Asks(ing, rule, protocol)
<1> DEFINE Of(ing) == [j \in DOMAIN ing.rules |-> Asks(ing, ing.rules[j], protocol)]
           X == {Asks(ing, rule, protocol) : ing \in ToSet(ings),
                                             rule \in UNION {ToSet(i.rules) : i \in ToSet(ings)}}
           all == [i \in DOMAIN ings |-> Of(ings[i])]
<1>1. \A ing \in ToSet(ings) :
        /\ Of(ing) \in Seq(X)
        /\ \A a : a \in ToSet(Of(ing)) <=> \E rule \in ToSet(ing.rules) : a = Asks(ing, rule, protocol)
  <2> HIDE DEF Of, X
  <2> SUFFICES ASSUME NEW ing \in ToSet(ings)
               PROVE  /\ Of(ing) \in Seq(X)
                      /\ \A a : a \in ToSet(Of(ing)) <=>
                                  \E rule \in ToSet(ing.rules) : a = Asks(ing, rule, protocol)
    OBVIOUS
  <2> USE DEF Of, X
  <2>1. \A j \in DOMAIN ing.rules : ing.rules[j] \in ToSet(ing.rules)
    BY InToSet
  <2>2. Of(ing) \in [DOMAIN ing.rules -> X]
    BY <2>1
  <2>3. DOMAIN Of(ing) = DOMAIN ing.rules
    OBVIOUS
  <2>4. \A j \in DOMAIN ing.rules : Of(ing)[j] = Asks(ing, ing.rules[j], protocol)
    OBVIOUS
  <2> HIDE DEF X, Of
  <2>5. Of(ing) \in Seq(X)
    BY <2>2, MadeList
  <2>6. \A a : a \in ToSet(Of(ing)) <=> \E j \in DOMAIN ing.rules : Of(ing)[j] = a
    BY <2>3, InToSet
  <2>7. \A r : r \in ToSet(ing.rules) <=> \E j \in DOMAIN ing.rules : ing.rules[j] = r
    BY InToSet
  <2>8. \A a : a \in ToSet(Of(ing)) <=> \E rule \in ToSet(ing.rules) : a = Asks(ing, rule, protocol)
    BY <2>4, <2>6, <2>7
  <2> QED
    BY <2>5, <2>8
<1>2. RulesOf(ings, protocol) = FlattenSeq(all)
  BY DEF RulesOf, Asks
<1> HIDE DEF X, Of
<1>3. \A i \in DOMAIN ings : ings[i] \in ToSet(ings)
  BY InToSet
<1>4. all \in [DOMAIN ings -> Seq(X)]
  BY <1>1, <1>3
<1>5. DOMAIN all = DOMAIN ings /\ \A i \in DOMAIN ings : all[i] = Of(ings[i])
  OBVIOUS
<1> HIDE DEF all
<1>6. all \in Seq(Seq(X))
  BY <1>4, MadeList
<1>7. FlattenSeq(all) \in Seq(X)
  BY <1>6, FlattenHolds
<1>8. ToSet(FlattenSeq(all)) = UNION {ToSet(all[i]) : i \in DOMAIN all}
  BY <1>6, FlattenHolds
<1>9. \A a : a \in ToSet(FlattenSeq(all)) <=> \E i \in DOMAIN ings : a \in ToSet(Of(ings[i]))
  BY <1>5, <1>8
<1>10. \A a : a \in ToSet(FlattenSeq(all)) <=> \E ing \in ToSet(ings) : a \in ToSet(Of(ing))
  <2>1. \A ing : ing \in ToSet(ings) <=> \E i \in DOMAIN ings : ings[i] = ing
    BY InToSet
  <2> QED
    BY <1>9, <2>1
<1>11. IsList(FlattenSeq(all))
  BY <1>7, SeqIsList
<1>12. \A a : a \in ToSet(FlattenSeq(all)) <=>
                \E ing \in ToSet(ings) : \E rule \in ToSet(ing.rules) : a = Asks(ing, rule, protocol)
  BY <1>1, <1>10
<1> QED
  BY <1>2, <1>11, <1>12

(* The loop of Grouped, as a function of the index it has come to.         *)
LEMMA GroupedLoop ==
  ASSUME NEW X, NEW s \in Seq(X)
  PROVE  \E f : /\ Grouped(s) = f[Len(s)]
                /\ f[0] = <<>>
                /\ \A i \in 1 .. Len(s) : f[i] = WithRule(f[i - 1], s[i].ing, s[i].rule, s[i].protocol)
<1> DEFINE Step(f, i) == IF i = 0 THEN <<>> ELSE WithRule(f[i - 1], s[i].ing, s[i].rule, s[i].protocol)
           Body(f, m) == [i \in 0 .. m |-> Step(f, i)]
           T == {m \in Nat : \E f : f = Body(f, m)}
<1>1. \A f, g, i : (i # 0 => f[i - 1] = g[i - 1]) => Step(f, i) = Step(g, i)
  OBVIOUS
<1>2. \A f : Step(f, 0) = <<>>
  OBVIOUS
<1> HIDE DEF Step
<1>3. 0 \in T
  <2> DEFINE f == [i \in 0 .. 0 |-> <<>>]
  <2>1. f = Body(f, 0)
    BY <1>2
  <2> QED
    BY <2>1
<1>4. ASSUME NEW m \in Nat, m \in T PROVE m + 1 \in T
  <2>1. PICK f : f = Body(f, m)
    BY <1>4
  <2>2. \A i \in 0 .. m : f[i] = Step(f, i)
    <3>1. \A i \in 0 .. m : Body(f, m)[i] = Step(f, i)
      OBVIOUS
    <3> HIDE DEF Body
    <3> QED
      BY <2>1, <3>1
  <2> DEFINE g == [i \in 0 .. m + 1 |-> IF i = m + 1 THEN Step(f, i) ELSE f[i]]
  <2>3. \A i \in 0 .. m + 1 : g[i] = Step(g, i)
    <3> SUFFICES ASSUME NEW i \in 0 .. m + 1 PROVE g[i] = Step(g, i)
      OBVIOUS
    <3>1. g[i] = Step(f, i)
      BY <2>2
    <3>2. i # 0 => f[i - 1] = g[i - 1]
      OBVIOUS
    <3> QED
      BY <1>1, <3>1, <3>2
  <2>4. g = Body(g, m + 1) /\ m + 1 \in Nat
    BY <2>3
  <2> QED
    BY <2>4
<1> HIDE DEF T
<1>5. \E f : f = Body(f, Len(s))
  <2>1. Len(s) \in T
    BY <1>3, <1>4, Induction
  <2> QED
    BY <2>1 DEF T
<1> DEFINE f == CHOOSE f : f = Body(f, Len(s))
<1>6. f = Body(f, Len(s))
  BY <1>5
<1>7. Grouped(s) = f[Len(s)]
  BY DEF Grouped, Step
<1> HIDE DEF f
<1>8. \A i \in 0 .. Len(s) : f[i] = Step(f, i)
  <2>1. \A i \in 0 .. Len(s) : Body(f, Len(s))[i] = Step(f, i)
    OBVIOUS
  <2> HIDE DEF Body
  <2> QED
    BY <1>6, <2>1
<1>9. f[0] = <<>> /\ \A i \in 1 .. Len(s) : f[i] = WithRule(f[i - 1], s[i].ing, s[i].rule, s[i].protocol)
  BY <1>8 DEF Step
<1> QED
  BY <1>7, <1>9

(* Every rule has a group, and what a group has is from rules of its key.  *)
Entry(a) == [ing |-> <<a.ing.ns, a.ing.name>>, paths |-> a.rule.paths]

GroupCovers(gs, a) ==
  /\ KeyOf(a) \in DOMAIN gs
  /\ ToSet(a.ing.tls) \subseteq ToSet(gs[KeyOf(a)].tls)
  /\ Entry(a) \in ToSet(gs[KeyOf(a)].rules)

From(gs, asked) ==
  \A k \in DOMAIN gs :
    /\ DOMAIN gs[k] = {"name", "tls", "rules"}
    /\ IsList(gs[k].tls) /\ IsList(gs[k].rules)
    /\ \E a \in asked : k = KeyOf(a) /\ gs[k].name = a.ing.name
    /\ \A t \in ToSet(gs[k].tls) : \E a \in asked : k = KeyOf(a) /\ t \in ToSet(a.ing.tls)
    /\ \A x \in ToSet(gs[k].rules) : \E a \in asked : k = KeyOf(a) /\ x = Entry(a)

(* addIngressRule: the group of the rule covers it, groups keep covering   *)
(* what they covered, and hold nothing but rules that were asked for.      *)
LEMMA RuleGrouped ==
  ASSUME NEW asked, NEW gs, From(gs, asked), NEW a \in asked, IsList(a.ing.tls)
  PROVE  /\ From(WithRule(gs, a.ing, a.rule, a.protocol), asked)
         /\ GroupCovers(WithRule(gs, a.ing, a.rule, a.protocol), a)
         /\ \A b : GroupCovers(gs, b) => GroupCovers(WithRule(gs, a.ing, a.rule, a.protocol), b)
<1> DEFINE k == KeyOf(a)
           ing == a.ing
           old == IF k \in DOMAIN gs THEN gs[k] ELSE [name |-> ing.name, tls |-> <<>>, rules |-> <<>>]
           group == [old EXCEPT !.tls = @ \o ing.tls, !.rules = Append(@, Entry(a))]
           new == WithRule(gs, ing, a.rule, a.protocol)
<1>1. new = [x \in DOMAIN gs \cup {k} |-> IF x = k THEN group ELSE gs[x]]
  BY DEF WithRule, KeyOf, Entry
<1>2. DOMAIN old = {"name", "tls", "rules"} /\ IsList(old.tls) /\ IsList(old.rules)
  BY EmptyList DEF From
<1>3. /\ \A t \in ToSet(old.tls) : \E b \in asked : k = KeyOf(b) /\ t \in ToSet(b.ing.tls)
      /\ \A x \in ToSet(old.rules) : \E b \in asked : k = KeyOf(b) /\ x = Entry(b)
  <2>1. CASE k \in DOMAIN gs
    BY <2>1 DEF From
  <2>2. CASE k \notin DOMAIN gs
    BY <2>2, EmptyList
  <2> QED
    BY <2>1, <2>2
<1>4. k \in DOMAIN gs => old.tls = gs[k].tls /\ old.rules = gs[k].rules
  OBVIOUS
<1>4a. \E b \in asked : k = KeyOf(b) /\ old.name = b.ing.name
  BY DEF From
<1> HIDE DEF old, k, new
<1>5. /\ DOMAIN group = {"name", "tls", "rules"}
      /\ group.tls = old.tls \o ing.tls /\ group.rules = Append(old.rules, Entry(a))
      /\ group.name = old.name
  BY <1>2
<1> HIDE DEF group
<1>6. IsList(group.tls) /\ ToSet(group.tls) = ToSet(old.tls) \cup ToSet(ing.tls)
  <2> DEFINE X == ToSet(old.tls) \cup ToSet(ing.tls)
  <2>1. old.tls \in Seq(ToSet(old.tls)) /\ ing.tls \in Seq(ToSet(ing.tls))
    BY <1>2, ListShape
  <2>2. old.tls \in Seq(X) /\ ing.tls \in Seq(X)
    BY <2>1
  <2> HIDE DEF X
  <2>3. group.tls \in Seq(X) /\ ToSet(group.tls) = ToSet(old.tls) \cup ToSet(ing.tls)
    BY <1>5, <2>2, ConcatHolds
  <2> QED
    BY <2>3, SeqIsList
<1>7. DOMAIN new = DOMAIN gs \cup {k} /\ new[k] = group /\ \A x \in DOMAIN gs \ {k} : new[x] = gs[x]
  BY <1>1
<1>8. IsList(group.rules) /\ ToSet(group.rules) = ToSet(old.rules) \cup {Entry(a)}
  <2> DEFINE X == ToSet(old.rules) \cup {Entry(a)}
  <2>1. old.rules \in Seq(X) /\ Entry(a) \in X
    BY <1>2, ListShape
  <2> HIDE DEF X
  <2>2. group.rules \in Seq(X) /\ ToSet(group.rules) = ToSet(old.rules) \cup {Entry(a)}
    BY <1>5, <2>1, AppendHolds
  <2> QED
    BY <2>2, SeqIsList
<1>9. From(new, asked)
  <2> SUFFICES ASSUME NEW x \in DOMAIN new
               PROVE  /\ DOMAIN new[x] = {"name", "tls", "rules"}
                      /\ IsList(new[x].tls) /\ IsList(new[x].rules)
                      /\ \E b \in asked : x = KeyOf(b) /\ new[x].name = b.ing.name
                      /\ \A t \in ToSet(new[x].tls) : \E b \in asked : x = KeyOf(b) /\ t \in ToSet(b.ing.tls)
                      /\ \A e \in ToSet(new[x].rules) : \E b \in asked : x = KeyOf(b) /\ e = Entry(b)
    BY DEF From
  <2>1. CASE x = k
    <3>1. \A t \in ToSet(group.tls) : \E b \in asked : k = KeyOf(b) /\ t \in ToSet(b.ing.tls)
      BY <1>3, <1>6 DEF k
    <3>2. \E b \in asked : k = KeyOf(b) /\ group.name = b.ing.name
      BY <1>4a, <1>5
    <3>3. \A e \in ToSet(group.rules) : \E b \in asked : k = KeyOf(b) /\ e = Entry(b)
      BY <1>3, <1>8 DEF k
    <3> QED
      BY <1>5, <1>6, <1>7, <1>8, <2>1, <3>1, <3>2, <3>3
  <2>2. CASE x # k
    <3>1. x \in DOMAIN gs /\ new[x] = gs[x]
      BY <1>7, <2>2
    <3> QED
      BY <3>1 DEF From
  <2> QED
    BY <2>1, <2>2
<1>10. GroupCovers(new, a)
  BY <1>6, <1>7, <1>8 DEF GroupCovers, k
<1>11. ASSUME NEW b, GroupCovers(gs, b) PROVE GroupCovers(new, b)
  <2>1. CASE KeyOf(b) = k
    BY <1>4, <1>6, <1>7, <1>8, <1>11, <2>1 DEF GroupCovers
  <2>2. CASE KeyOf(b) # k
    BY <1>7, <1>11, <2>2 DEF GroupCovers
  <2> QED
    BY <2>1, <2>2
<1> QED
  BY <1>9, <1>10, <1>11 DEF new

(* After addIngress every rule is covered by the group of its key, and     *)
(* the groups come from these rules alone.                                 *)
LEMMA GroupsHold ==
  ASSUME NEW s, IsList(s), \A a \in ToSet(s) : IsList(a.ing.tls)
  PROVE  From(Grouped(s), ToSet(s)) /\ \A a \in ToSet(s) : GroupCovers(Grouped(s), a)
<1>1. s \in Seq(ToSet(s)) /\ Len(s) \in Nat /\ DOMAIN s = 1 .. Len(s)
  BY ListShape
<1>2. PICK f : /\ Grouped(s) = f[Len(s)]
               /\ f[0] = <<>>
               /\ \A i \in 1 .. Len(s) : f[i] = WithRule(f[i - 1], s[i].ing, s[i].rule, s[i].protocol)
  BY <1>1, GroupedLoop
<1> DEFINE Holds(i) == From(f[i], ToSet(s)) /\ \A j \in 1 .. i : GroupCovers(f[i], s[j])
           T == {i \in Nat : i <= Len(s) => Holds(i)}
<1>3. Holds(0)
  <2>1. DOMAIN f[0] = {} /\ 1 .. 0 = {}
    BY <1>2
  <2> QED
    BY <2>1 DEF From
<1>4. ASSUME NEW i \in Nat, i + 1 <= Len(s), Holds(i) PROVE Holds(i + 1)
  <2> DEFINE gs == f[i]
             new == f[i + 1]
             a == s[i + 1]
  <2>1. i + 1 \in 1 .. Len(s) /\ (i + 1) - 1 = i
    BY <1>1, <1>4
  <2>2. new = WithRule(gs, a.ing, a.rule, a.protocol) /\ a \in ToSet(s)
    BY <1>1, <1>2, <2>1, InToSet
  <2>3. From(gs, ToSet(s))
    BY <1>4
  <2>4. IsList(a.ing.tls)
    BY <2>2
  <2>5. \A j \in 1 .. i : GroupCovers(gs, s[j])
    BY <1>4
  <2> HIDE DEF gs, new, a
  <2>6. From(new, ToSet(s))
    BY <2>2, <2>3, <2>4, RuleGrouped
  <2>7. GroupCovers(new, a)
    BY <2>2, <2>3, <2>4, RuleGrouped
  <2>8. \A b : GroupCovers(gs, b) => GroupCovers(new, b)
    BY <2>2, <2>3, <2>4, RuleGrouped
  <2>9. 1 .. i + 1 = (1 .. i) \cup {i + 1}
    OBVIOUS
  <2>10. \A j \in 1 .. i + 1 : GroupCovers(new, s[j])
    BY <2>5, <2>7, <2>8, <2>9 DEF a
  <2> QED
    BY <2>6, <2>10 DEF new
<1> HIDE DEF Holds
<1>5. 0 \in T
  BY <1>3
<1>6. ASSUME NEW i \in Nat, i \in T PROVE i + 1 \in T
  BY <1>1, <1>4, <1>6
<1> HIDE DEF T
<1>7. Len(s) \in T
  BY <1>1, <1>5, <1>6, Induction
<1>8. Holds(Len(s))
  BY <1>1, <1>7 DEF T
<1>9. \A a \in ToSet(s) : GroupCovers(Grouped(s), a)
  <2> SUFFICES ASSUME NEW a \in ToSet(s) PROVE GroupCovers(Grouped(s), a)
    OBVIOUS
  <2>1. PICK i \in 1 .. Len(s) : s[i] = a
    BY <1>1, InToSet
  <2> QED
    BY <1>2, <1>8, <2>1 DEF Holds
<1>10. From(Grouped(s), ToSet(s))
  BY <1>2, <1>8 DEF Holds
<1> QED
  BY <1>9, <1>10

-----------------------------------------------------------------------------
(* Ingresses, hosts and wishes.                                            *)

(* The Ingresses of the input are two slices of well-formed Ingresses.     *)
LEMMA InputsAreLists ==
  ASSUME FlowInv
  PROVE  /\ IsList(input.http) /\ IsList(input.grpc)
         /\ \A ing \in Ingresses : WellFormed(ing)
<1>1. input \in Inputs
  BY DEF FlowInv
<1> QED
  BY <1>1, InputsAssumption DEF Ingresses

(* The name of a host of the input is a list of words, never empty.        *)
LEMMA HostsAreNamed ==
  ASSUME FlowInv
  PROVE  NamedHost(NoHost) /\ \A gw, h : Claimed(gw, h) => NamedHost(h)
<1>1. NameFromHost(NoHost) = <<"all", "hosts">>
  BY DEF NameFromHost, NoHost
<1>2. <<"all", "hosts">> \in Seq({"all", "hosts"}) /\ <<"all", "hosts">> # <<>>
  OBVIOUS
<1>3. NamedHost(NoHost)
  <2>1. NoHost.labels = <<>> /\ IsList(<<>>) /\ ToSet(<<>>) = {}
    BY EmptyList DEF NoHost
  <2> QED
    BY <1>1, <1>2, <2>1, SeqIsList DEF NamedHost
<1>4. \A gw, h : Claimed(gw, h) => NamedHost(h)
  BY InputsAreLists DEF Claimed, WellFormed, NamedHost
<1> QED
  BY <1>3, <1>4

(* The wish of a group has its secrets, and its host if it has one.        *)
LEMMA WishMade ==
  ASSUME NEW k, NEW group, OfGateway(GatewayKey(k), k, group)
  PROVE  /\ ToListener(k, group).tls \in BOOLEAN
         /\ \/ ToListener(k, group).host = NoHost
            \/ Claimed(GatewayKey(k), ToListener(k, group).host)
         /\ k.host # NoHost => ToListener(k, group).host = k.host
         /\ \A t \in ToSet(group.tls) : ToListener(k, group).tls /\ t.secret \in ToListener(k, group).certs
<1> DEFINE w == ToListener(k, group)
           one == Len(group.tls) = 1 /\ Len(group.tls[1].hosts) = 1
<1>1. /\ w.host = IF k.host # NoHost THEN k.host ELSE IF one THEN group.tls[1].hosts[1] ELSE NoHost
      /\ w.tls = (group.tls # <<>>)
      /\ w.certs = {group.tls[i].secret : i \in 1..Len(group.tls)}
  BY DEF ToListener
<1> HIDE DEF w
<1>2. IsList(group.tls) /\ Claimed(GatewayKey(k), k.host)
  BY DEF OfGateway
<1>3. DOMAIN group.tls = 1 .. Len(group.tls) /\ (group.tls = <<>> <=> ToSet(group.tls) = {})
  BY <1>2, ListShape
<1>4. \A t \in ToSet(group.tls) : w.tls /\ t.secret \in w.certs
  <2> SUFFICES ASSUME NEW t \in ToSet(group.tls) PROVE w.tls /\ t.secret \in w.certs
    OBVIOUS
  <2>1. PICK i \in 1 .. Len(group.tls) : group.tls[i] = t
    BY <1>3, InToSet
  <2>2. t.secret \in w.certs
    BY <1>1, <2>1
  <2>3. group.tls # <<>>
    BY <1>3
  <2> QED
    BY <1>1, <2>2, <2>3
<1>5. one => Claimed(GatewayKey(k), group.tls[1].hosts[1])
  <2> SUFFICES ASSUME one PROVE Claimed(GatewayKey(k), group.tls[1].hosts[1])
    OBVIOUS
  <2> DEFINE t == group.tls[1]
  <2>1. t \in ToSet(group.tls)
    BY <1>3, InToSet
  <2> HIDE DEF t
  <2>2. IsList(t.hosts) /\ Len(t.hosts) = 1
    BY <2>1 DEF OfGateway, t
  <2>3. t.hosts[1] \in ToSet(t.hosts)
    BY <2>2, ListShape, InToSet
  <2> QED
    BY <2>1, <2>3 DEF OfGateway, t
<1> HIDE DEF one
<1>6. w.host = NoHost \/ Claimed(GatewayKey(k), w.host)
  BY <1>1, <1>2, <1>5
<1>7. k.host # NoHost => w.host = k.host
  BY <1>1
<1>8. w.tls \in BOOLEAN
  BY <1>1
<1> QED
  BY <1>4, <1>6, <1>7, <1>8 DEF w

(* A wish more.                                                            *)
AllLists(ls) == \A g \in DOMAIN ls : IsList(ls[g])

Added(new, ls, gw, w) ==
  /\ DOMAIN new = DOMAIN ls \cup {gw}
  /\ AllLists(new)
  /\ \A g \in DOMAIN ls \ {gw} : new[g] = ls[g]
  /\ ToSet(new[gw]) = {w} \cup (IF gw \in DOMAIN ls THEN ToSet(ls[gw]) ELSE {})

(* Appending a wish to a gateway's list adds this wish there, and          *)
(* nothing else anywhere.                                                  *)
LEMMA WishAdded ==
  ASSUME NEW ls, AllLists(ls), NEW gw, NEW w
  PROVE  Added(WithWished(ls, gw, w), ls, gw, w)
<1> DEFINE new == WithWished(ls, gw, w)
           old == IF gw \in DOMAIN ls THEN ls[gw] ELSE <<>>
<1>1. new = [g \in DOMAIN ls \cup {gw} |-> IF g # gw THEN ls[g] ELSE Append(old, w)]
  BY DEF WithWished
<1>2. IsList(old) /\ ToSet(old) = IF gw \in DOMAIN ls THEN ToSet(ls[gw]) ELSE {}
  BY EmptyList DEF AllLists
<1> HIDE DEF new, old
<1>3. IsList(Append(old, w)) /\ ToSet(Append(old, w)) = {w} \cup ToSet(old)
  <2> DEFINE X == ToSet(old) \cup {w}
  <2>1. old \in Seq(X) /\ w \in X
    BY <1>2, ListShape
  <2> HIDE DEF X
  <2>2. Append(old, w) \in Seq(X) /\ ToSet(Append(old, w)) = ToSet(old) \cup {w}
    BY <2>1, AppendHolds
  <2> QED
    BY <2>2, SeqIsList
<1>4. DOMAIN new = DOMAIN ls \cup {gw} /\ new[gw] = Append(old, w) /\ \A g \in DOMAIN ls \ {gw} : new[g] = ls[g]
  BY <1>1
<1>5. AllLists(new)
  BY <1>3, <1>4 DEF AllLists
<1>6. ToSet(new[gw]) = {w} \cup (IF gw \in DOMAIN ls THEN ToSet(ls[gw]) ELSE {})
  BY <1>2, <1>3, <1>4
<1> QED
  BY <1>4, <1>5, <1>6 DEF new, Added

(* What a gateway built from wishes answers for each of them.              *)
LEMMA WishesMet ==
  ASSUME FlowInv, WishesInv, NEW gw \in DOMAIN listeners, NEW w \in ToSet(listeners[gw])
  PROVE  /\ Distinct(ToListeners(listeners[gw]))
         /\ \E l \in ToSet(ToListeners(listeners[gw])) :
              /\ l.port = 80
              /\ \/ w.host = NoHost \/ l.host = w.host
                 \/ \E ing \in Ingresses : \E o \in HostsOf(ing) \ {NoHost, w.host} :
                      <<ing.ns, ing.class>> = gw /\ NameFromHost(o) = NameFromHost(w.host)
         /\ w.tls => \E l \in ToSet(ToListeners(listeners[gw])) :
              /\ l.port = 443 /\ NameFromHost(l.host) = NameFromHost(w.host) /\ w.certs \subseteq l.certs
<1> DEFINE s == listeners[gw]
           ls == ToListeners(s)
           hosts == {h \in {v.host : v \in ToSet(s)} : h = NoHost \/ Claimed(gw, h)}
<1>1. IsList(s) /\ \A v \in ToSet(s) : v.host \in hosts /\ v.tls \in BOOLEAN
  BY DEF WishesInv
<1>2. \A h \in hosts : NamedHost(h) /\ (h = NoHost \/ Claimed(gw, h))
  BY HostsAreNamed
<1>3. w \in ToSet(s)
  OBVIOUS
<1> HIDE DEF hosts, s
<1>4. BuiltFor(ls, hosts)
  BY <1>1, ListenersHold
<1>5. \A v \in ToSet(s) : Has(ls, ListenerName(v.host, "http"), {})
  BY <1>1, ListenersHold
<1>6. \A v \in ToSet(s) : v.tls => Has(ls, ListenerName(v.host, "https"), v.certs)
  BY <1>1, ListenersHold
<1> HIDE DEF ls
<1>7. Distinct(ls) /\ \A l \in ToSet(ls) : Proper(l) /\ l.host \in hosts
  BY <1>4 DEF BuiltFor
<1>8. w.host \in hosts /\ NamedHost(w.host)
  BY <1>1, <1>2, <1>3
<1>9. \E l \in ToSet(ls) :
        /\ l.port = 80
        /\ \/ w.host = NoHost \/ l.host = w.host
           \/ \E ing \in Ingresses : \E o \in HostsOf(ing) \ {NoHost, w.host} :
                <<ing.ns, ing.class>> = gw /\ NameFromHost(o) = NameFromHost(w.host)
  <2>1. PICK l \in ToSet(ls) : l.name = ListenerName(w.host, "http")
    BY <1>3, <1>5 DEF Has
  <2>2. Proper(l) /\ NamedHost(l.host) /\ (l.host = NoHost \/ Claimed(gw, l.host))
    BY <1>2, <1>7
  <2>3. l.port = 80 /\ l.name = ListenerName(l.host, "http")
    <3>1. "http" # "https"
      OBVIOUS
    <3>2. ~(l.name = ListenerName(l.host, "https"))
      <4> SUFFICES ASSUME l.name = ListenerName(l.host, "https") PROVE FALSE
        OBVIOUS
      <4>1. ListenerName(w.host, "http") = ListenerName(l.host, "https")
        BY <2>1
      <4> QED
        BY <1>8, <2>2, <3>1, <4>1, ListenerNames
    <3> QED
      BY <2>2, <3>2 DEF Proper
  <2>4. NameFromHost(l.host) = NameFromHost(w.host) /\ (l.host = NoHost <=> w.host = NoHost)
    <3>1. ListenerName(w.host, "http") = ListenerName(l.host, "http")
      BY <2>1, <2>3
    <3> QED
      BY <1>8, <2>2, <3>1, ListenerNames
  <2>5. CASE w.host = NoHost \/ l.host = w.host
    BY <2>3, <2>5
  <2>6. CASE w.host # NoHost /\ l.host # w.host
    <3>1. Claimed(gw, l.host) /\ l.host # NoHost
      BY <2>2, <2>4, <2>6
    <3>2. \E ing \in Ingresses : <<ing.ns, ing.class>> = gw /\ l.host \in HostsOf(ing)
      BY <3>1 DEF Claimed
    <3>3. \E ing \in Ingresses : \E o \in HostsOf(ing) \ {NoHost, w.host} :
            <<ing.ns, ing.class>> = gw /\ NameFromHost(o) = NameFromHost(w.host)
      BY <2>4, <2>6, <3>1, <3>2
    <3> QED
      BY <2>3, <3>3
  <2> QED
    BY <2>5, <2>6
<1>10. ASSUME w.tls
       PROVE  \E l \in ToSet(ls) : /\ l.port = 443 /\ NameFromHost(l.host) = NameFromHost(w.host)
                                   /\ w.certs \subseteq l.certs
  <2>1. PICK l \in ToSet(ls) : l.name = ListenerName(w.host, "https") /\ w.certs \subseteq l.certs
    BY <1>3, <1>6, <1>10 DEF Has
  <2>2. Proper(l) /\ NamedHost(l.host)
    BY <1>2, <1>7
  <2>3. \A d : l.name = ListenerName(l.host, d) => d = "https" /\ NameFromHost(l.host) = NameFromHost(w.host)
    <3> SUFFICES ASSUME NEW d, l.name = ListenerName(l.host, d)
                 PROVE  d = "https" /\ NameFromHost(l.host) = NameFromHost(w.host)
      OBVIOUS
    <3>1. ListenerName(l.host, d) = ListenerName(w.host, "https")
      BY <2>1
    <3> QED
      BY <1>8, <2>2, <3>1, ListenerNames
  <2>4. "http" # "https"
    OBVIOUS
  <2> QED
    BY <2>1, <2>2, <2>3, <2>4 DEF Proper
<1> QED
  BY <1>7, <1>9, <1>10 DEF s, ls

-----------------------------------------------------------------------------
(* The invariant.                                                          *)

(* The invariant holds before the first Ingress is added.                  *)
LEMMA InitInv == Init => IInv
<1> SUFFICES ASSUME Init PROVE IInv
  OBVIOUS
<1>1. /\ input \in Inputs /\ pc = "add" /\ groups = <<>> /\ defaults = <<>>
      /\ httpRoutes = <<>> /\ grpcRoutes = <<>> /\ listeners = <<>> /\ gateways = <<>>
      /\ ir = EmptyIR
  BY DEF Init
<1>2. DOMAIN groups = {} /\ DOMAIN listeners = {}
  BY <1>1
<1>3. FlowInv
  BY <1>1, <1>2 DEF FlowInv
<1>4. GroupsInv /\ WishesInv
  BY <1>2 DEF GroupsInv, WishesInv
<1>5. RoutesInv
  <2>1. IsList(<<>>) /\ ToSet(<<>>) = {}
    BY EmptyList
  <2> QED
    BY <1>1, <2>1 DEF RoutesInv
<1>6. SecretsInv
  BY <1>1 DEF SecretsInv
<1> QED
  BY <1>3, <1>4, <1>5, <1>6 DEF IInv

(* No step touches the Ingresses that were read.                           *)
LEMMA InputStays ==
  ASSUME input' = input
  PROVE  Ingresses' = Ingresses /\ \A gw, h : Claimed(gw, h)' <=> Claimed(gw, h)
BY DEF Ingresses, Claimed

(* The groups after addIngress come from the rules of the input and cover  *)
(* all of them.                                                            *)
LEMMA GroupsOfInput ==
  ASSUME FlowInv, AddIngresses
  PROVE  \E asked :
           /\ \A a \in asked : \E protocol \in {"http", "grpc"} : \E ing \in ToSet(input[protocol]) :
                \E rule \in ToSet(ing.rules) : a = Asks(ing, rule, protocol)
           /\ \A protocol \in {"http", "grpc"} : \A ing \in ToSet(input[protocol]) :
                \A rule \in ToSet(ing.rules) : Asks(ing, rule, protocol) \in asked
           /\ From(groups', asked) /\ \A a \in asked : GroupCovers(groups', a)
<1> DEFINE http == RulesOf(input.http, "http")
           grpc == RulesOf(input.grpc, "grpc")
           asked == http \o grpc
<1>1. groups' = Grouped(asked)
  BY DEF AddIngresses
<1>2. /\ IsList(input.http) /\ IsList(input.grpc)
      /\ \A ing \in Ingresses : WellFormed(ing)
  BY InputsAreLists
<1>3. Ingresses = ToSet(input.http) \cup ToSet(input.grpc)
  BY DEF Ingresses
<1>4. \A ing \in Ingresses : IsList(ing.rules) /\ IsList(ing.tls)
  BY <1>2 DEF WellFormed
<1>5. /\ IsList(http)
      /\ \A a : a \in ToSet(http) <=>
                  \E ing \in ToSet(input.http) : \E rule \in ToSet(ing.rules) : a = Asks(ing, rule, "http")
  BY <1>2, <1>3, <1>4, RulesHold
<1>6. /\ IsList(grpc)
      /\ \A a : a \in ToSet(grpc) <=>
                  \E ing \in ToSet(input.grpc) : \E rule \in ToSet(ing.rules) : a = Asks(ing, rule, "grpc")
  BY <1>2, <1>3, <1>4, RulesHold
<1> HIDE DEF http, grpc
<1>7. IsList(asked) /\ ToSet(asked) = ToSet(http) \cup ToSet(grpc)
  <2> DEFINE X == ToSet(http) \cup ToSet(grpc)
  <2>1. http \in Seq(X) /\ grpc \in Seq(X)
    BY <1>5, <1>6, ListShape
  <2> HIDE DEF X
  <2>2. asked \in Seq(X) /\ ToSet(asked) = ToSet(http) \cup ToSet(grpc)
    BY <2>1, ConcatHolds
  <2> QED
    BY <2>2, SeqIsList
<1> HIDE DEF asked
<1>8. \A a \in ToSet(asked) : \E protocol \in {"http", "grpc"} : \E ing \in ToSet(input[protocol]) :
        \E rule \in ToSet(ing.rules) : a = Asks(ing, rule, protocol)
  BY <1>5, <1>6, <1>7
<1>9. \A protocol \in {"http", "grpc"} : \A ing \in ToSet(input[protocol]) : \A rule \in ToSet(ing.rules) :
        Asks(ing, rule, protocol) \in ToSet(asked)
  BY <1>5, <1>6, <1>7
<1>10. \A a \in ToSet(asked) : IsList(a.ing.tls)
  BY <1>3, <1>4, <1>8 DEF Asks
<1>11. From(groups', ToSet(asked)) /\ \A a \in ToSet(asked) : GroupCovers(groups', a)
  BY <1>1, <1>7, <1>10, GroupsHold
<1> QED
  BY <1>8, <1>9, <1>11

(* The default backend of an Ingress, as addIngress keeps it.              *)
DefaultOf(ing) ==
  [ns |-> ing.ns, name |-> ing.name, class |-> ing.class, backend |-> ing.default]

(* addIngress keeps every default backend, and nothing else.               *)
LEMMA DefaultsHold ==
  ASSUME NEW ings, IsList(ings)
  PROVE  /\ IsList(DefaultsOf(ings))
         /\ \A d : d \in ToSet(DefaultsOf(ings)) <=>
                     \E ing \in ToSet(ings) : ing.default # NoBackend /\ d = DefaultOf(ing)
<1> DEFINE S == {ing \in ToSet(ings) : ing.default # NoBackend}
           with == Keep(ings, S)
           made == [i \in DOMAIN with |-> DefaultOf(with[i])]
           X == {DefaultOf(with[i]) : i \in DOMAIN with}
<1>1. DefaultsOf(ings) = made
  BY DEF DefaultsOf, DefaultOf
<1>2. ToSet(ings) \cap S = S /\ \A ing : ing \in S <=> ing \in ToSet(ings) /\ ing.default # NoBackend
  OBVIOUS
<1> HIDE DEF S
<1>3. IsList(with) /\ ToSet(with) = S
  BY <1>2, KeepList
<1> HIDE DEF with
<1>4. made \in [DOMAIN with -> X]
  OBVIOUS
<1>5. DOMAIN made = DOMAIN with /\ \A i \in DOMAIN with : made[i] = DefaultOf(with[i])
  OBVIOUS
<1> HIDE DEF made, X
<1>6. IsList(made)
  BY <1>3, <1>4, MadeList
<1>7. \A d : d \in ToSet(made) <=> \E i \in DOMAIN with : d = DefaultOf(with[i])
  BY <1>5, InToSet
<1>8. \A ing : ing \in S <=> \E i \in DOMAIN with : with[i] = ing
  BY <1>3, InToSet
<1>9. \A d : d \in ToSet(made) <=>
                \E ing \in ToSet(ings) : ing.default # NoBackend /\ d = DefaultOf(ing)
  BY <1>2, <1>7, <1>8
<1> QED
  BY <1>1, <1>6, <1>9

(* The default backends after addIngress are those of the input.           *)
LEMMA DefaultsOfInput ==
  ASSUME FlowInv, AddIngresses
  PROVE  /\ IsList(defaults')
         /\ \A d : d \in ToSet(defaults') <=>
                     \E ing \in Ingresses : ing.default # NoBackend /\ d = DefaultOf(ing)
<1> DEFINE all == input.http \o input.grpc
<1>1. defaults' = DefaultsOf(all)
  BY DEF AddIngresses
<1>2. IsList(input.http) /\ IsList(input.grpc) /\ Ingresses = ToSet(input.http) \cup ToSet(input.grpc)
  BY InputsAreLists DEF Ingresses
<1>3. input.http \in Seq(Ingresses) /\ input.grpc \in Seq(Ingresses)
  BY <1>2, ListShape
<1>4. all \in Seq(Ingresses) /\ ToSet(all) = Ingresses
  BY <1>2, <1>3, ConcatHolds
<1> HIDE DEF all
<1>5. IsList(all)
  BY <1>4, SeqIsList
<1> QED
  BY <1>1, <1>4, <1>5, DefaultsHold

(* Every rule of the input has its host and its secrets in a group.        *)
LEMMA AddStep == IInv /\ AddIngresses => IInv'
<1> SUFFICES ASSUME IInv, AddIngresses PROVE IInv'
  OBVIOUS
<1> USE DEF IInv
<1>1. /\ pc = "add" /\ pc' = "groups"
      /\ UNCHANGED <<input, httpRoutes, grpcRoutes, listeners, gateways, errors, ir>>
  BY DEF AddIngresses
<1>2. \A ing \in Ingresses : WellFormed(ing)
  BY InputsAreLists
<1>3. PICK asked :
        /\ \A a \in asked : \E protocol \in {"http", "grpc"} : \E ing \in ToSet(input[protocol]) :
             \E rule \in ToSet(ing.rules) : a = Asks(ing, rule, protocol)
        /\ \A protocol \in {"http", "grpc"} : \A ing \in ToSet(input[protocol]) :
             \A rule \in ToSet(ing.rules) : Asks(ing, rule, protocol) \in asked
        /\ From(groups', asked) /\ \A a \in asked : GroupCovers(groups', a)
  BY GroupsOfInput
<1>4. \A a \in asked : a.ing \in Ingresses /\ a.rule \in ToSet(a.ing.rules)
  BY <1>3 DEF Asks, Ingresses
<1>5. \A a \in asked :
         /\ Claimed(GatewayKey(KeyOf(a)), KeyOf(a).host)
         /\ \A t \in ToSet(a.ing.tls) :
              IsList(t.hosts) /\ \A h \in ToSet(t.hosts) : Claimed(GatewayKey(KeyOf(a)), h)
  <2> SUFFICES ASSUME NEW a \in asked
               PROVE  /\ Claimed(GatewayKey(KeyOf(a)), KeyOf(a).host)
                      /\ \A t \in ToSet(a.ing.tls) :
                           IsList(t.hosts) /\ \A h \in ToSet(t.hosts) : Claimed(GatewayKey(KeyOf(a)), h)
    OBVIOUS
  <2>1. GatewayKey(KeyOf(a)) = <<a.ing.ns, a.ing.class>> /\ KeyOf(a).host = a.rule.host
    BY DEF GatewayKey, KeyOf, GroupKey
  <2>2. a.ing \in Ingresses /\ a.rule \in ToSet(a.ing.rules)
    BY <1>4
  <2>3. a.rule.host \in HostsOf(a.ing)
    BY <2>2 DEF HostsOf
  <2>4. \A t \in ToSet(a.ing.tls) : IsList(t.hosts) /\ \A h \in ToSet(t.hosts) : h \in HostsOf(a.ing)
    BY <1>2, <2>2 DEF WellFormed, HostsOf
  <2> QED
    BY <2>1, <2>2, <2>3, <2>4 DEF Claimed
<1>6. \A gw, h : Claimed(gw, h)' <=> Claimed(gw, h)
  BY <1>1, InputStays
<1>7. GroupsInv'
  <2> SUFFICES ASSUME NEW k \in DOMAIN groups' PROVE OfGateway(GatewayKey(k), k, groups[k])'
    BY DEF GroupsInv
  <2>1. /\ IsList(groups'[k].tls)
        /\ \E a \in asked : k = KeyOf(a)
        /\ \A t \in ToSet(groups'[k].tls) : \E a \in asked : k = KeyOf(a) /\ t \in ToSet(a.ing.tls)
    BY <1>3 DEF From
  <2>2. Claimed(GatewayKey(k), k.host)
    BY <1>5, <2>1
  <2>3. \A t \in ToSet(groups'[k].tls) :
          IsList(t.hosts) /\ \A h \in ToSet(t.hosts) : Claimed(GatewayKey(k), h)
    BY <1>5, <2>1
  <2> QED
    BY <1>6, <2>1, <2>2, <2>3 DEF OfGateway
<1>8. SecretsInv'
  <2> SUFFICES ASSUME NEW protocol \in {"http", "grpc"}, NEW ing \in ToSet(input[protocol]),
                      NEW rule \in ToSet(ing.rules), NEW t \in ToSet(ing.tls)
               PROVE  Carried(GroupKey(ing, rule, protocol), t.secret)'
    BY <1>1 DEF SecretsInv
  <2> DEFINE a == Asks(ing, rule, protocol)
  <2>1. GroupCovers(groups', a)
    BY <1>3
  <2>2. KeyOf(a) = GroupKey(ing, rule, protocol) /\ a.ing = ing
    BY DEF KeyOf, Asks
  <2> HIDE DEF a
  <2> DEFINE k == GroupKey(ing, rule, protocol)
  <2> HIDE DEF k
  <2>3. k \in DOMAIN groups' /\ t \in ToSet(groups'[k].tls)
    BY <2>1, <2>2 DEF GroupCovers, k
  <2>4. Carried(k, t.secret)'
    BY <2>3 DEF Carried
  <2> QED
    BY <2>4 DEF k
<1>9. WishesInv'
  BY <1>1, <1>6 DEF WishesInv
<1>10. IsList(defaults')
  BY DefaultsOfInput
<1>11. RoutesInv'
  BY <1>1, <1>10, InputStays DEF RoutesInv, Reaches
<1>12. FlowInv'
  BY <1>1 DEF FlowInv
<1> QED
  BY <1>7, <1>8, <1>9, <1>11, <1>12

(* The group becomes a wish, its route reaches the wish's listener.        *)
LEMMA GroupStep == IInv /\ ConvertGroup => IInv'
<1> SUFFICES ASSUME IInv, ConvertGroup PROVE IInv'
  OBVIOUS
<1> USE DEF IInv
<1>1. PICK k \in DOMAIN groups :
        /\ groups' = [o \in DOMAIN groups \ {k} |-> groups[o]]
        /\ listeners' = WithWished(listeners, GatewayKey(k), ToListener(k, groups[k]))
        /\ IF k.protocol = "http"
           THEN /\ httpRoutes' = Append(httpRoutes, ToHTTPRoute(k, groups[k]))
                /\ UNCHANGED grpcRoutes
           ELSE /\ grpcRoutes' = Append(grpcRoutes, ToGRPCRoute(k, groups[k]))
                /\ UNCHANGED httpRoutes
        /\ errors' = errors \cup RouteErrors(k, groups[k])
  BY DEF ConvertGroup
<1>2. pc = "groups" /\ UNCHANGED <<input, pc, defaults, gateways, ir>>
  BY DEF ConvertGroup
<1> PICK group : group = groups[k]
  OBVIOUS
<1> PICK gw : gw = GatewayKey(k)
  OBVIOUS
<1> PICK w : w = ToListener(k, group)
  OBVIOUS
<1>3. OfGateway(gw, k, group)
  BY DEF GroupsInv
<1>4. gw = <<k.ns, k.class>> /\ gw[2] = k.class
  BY DEF GatewayKey
<1>5. /\ w.tls \in BOOLEAN /\ (w.host = NoHost \/ Claimed(gw, w.host))
      /\ k.host # NoHost => w.host = k.host
      /\ \A t \in ToSet(group.tls) : w.tls /\ t.secret \in w.certs
  BY <1>3, WishMade
<1>6. AllLists(listeners)
  BY DEF WishesInv, AllLists
<1>7. listeners' = WithWished(listeners, gw, w)
  BY <1>1
<1>8. \A o \in DOMAIN groups \ {k} : o \in DOMAIN groups' /\ groups'[o] = groups[o]
  BY <1>1
<1>9. DOMAIN groups' = DOMAIN groups \ {k}
  BY <1>1
<1> PICK route : route = IF k.protocol = "http" THEN ToHTTPRoute(k, group) ELSE ToGRPCRoute(k, group)
  OBVIOUS
<1>10. route.ns = k.ns /\ route.parent = k.class /\ route.host = k.host
  <2>1. /\ ToHTTPRoute(k, group).ns = k.ns
        /\ ToHTTPRoute(k, group).parent = k.class /\ ToHTTPRoute(k, group).host = k.host
    BY DEF ToHTTPRoute, Route
  <2>2. /\ ToGRPCRoute(k, group).ns = k.ns
        /\ ToGRPCRoute(k, group).parent = k.class /\ ToGRPCRoute(k, group).host = k.host
    BY DEF ToGRPCRoute, Route
  <2> QED
    BY <2>1, <2>2
<1>11. /\ IsList(httpRoutes') /\ IsList(grpcRoutes')
       /\ ToSet(httpRoutes') \cup ToSet(grpcRoutes') = ToSet(httpRoutes) \cup ToSet(grpcRoutes) \cup {route}
  <2>1. \A s : IsList(s) => IsList(Append(s, route)) /\ ToSet(Append(s, route)) = ToSet(s) \cup {route}
    <3> SUFFICES ASSUME NEW s, IsList(s)
                 PROVE  IsList(Append(s, route)) /\ ToSet(Append(s, route)) = ToSet(s) \cup {route}
      OBVIOUS
    <3> DEFINE X == ToSet(s) \cup {route}
    <3>1. s \in Seq(X) /\ route \in X
      BY ListShape
    <3> HIDE DEF X
    <3>2. Append(s, route) \in Seq(X) /\ ToSet(Append(s, route)) = ToSet(s) \cup {route}
      BY <3>1, AppendHolds
    <3> QED
      BY <3>2, SeqIsList
  <2>2. \/ httpRoutes' = Append(httpRoutes, route) /\ grpcRoutes' = grpcRoutes
        \/ grpcRoutes' = Append(grpcRoutes, route) /\ httpRoutes' = httpRoutes
    BY <1>1
  <2>3. IsList(httpRoutes) /\ IsList(grpcRoutes)
    BY DEF RoutesInv
  <2>4. CASE httpRoutes' = Append(httpRoutes, route) /\ grpcRoutes' = grpcRoutes
    <3>1. IsList(httpRoutes') /\ ToSet(httpRoutes') = ToSet(httpRoutes) \cup {route}
      BY <2>1, <2>3, <2>4
    <3> QED
      BY <2>3, <2>4, <3>1
  <2>5. CASE grpcRoutes' = Append(grpcRoutes, route) /\ httpRoutes' = httpRoutes
    <3>1. IsList(grpcRoutes') /\ ToSet(grpcRoutes') = ToSet(grpcRoutes) \cup {route}
      BY <2>1, <2>3, <2>5
    <3> QED
      BY <2>3, <2>5, <3>1
  <2> QED
    BY <2>2, <2>4, <2>5
<1>12. \A g, h : Claimed(g, h)' <=> Claimed(g, h)
  BY <1>2, InputStays
<1>13. Ingresses' = Ingresses
  BY <1>2, InputStays
<1>14. /\ DOMAIN listeners' = DOMAIN listeners \cup {gw}
       /\ \A g \in DOMAIN listeners \cup {gw} : IsList(listeners'[g])
       /\ \A g \in DOMAIN listeners \ {gw} : listeners'[g] = listeners[g]
       /\ ToSet(listeners'[gw]) = {w} \cup (IF gw \in DOMAIN listeners THEN ToSet(listeners[gw]) ELSE {})
  <2>1. Added(listeners', listeners, gw, w)
    BY <1>6, <1>7, WishAdded
  <2> QED
    BY <2>1 DEF Added, AllLists
<1>15. \A g \in DOMAIN listeners : g \in DOMAIN listeners' /\ ToSet(listeners[g]) \subseteq ToSet(listeners'[g])
  <2> SUFFICES ASSUME NEW g \in DOMAIN listeners
               PROVE  g \in DOMAIN listeners' /\ ToSet(listeners[g]) \subseteq ToSet(listeners'[g])
    OBVIOUS
  <2>1. CASE g = gw
    BY <1>14, <2>1
  <2>2. CASE g # gw
    BY <1>14, <2>2
  <2> QED
    BY <2>1, <2>2
<1>16. errors # {} => errors' # {}
  BY <1>1
<1>17. GroupsInv'
  <2> SUFFICES ASSUME NEW o \in DOMAIN groups' PROVE OfGateway(GatewayKey(o), o, groups[o])'
    BY DEF GroupsInv
  <2>1. groups'[o] = groups[o] /\ o \in DOMAIN groups
    BY <1>8, <1>9
  <2>2. OfGateway(GatewayKey(o), o, groups[o])
    BY <2>1 DEF GroupsInv
  <2> QED
    BY <1>12, <2>1, <2>2 DEF OfGateway
<1>18. WishesInv'
  <2> SUFFICES ASSUME NEW g \in DOMAIN listeners'
               PROVE  /\ IsList(listeners'[g])
                      /\ \A v \in ToSet(listeners'[g]) :
                           v.tls \in BOOLEAN /\ (v.host = NoHost \/ Claimed(g, v.host))
    BY <1>12 DEF WishesInv
  <2>1. \A v \in ToSet(listeners'[g]) :
          (g = gw /\ v = w) \/ (g \in DOMAIN listeners /\ v \in ToSet(listeners[g]))
    <3>1. CASE g = gw
      BY <1>14, <3>1
    <3>2. CASE g # gw
      BY <1>14, <3>2
    <3> QED
      BY <3>1, <3>2
  <2>2. \A v \in ToSet(listeners'[g]) : v.tls \in BOOLEAN /\ (v.host = NoHost \/ Claimed(g, v.host))
    BY <1>5, <2>1 DEF WishesInv
  <2>3. IsList(listeners'[g])
    BY <1>14
  <2> QED
    BY <2>2, <2>3
<1>19. RoutesInv'
  <2>1. \A g, h : Reaches(g, h) => Reaches(g, h)'
    BY <1>2, <1>13, <1>15, <1>16 DEF Reaches
  <2>2. Reaches(gw, k.host)'
    BY <1>5, <1>14 DEF Reaches
  <2>3. \A r \in ToSet(httpRoutes) \cup ToSet(grpcRoutes) :
          AllDefault(r) \/ Reaches(<<r.ns, r.parent>>, r.host)'
    BY <2>1 DEF RoutesInv
  <2>4. Reaches(<<route.ns, route.parent>>, route.host)'
    BY <1>4, <1>10, <2>2
  <2>5. \A r \in ToSet(httpRoutes') \cup ToSet(grpcRoutes') :
          AllDefault(r) \/ Reaches(<<r.ns, r.parent>>, r.host)'
    BY <1>11, <2>3, <2>4
  <2>6. IsList(defaults')
    BY <1>2 DEF RoutesInv
  <2> QED
    BY <1>11, <2>5, <2>6 DEF RoutesInv
<1>20. SecretsInv'
  <2>1. ASSUME NEW o, NEW secret, o.host # NoHost, Carried(o, secret) PROVE Carried(o, secret)'
    <3>1. CASE o \in DOMAIN groups /\ \E t \in ToSet(groups[o].tls) : t.secret = secret
      <4>1. CASE o = k
        <5>1. w.host = o.host /\ w.tls /\ secret \in w.certs
          BY <1>5, <2>1, <3>1, <4>1
        <5>2. GatewayKey(o) \in DOMAIN listeners' /\ w \in ToSet(listeners'[GatewayKey(o)])
          BY <1>14, <4>1
        <5> QED
          BY <5>1, <5>2 DEF Carried
      <4>2. CASE o # k
        BY <1>8, <3>1, <4>2 DEF Carried
      <4> QED
        BY <4>1, <4>2
    <3>2. CASE /\ GatewayKey(o) \in DOMAIN listeners
               /\ \E v \in ToSet(listeners[GatewayKey(o)]) : v.host = o.host /\ v.tls /\ secret \in v.certs
      BY <1>15, <3>2 DEF Carried
    <3>3. CASE /\ GatewayKey(o) \in DOMAIN gateways
               /\ \E l \in ToSet(gateways[GatewayKey(o)]) :
                    l.port = 443 /\ NameFromHost(l.host) = NameFromHost(o.host) /\ secret \in l.certs
      BY <1>2, <3>3 DEF Carried
    <3>4. CASE o.class \in SlashedClasses /\ errors # {}
      BY <1>16, <3>4 DEF Carried
    <3> QED
      BY <2>1, <3>1, <3>2, <3>3, <3>4 DEF Carried
  <2>2. ASSUME NEW protocol \in {"http", "grpc"}, NEW ing \in ToSet(input[protocol]),
               NEW rule \in ToSet(ing.rules), NEW t \in ToSet(ing.tls), rule.host # NoHost
        PROVE  Carried(GroupKey(ing, rule, protocol), t.secret)'
    <3> DEFINE o == GroupKey(ing, rule, protocol)
    <3>1. o.host # NoHost
      BY <2>2 DEF GroupKey
    <3>2. Carried(o, t.secret)
      BY <1>2, <2>2 DEF SecretsInv
    <3> HIDE DEF o
    <3>3. Carried(o, t.secret)'
      BY <2>1, <3>1, <3>2
    <3> QED
      BY <3>3 DEF o
  <2> QED
    BY <1>2, <2>2 DEF SecretsInv
<1>21. FlowInv'
  <2>1. gateways' = <<>> /\ DOMAIN gateways' = {}
    BY <1>2 DEF FlowInv
  <2> QED
    BY <1>2, <2>1 DEF FlowInv
<1> QED
  BY <1>17, <1>18, <1>19, <1>20, <1>21

(* A route is added for every default backend.                             *)
LEMMA DefaultsMade ==
  ASSUME IsList(defaults), IsList(httpRoutes), ConvertDefaults
  PROVE  /\ IsList(httpRoutes')
         /\ \A r : r \in ToSet(httpRoutes') <=>
                     r \in ToSet(httpRoutes) \/ \E d \in ToSet(defaults) : r = DefaultRoute(d)
<1> DEFINE made == [i \in DOMAIN defaults |-> DefaultRoute(defaults[i])]
           X == {DefaultRoute(d) : d \in ToSet(defaults)}
           Y == ToSet(httpRoutes) \cup X
<1>1. httpRoutes' = httpRoutes \o made
  BY DEF ConvertDefaults
<1>2. \A d : d \in ToSet(defaults) <=> \E i \in DOMAIN defaults : defaults[i] = d
  BY InToSet
<1>3. made \in [DOMAIN defaults -> X]
  BY <1>2
<1>4. DOMAIN made = DOMAIN defaults /\ \A i \in DOMAIN defaults : made[i] = DefaultRoute(defaults[i])
  OBVIOUS
<1> HIDE DEF made, X
<1>5. \A r : r \in ToSet(made) <=> \E d \in ToSet(defaults) : r = DefaultRoute(d)
  BY <1>2, <1>4, InToSet
<1>6. made \in Seq(X)
  BY <1>3, MadeList
<1>7. httpRoutes \in Seq(Y) /\ made \in Seq(Y)
  BY <1>6, ListShape
<1> HIDE DEF Y
<1>8. httpRoutes' \in Seq(Y) /\ ToSet(httpRoutes') = ToSet(httpRoutes) \cup ToSet(made)
  BY <1>1, <1>7, ConcatHolds
<1> QED
  BY <1>5, <1>8, SeqIsList

(* Default backends ask for nothing.                                       *)
LEMMA DefaultsStep == IInv /\ ConvertDefaults => IInv'
<1> SUFFICES ASSUME IInv, ConvertDefaults PROVE IInv'
  OBVIOUS
<1> USE DEF IInv
<1>1. /\ pc = "groups" /\ pc' = "gateways" /\ groups = <<>>
      /\ UNCHANGED <<input, groups, defaults, grpcRoutes, listeners, gateways, ir>>
      /\ errors # {} => errors' # {}
  BY DEF ConvertDefaults
<1>2. IsList(defaults) /\ IsList(httpRoutes) /\ IsList(grpcRoutes)
  BY DEF RoutesInv
<1>3. /\ IsList(httpRoutes')
      /\ \A r : r \in ToSet(httpRoutes') <=>
                  r \in ToSet(httpRoutes) \/ \E d \in ToSet(defaults) : r = DefaultRoute(d)
  BY <1>2, DefaultsMade
<1>4. \A d : AllDefault(DefaultRoute(d))
  <2> SUFFICES ASSUME NEW d PROVE AllDefault(DefaultRoute(d))
    OBVIOUS
  <2> DEFINE r == DefaultRoute(d)
             source == [ing |-> <<d.ns, d.name>>, backend |-> d.backend, default |-> TRUE]
  <2>1. r.sources = <<<<source>>>>
    BY DEF DefaultRoute
  <2>2. source.default
    OBVIOUS
  <2> HIDE DEF r, source
  <2>3. AllDefault(r)
    BY <2>1, <2>2 DEF AllDefault
  <2> QED
    BY <2>3 DEF r
<1>5. Ingresses' = Ingresses /\ \A g, h : Claimed(g, h)' <=> Claimed(g, h)
  BY <1>1, InputStays
<1>6. RoutesInv'
  <2>1. \A g, h : Reaches(g, h) => Reaches(g, h)'
    BY <1>1, <1>5 DEF Reaches
  <2>2. \A r \in ToSet(httpRoutes') \cup ToSet(grpcRoutes') :
          AllDefault(r) \/ Reaches(<<r.ns, r.parent>>, r.host)'
    BY <1>1, <1>3, <1>4, <2>1 DEF RoutesInv
  <2> QED
    BY <1>1, <1>2, <1>3, <2>2 DEF RoutesInv
<1>7. GroupsInv' /\ WishesInv'
  BY <1>1, <1>5 DEF GroupsInv, OfGateway, WishesInv
<1>8. SecretsInv'
  <2>1. \A o, secret : Carried(o, secret) => Carried(o, secret)'
    BY <1>1 DEF Carried
  <2> QED
    BY <1>1, <2>1 DEF SecretsInv
<1>9. FlowInv'
  BY <1>1 DEF FlowInv
<1> QED
  BY <1>6, <1>7, <1>8, <1>9

(* The wishes of one gateway are met, or fail; others are left alone.      *)
LEMMA GatewayStep == IInv /\ BuildGateway => IInv'
<1> SUFFICES ASSUME IInv, BuildGateway PROVE IInv'
  OBVIOUS
<1> USE DEF IInv
<1>1. PICK gw \in DOMAIN listeners :
        /\ listeners' = [g \in DOMAIN listeners \ {gw} |-> listeners[g]]
        /\ IF gw[2] \in SlashedClasses
           THEN errors' = errors \cup {<<"gateway key", gw>>} /\ UNCHANGED gateways
           ELSE /\ gateways' = [g \in DOMAIN gateways \cup {gw} |->
                                  IF g = gw THEN ToListeners(listeners[gw]) ELSE gateways[g]]
                /\ UNCHANGED errors
  BY DEF BuildGateway
<1>2. pc = "gateways" /\ UNCHANGED <<input, pc, groups, defaults, httpRoutes, grpcRoutes, ir>>
  BY DEF BuildGateway
<1>3. gw \notin DOMAIN gateways /\ groups = <<>>
  BY <1>2 DEF FlowInv
<1> PICK ls : ls = ToListeners(listeners[gw])
  OBVIOUS
<1>4. /\ DOMAIN listeners' = DOMAIN listeners \ {gw}
      /\ \A g \in DOMAIN listeners \ {gw} : listeners'[g] = listeners[g]
  BY <1>1
<1>5. /\ DOMAIN gateways \subseteq DOMAIN gateways' /\ DOMAIN gateways' \subseteq DOMAIN gateways \cup {gw}
      /\ \A g \in DOMAIN gateways : gateways'[g] = gateways[g]
  BY <1>1, <1>3
<1>6. errors # {} => errors' # {}
  BY <1>1
<1>7. \/ gw[2] \in SlashedClasses /\ errors' # {}
      \/ gw \in DOMAIN gateways' /\ gateways'[gw] = ls
  BY <1>1
<1>8. Ingresses' = Ingresses /\ \A g, h : Claimed(g, h)' <=> Claimed(g, h)
  BY <1>2, InputStays
<1>9. \A w \in ToSet(listeners[gw]) :
        /\ Distinct(ls)
        /\ \E l \in ToSet(ls) :
             /\ l.port = 80
             /\ \/ w.host = NoHost \/ l.host = w.host
                \/ \E ing \in Ingresses : \E o \in HostsOf(ing) \ {NoHost, w.host} :
                     <<ing.ns, ing.class>> = gw /\ NameFromHost(o) = NameFromHost(w.host)
  BY WishesMet
<1>10. \A w \in ToSet(listeners[gw]) :
         w.tls => \E l \in ToSet(ls) :
           /\ l.port = 443 /\ NameFromHost(l.host) = NameFromHost(w.host) /\ w.certs \subseteq l.certs
  BY WishesMet
<1>11. ASSUME NEW g, NEW h, Reaches(g, h) PROVE Reaches(g, h)'
  <2>1. CASE g \in DOMAIN listeners /\ \E w \in ToSet(listeners[g]) : h # NoHost => w.host = h
    <3>1. CASE g = gw /\ gw[2] \in SlashedClasses /\ errors' # {}
      BY <3>1 DEF Reaches
    <3>2. CASE g = gw /\ gw \in DOMAIN gateways' /\ gateways'[gw] = ls
      <4>1. PICK w \in ToSet(listeners[gw]) : h # NoHost => w.host = h
        BY <2>1, <3>2
      <4>2. Distinct(ls)
        BY <1>9, <4>1
      <4>3. PICK l \in ToSet(ls) :
              /\ l.port = 80
              /\ \/ w.host = NoHost \/ l.host = w.host
                 \/ \E ing \in Ingresses : \E o \in HostsOf(ing) \ {NoHost, w.host} :
                      <<ing.ns, ing.class>> = gw /\ NameFromHost(o) = NameFromHost(w.host)
        BY <1>9
      <4>4. Distinct(gateways'[g]) /\ l \in ToSet(gateways'[g])
        BY <3>2, <4>2
      <4>5. CASE h = NoHost
        BY <3>2, <4>3, <4>4, <4>5 DEF Reaches
      <4>6. CASE h # NoHost /\ l.host = h
        BY <3>2, <4>3, <4>4, <4>6 DEF Reaches
      <4>7. CASE h # NoHost /\ l.host # h
        <5>1. \E ing \in Ingresses : \E o \in HostsOf(ing) \ {NoHost, h} :
                <<ing.ns, ing.class>> = g /\ NameFromHost(o) = NameFromHost(h)
          BY <3>2, <4>1, <4>3, <4>7
        <5> QED
          BY <1>8, <3>2, <4>4, <5>1 DEF Reaches
      <4> QED
        BY <4>5, <4>6, <4>7
    <3>3. CASE g # gw
      BY <1>4, <2>1, <3>3 DEF Reaches
    <3> QED
      BY <1>7, <3>1, <3>2, <3>3
  <2>2. CASE /\ g \in DOMAIN gateways /\ Distinct(gateways[g])
             /\ \/ \E l \in ToSet(gateways[g]) : l.port = 80 /\ (h = NoHost \/ l.host = h)
                \/ \E ing \in Ingresses : \E o \in HostsOf(ing) \ {NoHost, h} :
                     <<ing.ns, ing.class>> = g /\ NameFromHost(o) = NameFromHost(h)
    BY <1>5, <1>8, <2>2 DEF Reaches
  <2>3. CASE g[2] \in SlashedClasses /\ errors # {}
    BY <1>6, <2>3 DEF Reaches
  <2> QED
    BY <1>11, <2>1, <2>2, <2>3 DEF Reaches
<1>12. ASSUME NEW k, NEW secret, Carried(k, secret) PROVE Carried(k, secret)'
  <2> PICK g : g = GatewayKey(k)
    OBVIOUS
  <2>1. g[2] = k.class
    BY DEF GatewayKey
  <2>2. CASE g \in DOMAIN listeners /\ \E w \in ToSet(listeners[g]) : w.host = k.host /\ w.tls /\ secret \in w.certs
    <3>1. CASE g = gw /\ gw[2] \in SlashedClasses /\ errors' # {}
      BY <2>1, <3>1 DEF Carried
    <3>2. CASE g = gw /\ gw \in DOMAIN gateways' /\ gateways'[gw] = ls
      <4>1. PICK w \in ToSet(listeners[gw]) : w.host = k.host /\ w.tls /\ secret \in w.certs
        BY <2>2, <3>2
      <4>2. \E l \in ToSet(ls) :
              l.port = 443 /\ NameFromHost(l.host) = NameFromHost(k.host) /\ secret \in l.certs
        BY <1>10, <4>1
      <4> QED
        BY <3>2, <4>2 DEF Carried
    <3>3. CASE g # gw
      BY <1>4, <2>2, <3>3 DEF Carried
    <3> QED
      BY <1>7, <3>1, <3>2, <3>3
  <2>3. CASE /\ g \in DOMAIN gateways
             /\ \E l \in ToSet(gateways[g]) :
                  l.port = 443 /\ NameFromHost(l.host) = NameFromHost(k.host) /\ secret \in l.certs
    BY <1>5, <2>3 DEF Carried
  <2>4. CASE k.class \in SlashedClasses /\ errors # {}
    BY <1>6, <2>4 DEF Carried
  <2>5. CASE k \in DOMAIN groups
    BY <1>3, <2>5
  <2> QED
    BY <1>12, <2>2, <2>3, <2>4, <2>5 DEF Carried
<1>13. RoutesInv'
  BY <1>2, <1>11 DEF RoutesInv
<1>14. SecretsInv'
  BY <1>2, <1>12 DEF SecretsInv
<1>15. GroupsInv'
  BY <1>2, <1>8 DEF GroupsInv, OfGateway
<1>16. WishesInv'
  BY <1>4, <1>8 DEF WishesInv
<1>17. FlowInv'
  BY <1>2, <1>4, <1>5 DEF FlowInv
<1> QED
  BY <1>13, <1>14, <1>15, <1>16, <1>17

(* Return stores the routes and the gateways only when there is no error.  *)
LEMMA ReturnStep == IInv /\ Return => IInv'
<1> SUFFICES ASSUME IInv, Return PROVE IInv'
  OBVIOUS
<1> USE DEF IInv
<1>1. /\ pc = "gateways" /\ listeners = <<>> /\ pc' = "done"
      /\ ir' = IF errors # {} THEN EmptyIR
               ELSE [http |-> ByKey(httpRoutes), grpc |-> ByKey(grpcRoutes), gateways |-> gateways]
      /\ UNCHANGED <<input, groups, defaults, httpRoutes, grpcRoutes, listeners, gateways, errors>>
  BY DEF Return
<1>2. Ingresses' = Ingresses /\ \A g, h : Claimed(g, h)' <=> Claimed(g, h)
  BY <1>1, InputStays
<1>3. GroupsInv' /\ WishesInv'
  BY <1>1, <1>2 DEF GroupsInv, OfGateway, WishesInv
<1>4. RoutesInv'
  BY <1>1, <1>2 DEF RoutesInv, Reaches
<1>5. SecretsInv'
  BY <1>1 DEF SecretsInv, Carried
<1>6. FlowInv'
  BY <1>1 DEF FlowInv
<1> QED
  BY <1>3, <1>4, <1>5, <1>6

(* The invariant is about the variables of the module alone.               *)
LEMMA StutterStep == IInv /\ UNCHANGED vars => IInv'
<1> SUFFICES ASSUME IInv, UNCHANGED vars PROVE IInv'
  OBVIOUS
<1>1. /\ UNCHANGED <<input, pc, groups, defaults, httpRoutes, grpcRoutes>>
      /\ UNCHANGED <<listeners, gateways, errors, ir>>
  BY DEF vars
<1>2. Ingresses' = Ingresses /\ \A g, h : Claimed(g, h)' <=> Claimed(g, h)
  BY <1>1, InputStays
<1>3. GroupsInv' /\ WishesInv'
  BY <1>1, <1>2 DEF IInv, GroupsInv, OfGateway, WishesInv
<1>4. RoutesInv'
  BY <1>1, <1>2 DEF IInv, RoutesInv, Reaches
<1>5. SecretsInv'
  BY <1>1 DEF IInv, SecretsInv, Carried
<1>6. FlowInv'
  BY <1>1 DEF IInv, FlowInv
<1> QED
  BY <1>3, <1>4, <1>5, <1>6 DEF IInv

(* The invariant holds in every state of every run of ToIR.                *)
LEMMA Invariant == Spec => []IInv
<1>1. IInv /\ [Next]_vars => IInv'
  <2> SUFFICES ASSUME IInv, [Next]_vars PROVE IInv'
    OBVIOUS
  <2>1. CASE AddIngresses
    BY <2>1, AddStep
  <2>2. CASE ConvertGroup
    BY <2>2, GroupStep
  <2>3. CASE ConvertDefaults
    BY <2>3, DefaultsStep
  <2>4. CASE BuildGateway
    BY <2>4, GatewayStep
  <2>5. CASE Return
    BY <2>5, ReturnStep
  <2>6. CASE UNCHANGED vars
    BY <2>6, StutterStep
  <2> QED
    BY <2>1, <2>2, <2>3, <2>4, <2>5, <2>6 DEF Next
<1> QED
  BY InitInv, <1>1, PTL DEF Spec

-----------------------------------------------------------------------------
(* What the IR holds.                                                      *)

(* What is stored is one of the routes that were made.                     *)
LEMMA StoredRoutes ==
  ASSUME NEW routes, IsList(routes)
  PROVE  \A k \in DOMAIN ByKey(routes) : ByKey(routes)[k] \in ToSet(routes)
<1> DEFINE keys == [i \in DOMAIN routes |-> Key(routes[i])]
           X == {Key(routes[i]) : i \in DOMAIN routes}
<1>1. keys \in [DOMAIN routes -> X]
  OBVIOUS
<1>2. ByKey(routes) = [k \in ToSet(keys) |-> routes[LastOf(keys, k)]]
  BY DEF ByKey
<1> HIDE DEF keys, X
<1>3. IsList(keys) /\ DOMAIN keys = DOMAIN routes
  BY <1>1, MadeList
<1>4. ASSUME NEW k \in ToSet(keys) PROVE routes[LastOf(keys, k)] \in ToSet(routes)
  <2>1. LastOf(keys, k) \in DOMAIN routes
    BY <1>3, LastStays
  <2> QED
    BY <2>1, InToSet
<1> QED
  BY <1>2, <1>4

(* Every route with a source of its own reaches an HTTP listener for its   *)
(* host on the gateway it names (toRoutesAndGateways), or a namesake host  *)
(* of the same gateway has taken the name; no two listeners of a gateway   *)
(* share a name.                                                           *)
THEOREM RoutesArrive == Spec => []RoutesReachListener
<1>1. IInv => RoutesReachListener
  <2> SUFFICES ASSUME IInv, NEW protocol \in {"http", "grpc"}, NEW k \in DOMAIN ir[protocol],
                      NEW r, r = ir[protocol][k],
                      \E i \in 1..Len(r.sources) : \E j \in 1..Len(r.sources[i]) : ~r.sources[i][j].default
               PROVE  /\ <<r.ns, r.parent>> \in DOMAIN ir.gateways
                      /\ Distinct(ListenersOf(r))
                      /\ \/ HostNamesake(r)
                         \/ \E l \in ToSet(ListenersOf(r)) :
                              l.port = 80 /\ (r.host = NoHost \/ l.host = r.host)
    BY DEF RoutesReachListener
  <2>1. pc = "done" /\ errors = {}
    <3> SUFFICES ASSUME ir = EmptyIR PROVE FALSE
      BY DEF IInv, FlowInv
    <3>1. DOMAIN ir[protocol] = {}
      BY DEF EmptyIR
    <3> QED
      BY <3>1
  <2>2. /\ ir.http = ByKey(httpRoutes) /\ ir.grpc = ByKey(grpcRoutes) /\ ir.gateways = gateways
        /\ listeners = <<>>
    BY <2>1 DEF IInv, FlowInv
  <2>3. r \in ToSet(httpRoutes) \cup ToSet(grpcRoutes)
    <3>1. CASE protocol = "http"
      BY <2>2, <3>1, StoredRoutes DEF IInv, RoutesInv
    <3>2. CASE protocol = "grpc"
      BY <2>2, <3>2, StoredRoutes DEF IInv, RoutesInv
    <3> QED
      BY <3>1, <3>2
  <2>4. Reaches(<<r.ns, r.parent>>, r.host)
    BY <2>3 DEF IInv, RoutesInv, AllDefault
  <2> PICK gw : gw = <<r.ns, r.parent>>
    OBVIOUS
  <2>5. DOMAIN listeners = {}
    BY <2>2
  <2>6. /\ gw \in DOMAIN gateways /\ Distinct(gateways[gw])
        /\ \/ \E l \in ToSet(gateways[gw]) : l.port = 80 /\ (r.host = NoHost \/ l.host = r.host)
           \/ \E ing \in Ingresses : \E o \in HostsOf(ing) \ {NoHost, r.host} :
                <<ing.ns, ing.class>> = gw /\ NameFromHost(o) = NameFromHost(r.host)
    BY <2>1, <2>4, <2>5 DEF Reaches
  <2>7. ListenersOf(r) = gateways[gw]
    BY <2>2 DEF ListenersOf
  <2>8. (\E ing \in Ingresses : \E o \in HostsOf(ing) \ {NoHost, r.host} :
           <<ing.ns, ing.class>> = gw /\ NameFromHost(o) = NameFromHost(r.host)) => HostNamesake(r)
    BY DEF HostNamesake
  <2> QED
    BY <2>2, <2>6, <2>7, <2>8
<1> QED
  BY Invariant, <1>1, PTL

(* Every secret of an Ingress is on an HTTPS listener for each host that   *)
(* the Ingress has a rule for, whichever Ingress of the host comes first   *)
(* and in whatever order gateways are built.                               *)
THEOREM SecretsArrive == Spec => []SecretsPresented
<1>1. IInv => SecretsPresented
  <2> SUFFICES ASSUME IInv, pc = "done", errors = {}, NEW ing \in Ingresses, NEW rule \in ToSet(ing.rules),
                      NEW t \in ToSet(ing.tls), rule.host # NoHost
               PROVE  \E l \in ToSet(ir.gateways[<<ing.ns, ing.class>>]) :
                        /\ l.port = 443 /\ NameFromHost(l.host) = NameFromHost(rule.host)
                        /\ t.secret \in l.certs
    BY DEF SecretsPresented
  <2>1. ir.gateways = gateways /\ listeners = <<>> /\ groups = <<>>
    BY DEF IInv, FlowInv
  <2>2. DOMAIN listeners = {} /\ DOMAIN groups = {}
    BY <2>1
  <2>3. PICK protocol \in {"http", "grpc"} : ing \in ToSet(input[protocol])
    BY DEF Ingresses
  <2> PICK k : k = GroupKey(ing, rule, protocol)
    OBVIOUS
  <2>4. Carried(k, t.secret)
    <3>1. SecretsInv /\ pc # "add"
      BY DEF IInv
    <3> QED
      BY <2>3, <3>1 DEF SecretsInv
  <2>5. k.host = rule.host /\ GatewayKey(k) = <<ing.ns, ing.class>>
    BY DEF GroupKey, GatewayKey
  <2> QED
    BY <2>1, <2>2, <2>4, <2>5 DEF Carried
<1> QED
  BY Invariant, <1>1, PTL

-----------------------------------------------------------------------------
(* What becomes of the paths: rules, backends and their sources.           *)

(* The paths of a group, each with its Ingress, and nothing else.          *)
LEMMA PathsHold ==
  ASSUME NEW group, IsList(group.rules), \A x \in ToSet(group.rules) : IsList(x.paths)
  PROVE  /\ IsList(PathsOf(group))
         /\ \A q : q \in ToSet(PathsOf(group)) <=>
                     \E x \in ToSet(group.rules) : \E p \in ToSet(x.paths) : q = Placed(x.ing, p)
<1> DEFINE entries == group.rules
           Of(x) == [j \in DOMAIN x.paths |-> Placed(x.ing, x.paths[j])]
           X == {Placed(x.ing, p) : x \in ToSet(entries), p \in UNION {ToSet(y.paths) : y \in ToSet(entries)}}
           all == [i \in DOMAIN entries |-> Of(entries[i])]
<1>1. \A x \in ToSet(entries) :
        /\ Of(x) \in Seq(X)
        /\ \A q : q \in ToSet(Of(x)) <=> \E p \in ToSet(x.paths) : q = Placed(x.ing, p)
  <2> HIDE DEF Of, X
  <2> SUFFICES ASSUME NEW x \in ToSet(entries)
               PROVE  /\ Of(x) \in Seq(X)
                      /\ \A q : q \in ToSet(Of(x)) <=> \E p \in ToSet(x.paths) : q = Placed(x.ing, p)
    OBVIOUS
  <2> USE DEF Of, X
  <2>1. \A j \in DOMAIN x.paths : x.paths[j] \in ToSet(x.paths)
    BY InToSet
  <2>2. Of(x) \in [DOMAIN x.paths -> X]
    BY <2>1
  <2>3. DOMAIN Of(x) = DOMAIN x.paths
    OBVIOUS
  <2>4. \A j \in DOMAIN x.paths : Of(x)[j] = Placed(x.ing, x.paths[j])
    OBVIOUS
  <2> HIDE DEF X, Of
  <2>5. Of(x) \in Seq(X)
    BY <2>2, MadeList
  <2>6. \A q : q \in ToSet(Of(x)) <=> \E j \in DOMAIN x.paths : Of(x)[j] = q
    BY <2>3, InToSet
  <2>7. \A p : p \in ToSet(x.paths) <=> \E j \in DOMAIN x.paths : x.paths[j] = p
    BY InToSet
  <2>8. \A q : q \in ToSet(Of(x)) <=> \E p \in ToSet(x.paths) : q = Placed(x.ing, p)
    BY <2>4, <2>6, <2>7
  <2> QED
    BY <2>5, <2>8
<1>2. PathsOf(group) = FlattenSeq(all)
  BY DEF PathsOf
<1> HIDE DEF X, Of
<1>3. \A i \in DOMAIN entries : entries[i] \in ToSet(entries)
  BY InToSet
<1>4. all \in [DOMAIN entries -> Seq(X)]
  BY <1>1, <1>3
<1>5. DOMAIN all = DOMAIN entries /\ \A i \in DOMAIN entries : all[i] = Of(entries[i])
  OBVIOUS
<1>6. IsList(entries)
  OBVIOUS
<1> HIDE DEF all, entries
<1>7. all \in Seq(Seq(X))
  BY <1>4, <1>6, MadeList
<1>8. FlattenSeq(all) \in Seq(X)
  BY <1>7, FlattenHolds
<1>9. ToSet(FlattenSeq(all)) = UNION {ToSet(all[i]) : i \in DOMAIN all}
  BY <1>7, FlattenHolds
<1>10. \A q : q \in ToSet(FlattenSeq(all)) <=> \E i \in DOMAIN entries : q \in ToSet(Of(entries[i]))
  BY <1>5, <1>9
<1>11. \A q : q \in ToSet(FlattenSeq(all)) <=> \E x \in ToSet(entries) : q \in ToSet(Of(x))
  <2>1. \A x : x \in ToSet(entries) <=> \E i \in DOMAIN entries : entries[i] = x
    BY InToSet
  <2> QED
    BY <1>10, <2>1
<1>12. IsList(FlattenSeq(all))
  BY <1>8, SeqIsList
<1>13. \A q : q \in ToSet(FlattenSeq(all)) <=>
                \E x \in ToSet(entries) : \E p \in ToSet(x.paths) : q = Placed(x.ing, p)
  <2>1. \A x \in ToSet(entries) : \A q :
          q \in ToSet(Of(x)) <=> \E p \in ToSet(x.paths) : q = Placed(x.ing, p)
    BY <1>1 DEF entries
  <2> QED
    BY <1>11, <2>1
<1> QED
  BY <1>2, <1>12, <1>13 DEF entries

(* Every path has its key among the keys, and no other key is there.       *)
LEMMA KeysHold ==
  ASSUME NEW paths, IsList(paths)
  PROVE  /\ IsList(MatchKeys(paths))
         /\ \A c : c \in ToSet(MatchKeys(paths)) <=> \E q \in ToSet(paths) : MatchKey(q) = c
<1> DEFINE keys == [i \in DOMAIN paths |-> MatchKey(paths[i])]
           X == {MatchKey(paths[i]) : i \in DOMAIN paths}
<1>1. keys \in [DOMAIN paths -> X]
  OBVIOUS
<1>2. DOMAIN keys = DOMAIN paths /\ \A i \in DOMAIN paths : keys[i] = MatchKey(paths[i])
  OBVIOUS
<1>3. MatchKeys(paths) = Firsts(keys)
  BY DEF MatchKeys
<1> HIDE DEF keys, X
<1>4. IsList(keys)
  BY <1>1, MadeList
<1>5. IsList(Firsts(keys)) /\ ToSet(Firsts(keys)) = ToSet(keys)
  BY <1>4, FirstsHold
<1>6. \A c : c \in ToSet(keys) <=> \E i \in DOMAIN paths : MatchKey(paths[i]) = c
  BY <1>2, InToSet
<1>7. \A c : c \in ToSet(keys) <=> \E q \in ToSet(paths) : MatchKey(q) = c
  <2>1. \A q : q \in ToSet(paths) <=> \E i \in DOMAIN paths : paths[i] = q
    BY InToSet
  <2> QED
    BY <1>6, <2>1
<1> QED
  BY <1>3, <1>5, <1>7

(* configureBackendRef: backends and their sources side by side, one of    *)
(* each for a path whose backend can be resolved.                          *)
SourceOf(q) == [ing |-> q.ing, backend |-> q.backend, default |-> FALSE]

Pairwise(backends, sources, ns, paths) ==
  /\ IsList(backends) /\ IsList(sources) /\ DOMAIN backends = DOMAIN sources
  /\ \A j \in DOMAIN sources : \E q \in ToSet(paths) :
       backends[j] = ToBackendRef(ns, q.backend) /\ sources[j] = SourceOf(q)
  /\ \A q \in ToSet(paths) : ToBackendRef(ns, q.backend) # NoRef =>
       \E j \in DOMAIN sources : backends[j] = ToBackendRef(ns, q.backend) /\ sources[j] = SourceOf(q)

(* The backends of some paths and their sources go in pairs.               *)
LEMMA BackendsHold ==
  ASSUME NEW ns, NEW paths, IsList(paths)
  PROVE  Pairwise(Backends(ns, paths), Sources(ns, paths), ns, paths)
<1> DEFINE kept == Resolved(ns, paths)
           S == {q \in ToSet(paths) : ToBackendRef(ns, q.backend) # NoRef}
           backends == [i \in DOMAIN kept |-> ToBackendRef(ns, kept[i].backend)]
           sources == [i \in DOMAIN kept |-> SourceOf(kept[i])]
           B == {ToBackendRef(ns, kept[i].backend) : i \in DOMAIN kept}
           C == {SourceOf(kept[i]) : i \in DOMAIN kept}
<1>1. Backends(ns, paths) = backends /\ Sources(ns, paths) = sources
  BY DEF Backends, Sources, SourceOf
<1>2. backends \in [DOMAIN kept -> B] /\ sources \in [DOMAIN kept -> C]
  OBVIOUS
<1>3. DOMAIN backends = DOMAIN kept /\ \A j \in DOMAIN kept : backends[j] = ToBackendRef(ns, kept[j].backend)
  OBVIOUS
<1>4. DOMAIN sources = DOMAIN kept /\ \A j \in DOMAIN kept : sources[j] = SourceOf(kept[j])
  OBVIOUS
<1>5. kept = Keep(paths, S)
  BY DEF Resolved
<1>6. ToSet(paths) \cap S = S
  OBVIOUS
<1>7. \A q : q \in S <=> q \in ToSet(paths) /\ ToBackendRef(ns, q.backend) # NoRef
  OBVIOUS
<1> HIDE DEF kept, S, backends, sources, B, C
<1>8. IsList(kept) /\ ToSet(kept) = S
  BY <1>5, <1>6, KeepList
<1>9. IsList(backends) /\ IsList(sources)
  BY <1>2, <1>8, MadeList
<1>10. \A q : q \in S <=> \E j \in DOMAIN kept : kept[j] = q
  BY <1>8, InToSet
<1>11. \A j \in DOMAIN sources : \E q \in ToSet(paths) :
         backends[j] = ToBackendRef(ns, q.backend) /\ sources[j] = SourceOf(q)
  BY <1>3, <1>4, <1>7, <1>10
<1>12. \A q \in ToSet(paths) : ToBackendRef(ns, q.backend) # NoRef =>
         \E j \in DOMAIN sources : backends[j] = ToBackendRef(ns, q.backend) /\ sources[j] = SourceOf(q)
  BY <1>3, <1>4, <1>7, <1>10
<1> QED
  BY <1>1, <1>3, <1>4, <1>9, <1>11, <1>12 DEF Pairwise

(* toHTTPRoute and toGRPCRoute: a rule for every match key that can be     *)
(* converted, from the paths that have the key.                            *)
Allowed(k, c) == k.protocol = "http" => Convertible(c)

MatchFor(k, c) == IF k.protocol = "http" THEN HTTPMatch(c) ELSE GRPCMatch(c)

RuleFor(k, paths, c) ==
  [matches |-> MatchFor(k, c), filters |-> <<>>, backends |-> Backends(k.ns, WithKey(paths, c))]

RouteFor(k, group) == IF k.protocol = "http" THEN ToHTTPRoute(k, group) ELSE ToGRPCRoute(k, group)

RuleAt(r, i, k, paths, c) ==
  r.rules[i] = RuleFor(k, paths, c) /\ r.sources[i] = Sources(k.ns, WithKey(paths, c))

MadeFrom(r, k, paths) ==
  /\ IsList(r.rules) /\ IsList(r.sources) /\ DOMAIN r.rules = DOMAIN r.sources
  /\ \A i \in DOMAIN r.rules : \E q \in ToSet(paths) :
       Allowed(k, MatchKey(q)) /\ RuleAt(r, i, k, paths, MatchKey(q))
  /\ \A q \in ToSet(paths) : Allowed(k, MatchKey(q)) =>
       \E i \in DOMAIN r.rules : RuleAt(r, i, k, paths, MatchKey(q))

(* The rules of the route of a group are those of its keys, in order.      *)
LEMMA RouteMade ==
  ASSUME NEW k, NEW group, IsList(PathsOf(group))
  PROVE  MadeFrom(RouteFor(k, group), k, PathsOf(group))
<1> PICK paths : paths = PathsOf(group)
  OBVIOUS
<1> PICK r : r = RouteFor(k, group)
  OBVIOUS
<1> DEFINE all == MatchKeys(paths)
           S == {key \in ToSet(all) : Convertible(key)}
           keys == IF k.protocol = "http" THEN Keep(all, S) ELSE all
           rules == [i \in DOMAIN keys |-> RuleFor(k, paths, keys[i])]
           sources == [i \in DOMAIN keys |-> Sources(k.ns, WithKey(paths, keys[i]))]
<1>1. IsList(all) /\ \A c : c \in ToSet(all) <=> \E q \in ToSet(paths) : MatchKey(q) = c
  BY KeysHold
<1>2. r.rules = rules /\ r.sources = sources
  <2>1. CASE k.protocol = "http"
    <3>1. r = ToHTTPRoute(k, group) /\ keys = Keep(all, S)
      BY <2>1 DEF RouteFor
    <3>2. \A c : MatchFor(k, c) = HTTPMatch(c)
      BY <2>1 DEF MatchFor
    <3> HIDE DEF keys
    <3>3. /\ ToHTTPRoute(k, group).rules =
               [i \in DOMAIN keys |-> [matches |-> HTTPMatch(keys[i]), filters |-> <<>>,
                                       backends |-> Backends(k.ns, WithKey(paths, keys[i]))]]
          /\ ToHTTPRoute(k, group).sources = sources
      BY <3>1 DEF ToHTTPRoute, Route
    <3>4. ToHTTPRoute(k, group).rules = rules
      BY <3>2, <3>3 DEF RuleFor
    <3> QED
      BY <3>1, <3>3, <3>4
  <2>2. CASE k.protocol # "http"
    <3>1. r = ToGRPCRoute(k, group) /\ keys = all
      BY <2>2 DEF RouteFor
    <3>2. \A c : MatchFor(k, c) = GRPCMatch(c)
      BY <2>2 DEF MatchFor
    <3> HIDE DEF keys
    <3>3. /\ ToGRPCRoute(k, group).rules =
               [i \in DOMAIN keys |-> [matches |-> GRPCMatch(keys[i]), filters |-> <<>>,
                                       backends |-> Backends(k.ns, WithKey(paths, keys[i]))]]
          /\ ToGRPCRoute(k, group).sources = sources
      BY <3>1 DEF ToGRPCRoute, Route
    <3>4. ToGRPCRoute(k, group).rules = rules
      BY <3>2, <3>3 DEF RuleFor
    <3> QED
      BY <3>1, <3>3, <3>4
  <2> QED
    BY <2>1, <2>2
<1>3. \A c : c \in S <=> c \in ToSet(all) /\ Convertible(c)
  OBVIOUS
<1> HIDE DEF S, all
<1>4. IsList(keys) /\ \A c : c \in ToSet(keys) <=> c \in ToSet(all) /\ Allowed(k, c)
  <2>1. IsList(Keep(all, S)) /\ ToSet(Keep(all, S)) = ToSet(all) \cap S
    BY <1>1, KeepList
  <2> QED
    BY <1>1, <1>3, <2>1 DEF Allowed
<1>5. DOMAIN rules = DOMAIN keys /\ \A i \in DOMAIN keys : rules[i] = RuleFor(k, paths, keys[i])
  OBVIOUS
<1>6. DOMAIN sources = DOMAIN keys /\ \A i \in DOMAIN keys : sources[i] = Sources(k.ns, WithKey(paths, keys[i]))
  OBVIOUS
<1> HIDE DEF keys
<1>7. IsList(rules) /\ IsList(sources)
  <2> DEFINE X == {rules[i] : i \in DOMAIN keys}
             Y == {sources[i] : i \in DOMAIN keys}
  <2>1. rules \in [DOMAIN keys -> X] /\ sources \in [DOMAIN keys -> Y]
    OBVIOUS
  <2> HIDE DEF rules, sources, X, Y
  <2> QED
    BY <1>4, <2>1, MadeList
<1> HIDE DEF rules, sources
<1>8. \A i \in DOMAIN keys : RuleAt(r, i, k, paths, keys[i])
  BY <1>2, <1>5, <1>6 DEF RuleAt
<1>9. \A c : c \in ToSet(keys) <=> \E i \in DOMAIN keys : keys[i] = c
  BY InToSet
<1>10. \A i \in DOMAIN r.rules : \E q \in ToSet(paths) :
         Allowed(k, MatchKey(q)) /\ RuleAt(r, i, k, paths, MatchKey(q))
  <2> SUFFICES ASSUME NEW i \in DOMAIN keys
               PROVE  \E q \in ToSet(paths) : Allowed(k, MatchKey(q)) /\ RuleAt(r, i, k, paths, MatchKey(q))
    BY <1>2, <1>5
  <2>1. keys[i] \in ToSet(all) /\ Allowed(k, keys[i])
    BY <1>4, <1>9
  <2>2. PICK q \in ToSet(paths) : MatchKey(q) = keys[i]
    BY <1>1, <2>1
  <2> QED
    BY <1>8, <2>1, <2>2
<1>11. \A q \in ToSet(paths) : Allowed(k, MatchKey(q)) =>
         \E i \in DOMAIN r.rules : RuleAt(r, i, k, paths, MatchKey(q))
  <2> SUFFICES ASSUME NEW q \in ToSet(paths), Allowed(k, MatchKey(q))
               PROVE  \E i \in DOMAIN r.rules : RuleAt(r, i, k, paths, MatchKey(q))
    OBVIOUS
  <2>1. PICK i \in DOMAIN keys : keys[i] = MatchKey(q)
    BY <1>1, <1>4, <1>9
  <2>2. RuleAt(r, i, k, paths, MatchKey(q))
    BY <1>8, <2>1
  <2> QED
    BY <1>2, <1>5, <2>2
<1> QED
  BY <1>2, <1>5, <1>6, <1>7, <1>10, <1>11 DEF MadeFrom

-----------------------------------------------------------------------------
(* The paths of the input on their way through a group into a route.       *)

KeyFor(o) == [ns |-> o.ns, class |-> o.class, host |-> o.host, protocol |-> o.protocol]

(* ToIR has to refuse the path.                                            *)
Refused(o) ==
  \/ o.protocol = "http" /\ ~Convertible(MatchKey(o.path))
  \/ ToBackendRef(o.ns, o.path.backend) = NoRef

(* The group has the path.                                                 *)
Holding(group, o) == \E x \in ToSet(group.rules) : x.ing = o.ing /\ o.path \in ToSet(x.paths)

(* The group has no path that no Ingress asks for.                         *)
HoldsAsked(k, group) ==
  /\ IsList(group.rules)
  /\ \A x \in ToSet(group.rules) :
       /\ IsList(x.paths)
       /\ \A p \in ToSet(x.paths) : \E o \in Occurrences : KeyFor(o) = k /\ o.ing = x.ing /\ o.path = p

(* Rules have no filters, and as many backends as sources.                 *)
RouteParts == {"ns", "name", "parent", "host", "rules", "sources"}

RuleParts == {"matches", "filters", "backends"}

Even(r) ==
  /\ DOMAIN r = RouteParts
  /\ IsList(r.rules) /\ IsList(r.sources)
  /\ \A i \in DOMAIN r.sources : IsList(r.sources[i])
  /\ \A i \in DOMAIN r.rules :
       /\ i \in DOMAIN r.sources
       /\ IsList(r.rules[i].backends)
       /\ DOMAIN r.rules[i].backends = DOMAIN r.sources[i]
       /\ DOMAIN r.rules[i] = RuleParts /\ r.rules[i].filters = <<>>

NoneEmpty(r) == \A i \in DOMAIN r.rules : r.rules[i].backends # <<>>

(* The route serves the path.                                              *)
Serves(r, o) ==
  /\ r.ns = o.ns /\ r.host = o.host /\ r.parent = o.class
  /\ \E i \in DOMAIN r.rules :
       /\ r.rules[i].matches = MatchOf(o)
       /\ \E j \in DOMAIN r.rules[i].backends :
            /\ r.rules[i].backends[j] = ToBackendRef(o.ns, o.path.backend)
            /\ r.sources[i][j] = [ing |-> o.ing, backend |-> o.path.backend, default |-> FALSE]

(* What a path of a group was in the input, and the other way round.       *)
LEMMA PathAsked ==
  ASSUME NEW k, NEW group, HoldsAsked(k, group)
  PROVE  /\ IsList(PathsOf(group))
         /\ \A q \in ToSet(PathsOf(group)) : \E o \in Occurrences :
              /\ KeyFor(o) = k /\ o.ing = q.ing
              /\ o.path.backend = q.backend /\ MatchKey(o.path) = MatchKey(q)
         /\ \A o : Holding(group, o) => Placed(o.ing, o.path) \in ToSet(PathsOf(group))
<1>1. IsList(group.rules) /\ \A x \in ToSet(group.rules) : IsList(x.paths)
  BY DEF HoldsAsked
<1>2. /\ IsList(PathsOf(group))
      /\ \A q : q \in ToSet(PathsOf(group)) <=>
                  \E x \in ToSet(group.rules) : \E p \in ToSet(x.paths) : q = Placed(x.ing, p)
  BY <1>1, PathsHold
<1>3. ASSUME NEW q \in ToSet(PathsOf(group))
      PROVE  \E o \in Occurrences : /\ KeyFor(o) = k /\ o.ing = q.ing
                                    /\ o.path.backend = q.backend /\ MatchKey(o.path) = MatchKey(q)
  <2>1. PICK x \in ToSet(group.rules) : \E p \in ToSet(x.paths) : q = Placed(x.ing, p)
    BY <1>2
  <2>2. PICK p \in ToSet(x.paths) : q = Placed(x.ing, p)
    BY <2>1
  <2>3. PICK o \in Occurrences : KeyFor(o) = k /\ o.ing = x.ing /\ o.path = p
    BY DEF HoldsAsked
  <2>4. q.ing = x.ing /\ q.backend = p.backend /\ q.type = p.type /\ q.path = p.path
    BY <2>2 DEF Placed
  <2>5. MatchKey(o.path) = MatchKey(q)
    BY <2>3, <2>4 DEF MatchKey
  <2> QED
    BY <2>3, <2>4, <2>5
<1>4. \A o : Holding(group, o) => Placed(o.ing, o.path) \in ToSet(PathsOf(group))
  BY <1>2 DEF Holding
<1> QED
  BY <1>2, <1>3, <1>4

(* The errors of a group are those of its paths.                           *)
LEMMA GroupErrors ==
  ASSUME NEW k, NEW group
  PROVE  RouteErrors(k, group) = {} <=>
           \A q \in ToSet(PathsOf(group)) :
             Allowed(k, MatchKey(q)) /\ ToBackendRef(k.ns, q.backend) # NoRef
<1> DEFINE paths == ToSet(PathsOf(group))
           S == {q \in paths : k.protocol = "http" /\ ~Convertible(MatchKey(q))}
           T == {q \in paths : /\ k.protocol = "http" => Convertible(MatchKey(q))
                               /\ ToBackendRef(k.ns, q.backend) = NoRef}
<1>1. RouteErrors(k, group) = {<<"pathType", q.ing>> : q \in S} \cup {<<"port", q.ing>> : q \in T}
  BY DEF RouteErrors
<1>2. \A q : q \in S <=> q \in paths /\ ~Allowed(k, MatchKey(q))
  BY DEF Allowed
<1>3. \A q : q \in T <=> q \in paths /\ Allowed(k, MatchKey(q)) /\ ToBackendRef(k.ns, q.backend) = NoRef
  BY DEF Allowed
<1> HIDE DEF paths, S, T
<1>4. RouteErrors(k, group) = {} <=> S = {} /\ T = {}
  BY <1>1
<1>5. S = {} <=> \A q \in paths : Allowed(k, MatchKey(q))
  BY <1>2
<1>6. T = {} <=> \A q \in paths : ~(Allowed(k, MatchKey(q)) /\ ToBackendRef(k.ns, q.backend) = NoRef)
  BY <1>3
<1> QED
  BY <1>4, <1>5, <1>6 DEF paths

(* The paths of a key are those paths that have it.                        *)
LEMMA KeyPaths ==
  ASSUME NEW paths, IsList(paths), NEW c
  PROVE  /\ IsList(WithKey(paths, c))
         /\ \A q : q \in ToSet(WithKey(paths, c)) <=> q \in ToSet(paths) /\ MatchKey(q) = c
<1> DEFINE S == {q \in ToSet(paths) : MatchKey(q) = c}
<1>1. \A q : q \in S <=> q \in ToSet(paths) /\ MatchKey(q) = c
  OBVIOUS
<1>2. WithKey(paths, c) = Keep(paths, S)
  BY DEF WithKey
<1> HIDE DEF S
<1>3. IsList(Keep(paths, S)) /\ ToSet(Keep(paths, S)) = ToSet(paths) \cap S
  BY KeepList
<1> QED
  BY <1>1, <1>2, <1>3

(* The fields of a route are those of its key.                             *)
LEMMA RouteFields ==
  ASSUME NEW k, NEW group
  PROVE  /\ RouteFor(k, group).ns = k.ns
         /\ RouteFor(k, group).parent = k.class
         /\ RouteFor(k, group).host = k.host
         /\ DOMAIN RouteFor(k, group) = RouteParts
BY DEF RouteFor, ToHTTPRoute, ToGRPCRoute, Route, RouteParts

(* A rule of a route, and the paths that its backends are of.              *)
Rules(r, i, k, paths, c) ==
  /\ r.rules[i].matches = MatchFor(k, c) /\ r.rules[i].filters = <<>>
  /\ DOMAIN r.rules[i] = RuleParts
  /\ Pairwise(r.rules[i].backends, r.sources[i], k.ns, WithKey(paths, c))

(* A rule has the paths of its key and the backends of these paths; each   *)
(* key of a path that the protocol allows has a rule.                      *)
LEMMA RuleMade ==
  ASSUME NEW k, NEW paths, IsList(paths), NEW r, MadeFrom(r, k, paths)
  PROVE  /\ \A i \in DOMAIN r.rules : \E q \in ToSet(paths) :
              Allowed(k, MatchKey(q)) /\ Rules(r, i, k, paths, MatchKey(q))
         /\ \A q \in ToSet(paths) : Allowed(k, MatchKey(q)) =>
              \E i \in DOMAIN r.rules : Rules(r, i, k, paths, MatchKey(q))
<1>1. ASSUME NEW i, NEW c, RuleAt(r, i, k, paths, c) PROVE Rules(r, i, k, paths, c)
  <2>1. IsList(WithKey(paths, c))
    BY KeyPaths
  <2>2. Pairwise(Backends(k.ns, WithKey(paths, c)), Sources(k.ns, WithKey(paths, c)), k.ns, WithKey(paths, c))
    BY <2>1, BackendsHold
  <2>3. /\ r.rules[i].matches = MatchFor(k, c) /\ r.rules[i].filters = <<>>
        /\ r.rules[i].backends = Backends(k.ns, WithKey(paths, c))
        /\ r.sources[i] = Sources(k.ns, WithKey(paths, c))
        /\ DOMAIN r.rules[i] = RuleParts
    BY <1>1 DEF RuleAt, RuleFor, RuleParts
  <2> QED
    BY <2>2, <2>3 DEF Rules
<1> QED
  BY <1>1 DEF MadeFrom

(* The route of a group that has what was asked for is made of its paths.  *)
LEMMA RouteHolds ==
  ASSUME NEW k, NEW group, HoldsAsked(k, group), NEW r, r = RouteFor(k, group),
         NEW paths, paths = PathsOf(group)
  PROVE  /\ IsList(paths) /\ IsList(r.rules) /\ IsList(r.sources) /\ DOMAIN r.rules = DOMAIN r.sources
         /\ \A i \in DOMAIN r.rules : \E q \in ToSet(paths) :
              Allowed(k, MatchKey(q)) /\ Rules(r, i, k, paths, MatchKey(q))
         /\ \A q \in ToSet(paths) : Allowed(k, MatchKey(q)) =>
              \E i \in DOMAIN r.rules : Rules(r, i, k, paths, MatchKey(q))
<1>1. IsList(paths)
  BY PathAsked
<1>2. MadeFrom(r, k, paths)
  BY <1>1, RouteMade
<1>3. IsList(r.rules) /\ IsList(r.sources) /\ DOMAIN r.rules = DOMAIN r.sources
  BY <1>2 DEF MadeFrom
<1> QED
  BY <1>1, <1>2, <1>3, RuleMade

(* Its backends and sources are side by side.                              *)
LEMMA RouteEven ==
  ASSUME NEW k, NEW group, HoldsAsked(k, group)
  PROVE  Even(RouteFor(k, group))
<1> PICK r : r = RouteFor(k, group)
  OBVIOUS
<1> PICK paths : paths = PathsOf(group)
  OBVIOUS
<1>1. /\ IsList(r.rules) /\ IsList(r.sources) /\ DOMAIN r.rules = DOMAIN r.sources
      /\ \A i \in DOMAIN r.rules : \E q \in ToSet(paths) : Rules(r, i, k, paths, MatchKey(q))
  BY RouteHolds
<1>2. \A i \in DOMAIN r.rules :
        /\ IsList(r.rules[i].backends) /\ IsList(r.sources[i])
        /\ DOMAIN r.rules[i].backends = DOMAIN r.sources[i]
        /\ DOMAIN r.rules[i] = RuleParts /\ r.rules[i].filters = <<>>
  BY <1>1 DEF Rules, Pairwise
<1> QED
  BY <1>1, <1>2, RouteFields DEF Even

(* The match of a path depends on its key alone.                           *)
LEMMA MatchSame ==
  ASSUME NEW k, k.protocol \in {"http", "grpc"}, NEW o, KeyFor(o) = k
  PROVE  /\ MatchOf(o) = MatchFor(k, MatchKey(o.path))
         /\ o.ns = k.ns /\ o.class = k.class /\ o.host = k.host /\ o.protocol = k.protocol
BY DEF MatchOf, MatchFor, KeyFor

(* Its backends are those of paths on its host and gateway.                *)
LEMMA RouteAsked ==
  ASSUME NEW k, k.protocol \in {"http", "grpc"}, NEW group, HoldsAsked(k, group)
  PROVE  AskedFor(RouteFor(k, group), k.protocol)
<1> PICK r : r = RouteFor(k, group)
  OBVIOUS
<1> PICK paths : paths = PathsOf(group)
  OBVIOUS
<1>1. /\ IsList(paths)
      /\ \A i \in DOMAIN r.rules : \E q \in ToSet(paths) : Rules(r, i, k, paths, MatchKey(q))
  BY RouteHolds
<1>2. \A q \in ToSet(paths) : \E o \in Occurrences :
        /\ KeyFor(o) = k /\ o.ing = q.ing
        /\ o.path.backend = q.backend /\ MatchKey(o.path) = MatchKey(q)
  BY PathAsked
<1>3. r.ns = k.ns /\ r.parent = k.class /\ r.host = k.host
  BY RouteFields
<1> SUFFICES ASSUME NEW i \in DOMAIN r.rules, NEW j \in DOMAIN r.rules[i].backends
             PROVE  LET s == r.sources[i][j] IN
               /\ r.rules[i].backends[j] = ToBackendRef(r.ns, s.backend)
               /\ ~s.default
               /\ \E o \in Occurrences :
                    /\ o.ing = s.ing /\ o.path.backend = s.backend
                    /\ o.protocol = k.protocol /\ o.ns = r.ns /\ o.class = r.parent
                    /\ r.host = o.host /\ r.rules[i].matches = MatchOf(o)
  BY DEF AskedFor
<1>4. PICK p \in ToSet(paths) : Rules(r, i, k, paths, MatchKey(p))
  BY <1>1
<1>5. PICK q \in ToSet(WithKey(paths, MatchKey(p))) :
        r.rules[i].backends[j] = ToBackendRef(k.ns, q.backend) /\ r.sources[i][j] = SourceOf(q)
  BY <1>4 DEF Rules, Pairwise
<1>6. q \in ToSet(paths) /\ MatchKey(q) = MatchKey(p)
  BY <1>1, KeyPaths
<1>7. PICK o \in Occurrences : /\ KeyFor(o) = k /\ o.ing = q.ing
                               /\ o.path.backend = q.backend /\ MatchKey(o.path) = MatchKey(q)
  BY <1>2, <1>6
<1>8. /\ r.rules[i].matches = MatchOf(o)
      /\ o.ns = k.ns /\ o.class = k.class /\ o.host = k.host /\ o.protocol = k.protocol
  BY <1>4, <1>6, <1>7, MatchSame DEF Rules
<1>9. r.sources[i][j].ing = q.ing /\ r.sources[i][j].backend = q.backend /\ ~r.sources[i][j].default
  BY <1>5 DEF SourceOf
<1> QED
  BY <1>3, <1>5, <1>7, <1>8, <1>9

(* It serves every path of the group that can be converted.                *)
LEMMA RouteServes ==
  ASSUME NEW k, k.protocol \in {"http", "grpc"}, NEW group, HoldsAsked(k, group),
         NEW o, KeyFor(o) = k, Holding(group, o), ~Refused(o)
  PROVE  Serves(RouteFor(k, group), o)
<1> PICK r : r = RouteFor(k, group)
  OBVIOUS
<1> PICK paths : paths = PathsOf(group)
  OBVIOUS
<1> PICK q : q = Placed(o.ing, o.path)
  OBVIOUS
<1>1. /\ q.ing = o.ing /\ q.backend = o.path.backend
      /\ MatchKey(q) = MatchKey(o.path)
  BY DEF Placed, MatchKey
<1>2. q \in ToSet(paths) /\ IsList(paths)
  BY PathAsked
<1>3. /\ MatchOf(o) = MatchFor(k, MatchKey(q))
      /\ o.ns = k.ns /\ o.class = k.class /\ o.host = k.host /\ o.protocol = k.protocol
  BY <1>1, MatchSame
<1>4. Allowed(k, MatchKey(q)) /\ ToBackendRef(k.ns, q.backend) # NoRef
  BY <1>1, <1>3 DEF Refused, Allowed
<1>5. PICK i \in DOMAIN r.rules : Rules(r, i, k, paths, MatchKey(q))
  BY <1>2, <1>4, RouteHolds
<1>6. q \in ToSet(WithKey(paths, MatchKey(q)))
  BY <1>2, KeyPaths
<1>7. \E j \in DOMAIN r.rules[i].backends :
        r.rules[i].backends[j] = ToBackendRef(k.ns, q.backend) /\ r.sources[i][j] = SourceOf(q)
  BY <1>4, <1>5, <1>6 DEF Rules, Pairwise
<1>8. r.ns = k.ns /\ r.parent = k.class /\ r.host = k.host
  BY RouteFields
<1>9. SourceOf(q) = [ing |-> o.ing, backend |-> o.path.backend, default |-> FALSE]
  BY <1>1 DEF SourceOf
<1>10. r.rules[i].matches = MatchOf(o)
  BY <1>3, <1>5 DEF Rules
<1> QED
  BY <1>1, <1>3, <1>7, <1>8, <1>9, <1>10 DEF Serves

(* A path that cannot be converted is an error of its group.               *)
LEMMA RouteRefuses ==
  ASSUME NEW k, k.protocol \in {"http", "grpc"}, NEW group, HoldsAsked(k, group),
         NEW o, KeyFor(o) = k, Holding(group, o), Refused(o)
  PROVE  RouteErrors(k, group) # {}
<1> PICK q : q = Placed(o.ing, o.path)
  OBVIOUS
<1>1. /\ q.ing = o.ing /\ q.backend = o.path.backend
      /\ MatchKey(q) = MatchKey(o.path)
  BY DEF Placed, MatchKey
<1>2. q \in ToSet(PathsOf(group))
  BY PathAsked
<1>3. o.ns = k.ns /\ o.protocol = k.protocol
  BY MatchSame
<1>4. ~(Allowed(k, MatchKey(q)) /\ ToBackendRef(k.ns, q.backend) # NoRef)
  BY <1>1, <1>3 DEF Refused, Allowed
<1> QED
  BY <1>2, <1>4, GroupErrors

(* What ToIR refuses of the input.                                         *)
LEMMA RefusedIsDefect ==
  ASSUME NEW o \in Occurrences, Refused(o)
  PROVE  Defective
<1>1. MatchKey(o.path)[1] = o.path.type
  BY DEF MatchKey
<1> QED
  BY <1>1 DEF Refused, Convertible, Defective

(* An error of a group is that of a path which cannot be converted.        *)
LEMMA ErrorsAreDefects ==
  ASSUME NEW k, k.protocol \in {"http", "grpc"}, NEW group, HoldsAsked(k, group),
         RouteErrors(k, group) # {}
  PROVE  Defective
<1>1. PICK q \in ToSet(PathsOf(group)) :
        ~(Allowed(k, MatchKey(q)) /\ ToBackendRef(k.ns, q.backend) # NoRef)
  BY GroupErrors
<1>2. PICK o \in Occurrences : /\ KeyFor(o) = k /\ o.ing = q.ing
                               /\ o.path.backend = q.backend /\ MatchKey(o.path) = MatchKey(q)
  BY <1>1, PathAsked
<1>3. o.ns = k.ns /\ o.protocol = k.protocol
  BY <1>2, MatchSame
<1>4. Refused(o)
  BY <1>1, <1>2, <1>3 DEF Refused, Allowed
<1> QED
  BY <1>4, RefusedIsDefect

(* Without errors no rule of the route is without backends.                *)
LEMMA RouteFull ==
  ASSUME NEW k, NEW group, HoldsAsked(k, group), RouteErrors(k, group) = {}
  PROVE  NoneEmpty(RouteFor(k, group))
<1> PICK r : r = RouteFor(k, group)
  OBVIOUS
<1> PICK paths : paths = PathsOf(group)
  OBVIOUS
<1> SUFFICES ASSUME NEW i \in DOMAIN r.rules PROVE r.rules[i].backends # <<>>
  BY DEF NoneEmpty
<1>1. IsList(paths)
  BY PathAsked
<1>2. PICK q \in ToSet(paths) : Rules(r, i, k, paths, MatchKey(q))
  BY RouteHolds
<1>3. q \in ToSet(WithKey(paths, MatchKey(q)))
  BY <1>1, KeyPaths
<1>4. ToBackendRef(k.ns, q.backend) # NoRef
  BY GroupErrors
<1>5. \E j : j \in DOMAIN r.rules[i].backends
  BY <1>2, <1>3, <1>4 DEF Rules, Pairwise
<1> QED
  BY <1>5

-----------------------------------------------------------------------------
(* The invariant about paths.  Every path is with its group until a route  *)
(* serves it, and whatever is on the way was asked for.                    *)

(* Some Ingress has a rule, and so asks for the gateway.                   *)
AskedGateway(gw) == \E ing \in Ingresses : ing.rules # <<>> /\ <<ing.ns, ing.class>> = gw

(* The path is in a group, or was converted, or something was wrong.       *)
Kept(o) ==
  \/ KeyFor(o) \in DOMAIN groups /\ Holding(groups[KeyFor(o)], o)
  \/ ~Refused(o) /\ \E r \in ToSet(Made[o.protocol]) : Serves(r, o)
  \/ errors # {}

(* The gateway will be built, or something was wrong.                      *)
Pending(gw) ==
  \/ \E k \in DOMAIN groups : GatewayKey(k) = gw
  \/ gw \in DOMAIN listeners
  \/ errors # {}

AskedInv ==
  /\ \A k \in DOMAIN groups :
       k.protocol \in {"http", "grpc"} /\ AskedGateway(GatewayKey(k)) /\ HoldsAsked(k, groups[k])
  /\ \A gw \in DOMAIN listeners : AskedGateway(gw)
  /\ \A d \in ToSet(defaults) : \E ing \in Ingresses : ing.default # NoBackend /\ d = DefaultOf(ing)

MadeInv ==
  \A protocol \in {"http", "grpc"} : \A r \in ToSet(Made[protocol]) :
    Even(r) /\ AskedFor(r, protocol) /\ (errors = {} => NoneEmpty(r))

KeptInv ==
  pc # "add" =>
    /\ \A o \in Occurrences : Kept(o)
    /\ \A ing \in Ingresses :
         /\ ing.rules # <<>> /\ ing.class \in SlashedClasses => Pending(<<ing.ns, ing.class>>)
         /\ ing.default # NoBackend => DefaultOf(ing) \in ToSet(defaults)

DefaultsInv ==
  pc \in {"gateways", "done"} =>
    \A d \in ToSet(defaults) : ToBackendRef(d.ns, d.backend) = NoRef => errors # {}

PathsInv == AskedInv /\ MadeInv /\ KeptInv /\ DefaultsInv /\ (errors # {} => Defective)

(* The paths of the input, one for each place it has.                      *)
LEMMA OccurrenceShape ==
  \A o : o \in Occurrences <=>
    \E protocol \in {"http", "grpc"} : \E ing \in ToSet(input[protocol]) :
      \E rule \in ToSet(ing.rules) : \E p \in ToSet(rule.paths) : o = Occurrence(protocol, ing, rule, p)
BY DEF Occurrences

(* What the input asks for stays as long as the input does.                *)
LEMMA OccurrencesStay ==
  ASSUME input' = input
  PROVE  Occurrences' = Occurrences
<1>1. \A o : o \in Occurrences' <=>
        \E protocol \in {"http", "grpc"} : \E ing \in ToSet(input[protocol]) :
          \E rule \in ToSet(ing.rules) : \E p \in ToSet(rule.paths) : o = Occurrence(protocol, ing, rule, p)
  BY DEF Occurrences
<1> QED
  BY <1>1, OccurrenceShape

(* And so does what is wrong with it.                                      *)
LEMMA DefectsStay ==
  ASSUME input' = input
  PROVE  Defective' <=> Defective
BY InputStays, OccurrencesStay DEF Defective

(* What was asked for has been asked for since the start.                  *)
LEMMA AskedStays ==
  ASSUME input' = input
  PROVE  /\ \A r, protocol : AskedFor(r, protocol)' <=> AskedFor(r, protocol)
         /\ \A k, group : HoldsAsked(k, group)' <=> HoldsAsked(k, group)
         /\ \A gw : AskedGateway(gw)' <=> AskedGateway(gw)
<1>1. Occurrences' = Occurrences /\ Ingresses' = Ingresses
  BY InputStays, OccurrencesStay
<1>2. \A r, protocol : AskedFor(r, protocol)' <=> AskedFor(r, protocol)
  BY <1>1 DEF AskedFor
<1>3. \A k, group : HoldsAsked(k, group)' <=> HoldsAsked(k, group)
  BY <1>1 DEF HoldsAsked
<1>4. \A gw : AskedGateway(gw)' <=> AskedGateway(gw)
  BY <1>1 DEF AskedGateway
<1> QED
  BY <1>2, <1>3, <1>4

(* There are no paths in groups and routes before addIngress.              *)
LEMMA InitPaths == Init => PathsInv
<1> SUFFICES ASSUME Init PROVE PathsInv
  OBVIOUS
<1>1. /\ pc = "add" /\ groups = <<>> /\ defaults = <<>> /\ errors = {}
      /\ httpRoutes = <<>> /\ grpcRoutes = <<>> /\ listeners = <<>>
  BY DEF Init
<1>2. DOMAIN groups = {} /\ DOMAIN listeners = {} /\ ToSet(defaults) = {}
  BY <1>1, EmptyList
<1>3. AskedInv
  BY <1>2 DEF AskedInv
<1>4. MadeInv
  <2>1. ToSet(Made.http) = {} /\ ToSet(Made.grpc) = {}
    BY <1>1, EmptyList DEF Made
  <2> QED
    BY <2>1 DEF MadeInv
<1>5. KeptInv /\ DefaultsInv
  BY <1>1 DEF KeptInv, DefaultsInv
<1> QED
  BY <1>1, <1>3, <1>4, <1>5 DEF PathsInv

(* What one rule of the input asks for.                                    *)
LEMMA RuleAsks ==
  ASSUME NEW protocol \in {"http", "grpc"}, NEW ing \in ToSet(input[protocol]), NEW rule \in ToSet(ing.rules),
         NEW a, a = Asks(ing, rule, protocol)
  PROVE  /\ KeyOf(a).protocol = protocol
         /\ GatewayKey(KeyOf(a)) = <<ing.ns, ing.class>>
         /\ Entry(a).ing = <<ing.ns, ing.name>> /\ Entry(a).paths = rule.paths
         /\ \A p \in ToSet(rule.paths) :
              /\ Occurrence(protocol, ing, rule, p) \in Occurrences
              /\ KeyFor(Occurrence(protocol, ing, rule, p)) = KeyOf(a)
              /\ Occurrence(protocol, ing, rule, p).ing = <<ing.ns, ing.name>>
              /\ Occurrence(protocol, ing, rule, p).path = p
              /\ Occurrence(protocol, ing, rule, p).protocol = protocol
<1>1. a.ing = ing /\ a.rule = rule /\ a.protocol = protocol
  BY DEF Asks
<1>2. KeyOf(a) = [ns |-> ing.ns, class |-> ing.class, host |-> rule.host, protocol |-> protocol]
  BY <1>1 DEF KeyOf, GroupKey
<1>3. GatewayKey(KeyOf(a)) = <<ing.ns, ing.class>> /\ KeyOf(a).protocol = protocol
  BY <1>2 DEF GatewayKey
<1>4. Entry(a).ing = <<ing.ns, ing.name>> /\ Entry(a).paths = rule.paths
  BY <1>1 DEF Entry
<1>5. ASSUME NEW p \in ToSet(rule.paths), NEW o, o = Occurrence(protocol, ing, rule, p)
      PROVE  /\ o \in Occurrences /\ KeyFor(o) = KeyOf(a)
             /\ o.ing = <<ing.ns, ing.name>> /\ o.path = p /\ o.protocol = protocol
  <2>1. o \in Occurrences
    BY <1>5, OccurrenceShape
  <2>2. /\ o.ns = ing.ns /\ o.class = ing.class /\ o.host = rule.host
        /\ o.ing = <<ing.ns, ing.name>> /\ o.path = p /\ o.protocol = protocol
    BY <1>5 DEF Occurrence
  <2>3. KeyFor(o) = KeyOf(a)
    BY <1>2, <2>2 DEF KeyFor
  <2> QED
    BY <2>1, <2>2, <2>3
<1> QED
  BY <1>3, <1>4, <1>5

(* After addIngress every path is with the group of its key.               *)
LEMMA AddPaths == IInv /\ PathsInv /\ AddIngresses => PathsInv'
<1> SUFFICES ASSUME IInv, PathsInv, AddIngresses PROVE PathsInv'
  OBVIOUS
<1> USE DEF IInv, PathsInv
<1>1. /\ pc = "add" /\ pc' = "groups"
      /\ UNCHANGED <<input, httpRoutes, grpcRoutes, listeners, gateways, errors, ir>>
  BY DEF AddIngresses
<1>2. PICK asked :
        /\ \A a \in asked : \E protocol \in {"http", "grpc"} : \E ing \in ToSet(input[protocol]) :
             \E rule \in ToSet(ing.rules) : a = Asks(ing, rule, protocol)
        /\ \A protocol \in {"http", "grpc"} : \A ing \in ToSet(input[protocol]) :
             \A rule \in ToSet(ing.rules) : Asks(ing, rule, protocol) \in asked
        /\ From(groups', asked) /\ \A a \in asked : GroupCovers(groups', a)
  BY GroupsOfInput
<1>3. \A ing \in Ingresses : IsList(ing.rules) /\ \A rule \in ToSet(ing.rules) : IsList(rule.paths)
  BY InputsAreLists DEF WellFormed
<1>4. Occurrences' = Occurrences /\ Ingresses' = Ingresses
  BY <1>1, InputStays, OccurrencesStay
<1>5. \A ing \in Ingresses : \E protocol \in {"http", "grpc"} : ing \in ToSet(input[protocol])
  BY DEF Ingresses
<1>6. \A protocol \in {"http", "grpc"} : \A ing \in ToSet(input[protocol]) : ing \in Ingresses
  BY DEF Ingresses
<1>7. \A ing \in Ingresses : ing.rules # <<>> <=> \E rule : rule \in ToSet(ing.rules)
  BY <1>3, ListShape
<1>8. ASSUME NEW k \in DOMAIN groups'
      PROVE  /\ k.protocol \in {"http", "grpc"} /\ AskedGateway(GatewayKey(k))
             /\ HoldsAsked(k, groups'[k])
  <2>1. PICK a \in asked : k = KeyOf(a)
    BY <1>2 DEF From
  <2>2. PICK protocol \in {"http", "grpc"} : \E ing \in ToSet(input[protocol]) :
          \E rule \in ToSet(ing.rules) : a = Asks(ing, rule, protocol)
    BY <1>2
  <2>3. PICK ing \in ToSet(input[protocol]) : \E rule \in ToSet(ing.rules) : a = Asks(ing, rule, protocol)
    BY <2>2
  <2>4. k.protocol = protocol /\ GatewayKey(k) = <<ing.ns, ing.class>> /\ ing.rules # <<>>
    BY <1>6, <1>7, <2>1, <2>3, RuleAsks
  <2>5. AskedGateway(GatewayKey(k))
    BY <1>6, <2>4 DEF AskedGateway
  <2>6. /\ IsList(groups'[k].rules)
        /\ \A x \in ToSet(groups'[k].rules) : \E b \in asked : k = KeyOf(b) /\ x = Entry(b)
    BY <1>2 DEF From
  <2>7. ASSUME NEW x \in ToSet(groups'[k].rules)
        PROVE  /\ IsList(x.paths)
               /\ \A p \in ToSet(x.paths) : \E o \in Occurrences : KeyFor(o) = k /\ o.ing = x.ing /\ o.path = p
    <3>1. PICK b \in asked : k = KeyOf(b) /\ x = Entry(b)
      BY <2>6
    <3>2. PICK second \in {"http", "grpc"} : \E i \in ToSet(input[second]) :
            \E rule \in ToSet(i.rules) : b = Asks(i, rule, second)
      BY <1>2
    <3>3. PICK i \in ToSet(input[second]) : \E rule \in ToSet(i.rules) : b = Asks(i, rule, second)
      BY <3>2
    <3>4. PICK rule \in ToSet(i.rules) : b = Asks(i, rule, second)
      BY <3>3
    <3>5. x.paths = rule.paths /\ IsList(rule.paths)
      BY <1>3, <1>6, <3>1, <3>4, RuleAsks
    <3>6. \A p \in ToSet(rule.paths) : LET o == Occurrence(second, i, rule, p) IN
            o \in Occurrences /\ KeyFor(o) = k /\ o.ing = x.ing /\ o.path = p
      BY <3>1, <3>4, RuleAsks
    <3> QED
      BY <3>5, <3>6
  <2> QED
    BY <2>4, <2>5, <2>6, <2>7 DEF HoldsAsked
<1>9. \A d \in ToSet(defaults') : \E ing \in Ingresses : ing.default # NoBackend /\ d = DefaultOf(ing)
  BY DefaultsOfInput
<1>10. AskedInv'
  <2>1. \A k \in DOMAIN groups' :
          /\ k.protocol \in {"http", "grpc"} /\ AskedGateway(GatewayKey(k))'
          /\ HoldsAsked(k, groups[k])'
    BY <1>1, <1>8, AskedStays
  <2>2. \A gw \in DOMAIN listeners' : AskedGateway(gw)'
    BY <1>1, AskedStays DEF AskedInv
  <2>3. \A d \in ToSet(defaults') : \E ing \in Ingresses' : ing.default # NoBackend /\ d = DefaultOf(ing)
    BY <1>4, <1>9
  <2> QED
    BY <2>1, <2>2, <2>3 DEF AskedInv
<1>11. MadeInv'
  BY <1>1, AskedStays DEF MadeInv, Made
<1>12. ASSUME NEW o \in Occurrences PROVE KeyFor(o) \in DOMAIN groups' /\ Holding(groups'[KeyFor(o)], o)
  <2>1. PICK protocol \in {"http", "grpc"} : \E ing \in ToSet(input[protocol]) :
          \E rule \in ToSet(ing.rules) : \E p \in ToSet(rule.paths) : o = Occurrence(protocol, ing, rule, p)
    BY OccurrenceShape
  <2>2. PICK ing \in ToSet(input[protocol]) :
          \E rule \in ToSet(ing.rules) : \E p \in ToSet(rule.paths) : o = Occurrence(protocol, ing, rule, p)
    BY <2>1
  <2>3. PICK rule \in ToSet(ing.rules) : \E p \in ToSet(rule.paths) : o = Occurrence(protocol, ing, rule, p)
    BY <2>2
  <2>4. PICK p \in ToSet(rule.paths) : o = Occurrence(protocol, ing, rule, p)
    BY <2>3
  <2> PICK a : a = Asks(ing, rule, protocol)
    OBVIOUS
  <2>5. KeyFor(o) = KeyOf(a) /\ o.ing = Entry(a).ing /\ o.path = p /\ Entry(a).paths = rule.paths
    BY <2>4, RuleAsks
  <2>6. GroupCovers(groups', a)
    BY <1>2
  <2> QED
    BY <2>4, <2>5, <2>6 DEF GroupCovers, Holding
<1>13. ASSUME NEW ing \in Ingresses, ing.rules # <<>>
       PROVE  \E k \in DOMAIN groups' : GatewayKey(k) = <<ing.ns, ing.class>>
  <2>1. PICK protocol \in {"http", "grpc"} : ing \in ToSet(input[protocol])
    BY <1>5
  <2>2. PICK rule : rule \in ToSet(ing.rules)
    BY <1>7, <1>13
  <2> PICK a : a = Asks(ing, rule, protocol)
    OBVIOUS
  <2>3. GatewayKey(KeyOf(a)) = <<ing.ns, ing.class>>
    BY <2>1, <2>2, RuleAsks
  <2>4. GroupCovers(groups', a)
    BY <1>2, <2>1, <2>2
  <2> QED
    BY <2>3, <2>4 DEF GroupCovers
<1>14. KeptInv'
  <2>1. \A o \in Occurrences' : Kept(o)'
    BY <1>4, <1>12 DEF Kept
  <2>2. \A ing \in Ingresses' : ing.rules # <<>> => Pending(<<ing.ns, ing.class>>)'
    BY <1>4, <1>13 DEF Pending
  <2>3. \A ing \in Ingresses' : ing.default # NoBackend => DefaultOf(ing) \in ToSet(defaults')
    BY <1>4, DefaultsOfInput
  <2> QED
    BY <2>1, <2>2, <2>3 DEF KeptInv
<1>15. DefaultsInv'
  BY <1>1 DEF DefaultsInv
<1>16. errors' # {} => Defective'
  BY <1>1, DefectsStay
<1> QED
  BY <1>10, <1>11, <1>14, <1>15, <1>16

(* The route of a group is added to those of its protocol.                 *)
Appended(protocol, route) ==
  /\ protocol = "http" => httpRoutes' = Append(httpRoutes, route) /\ grpcRoutes' = grpcRoutes
  /\ protocol = "grpc" => grpcRoutes' = Append(grpcRoutes, route) /\ httpRoutes' = httpRoutes

Grows(asked, route) ==
  \A protocol \in {"http", "grpc"} :
    ToSet(Made'[protocol]) = ToSet(Made[protocol]) \cup (IF protocol = asked THEN {route} ELSE {})

(* A route appended for one protocol is the only one added.                *)
LEMMA RouteAdded ==
  ASSUME IsList(httpRoutes), IsList(grpcRoutes),
         NEW protocol \in {"http", "grpc"}, NEW route, Appended(protocol, route)
  PROVE  Grows(protocol, route)
<1>1. \A s : IsList(s) => ToSet(Append(s, route)) = ToSet(s) \cup {route}
  <2> SUFFICES ASSUME NEW s, IsList(s) PROVE ToSet(Append(s, route)) = ToSet(s) \cup {route}
    OBVIOUS
  <2> DEFINE X == ToSet(s) \cup {route}
  <2>1. s \in Seq(X) /\ route \in X
    BY ListShape
  <2> HIDE DEF X
  <2> QED
    BY <2>1, AppendHolds
<1>2. /\ Made.http = httpRoutes /\ Made.grpc = grpcRoutes
      /\ Made'.http = httpRoutes' /\ Made'.grpc = grpcRoutes'
  BY DEF Made
<1>3. CASE protocol = "http"
  <2>1. ToSet(Made'.http) = ToSet(Made.http) \cup {route} /\ Made'.grpc = Made.grpc
    BY <1>1, <1>2, <1>3 DEF Appended
  <2> QED
    BY <1>3, <2>1 DEF Grows
<1>4. CASE protocol = "grpc"
  <2>1. ToSet(Made'.grpc) = ToSet(Made.grpc) \cup {route} /\ Made'.http = Made.http
    BY <1>1, <1>2, <1>4 DEF Appended
  <2> QED
    BY <1>4, <2>1 DEF Grows
<1> QED
  BY <1>3, <1>4

(* The paths of the group go to its route, or are reported.                *)
LEMMA GroupPaths == IInv /\ PathsInv /\ ConvertGroup => PathsInv'
<1> SUFFICES ASSUME IInv, PathsInv, ConvertGroup PROVE PathsInv'
  OBVIOUS
<1> USE DEF IInv, PathsInv
<1>1. PICK k \in DOMAIN groups :
        /\ groups' = [o \in DOMAIN groups \ {k} |-> groups[o]]
        /\ listeners' = WithWished(listeners, GatewayKey(k), ToListener(k, groups[k]))
        /\ IF k.protocol = "http"
           THEN /\ httpRoutes' = Append(httpRoutes, ToHTTPRoute(k, groups[k]))
                /\ UNCHANGED grpcRoutes
           ELSE /\ grpcRoutes' = Append(grpcRoutes, ToGRPCRoute(k, groups[k]))
                /\ UNCHANGED httpRoutes
        /\ errors' = errors \cup RouteErrors(k, groups[k])
  BY DEF ConvertGroup
<1>2. pc = "groups" /\ UNCHANGED <<input, pc, defaults, gateways, ir>>
  BY DEF ConvertGroup
<1> PICK group : group = groups[k]
  OBVIOUS
<1> PICK gw : gw = GatewayKey(k)
  OBVIOUS
<1> PICK route : route = RouteFor(k, group)
  OBVIOUS
<1>3. k.protocol \in {"http", "grpc"} /\ AskedGateway(gw) /\ HoldsAsked(k, group)
  BY DEF AskedInv
<1>4. \A protocol \in {"http", "grpc"} :
        ToSet(Made'[protocol]) = ToSet(Made[protocol]) \cup (IF protocol = k.protocol THEN {route} ELSE {})
  <2>1. Appended(k.protocol, route)
    BY <1>1 DEF RouteFor, Appended
  <2>2. IsList(httpRoutes) /\ IsList(grpcRoutes)
    BY DEF RoutesInv
  <2>3. Grows(k.protocol, route)
    BY <1>3, <2>1, <2>2, RouteAdded
  <2> QED
    BY <2>3 DEF Grows
<1>5. \A o \in DOMAIN groups \ {k} : o \in DOMAIN groups' /\ groups'[o] = groups[o]
  BY <1>1
<1>6. DOMAIN groups' = DOMAIN groups \ {k}
  BY <1>1
<1>7. DOMAIN listeners' = DOMAIN listeners \cup {gw}
  BY <1>1 DEF WithWished
<1>8. Occurrences' = Occurrences /\ Ingresses' = Ingresses
  BY <1>2, InputStays, OccurrencesStay
<1>9. errors' = errors \cup RouteErrors(k, group)
  BY <1>1
<1>10. AskedInv'
  <2>1. \A o \in DOMAIN groups' :
          /\ o.protocol \in {"http", "grpc"} /\ AskedGateway(GatewayKey(o))'
          /\ HoldsAsked(o, groups[o])'
    <3> SUFFICES ASSUME NEW o \in DOMAIN groups'
                 PROVE  /\ o.protocol \in {"http", "grpc"} /\ AskedGateway(GatewayKey(o))'
                        /\ HoldsAsked(o, groups[o])'
      OBVIOUS
    <3>1. o \in DOMAIN groups /\ groups'[o] = groups[o]
      BY <1>5, <1>6
    <3>2. o.protocol \in {"http", "grpc"} /\ AskedGateway(GatewayKey(o)) /\ HoldsAsked(o, groups'[o])
      BY <3>1 DEF AskedInv
    <3> QED
      BY <1>2, <3>2, AskedStays
  <2>2. \A g \in DOMAIN listeners' : AskedGateway(g)'
    BY <1>2, <1>3, <1>7, AskedStays DEF AskedInv
  <2>3. \A d \in ToSet(defaults') : \E ing \in Ingresses' : ing.default # NoBackend /\ d = DefaultOf(ing)
    BY <1>2, <1>8 DEF AskedInv
  <2> QED
    BY <2>1, <2>2, <2>3 DEF AskedInv
<1>11. MadeInv'
  <2> SUFFICES ASSUME NEW protocol \in {"http", "grpc"}, NEW r \in ToSet(Made'[protocol])
               PROVE  Even(r) /\ AskedFor(r, protocol)' /\ (errors' = {} => NoneEmpty(r))
    BY DEF MadeInv
  <2>1. CASE r \in ToSet(Made[protocol])
    <3>1. Even(r) /\ AskedFor(r, protocol) /\ (errors = {} => NoneEmpty(r))
      BY <2>1 DEF MadeInv
    <3>2. errors' = {} => errors = {}
      BY <1>9
    <3> QED
      BY <1>2, <3>1, <3>2, AskedStays
  <2>2. CASE protocol = k.protocol /\ r = route
    <3>1. Even(r) /\ AskedFor(r, protocol)
      BY <1>3, <2>2, RouteEven, RouteAsked
    <3>2. errors' = {} => NoneEmpty(r)
      BY <1>3, <1>9, <2>2, RouteFull
    <3> QED
      BY <1>2, <3>1, <3>2, AskedStays
  <2> QED
    BY <1>4, <2>1, <2>2
<1>12. ASSUME NEW o \in Occurrences PROVE Kept(o)'
  <2>1. Kept(o)
    BY <1>2 DEF KeptInv
  <2>2. o.protocol \in {"http", "grpc"}
    BY OccurrenceShape DEF Occurrence
  <2>3. CASE KeyFor(o) \in DOMAIN groups /\ Holding(groups[KeyFor(o)], o)
    <3>1. CASE KeyFor(o) # k
      BY <1>5, <2>3, <3>1 DEF Kept
    <3>2. CASE KeyFor(o) = k /\ Refused(o)
      <4>1. RouteErrors(k, group) # {}
        BY <1>3, <2>3, <3>2, RouteRefuses
      <4> QED
        BY <1>9, <4>1 DEF Kept
    <3>3. CASE KeyFor(o) = k /\ ~Refused(o)
      <4>1. Serves(route, o)
        BY <1>3, <2>3, <3>3, RouteServes
      <4>2. o.protocol = k.protocol
        BY <3>3 DEF KeyFor
      <4>3. route \in ToSet(Made'[o.protocol])
        BY <1>3, <1>4, <4>2
      <4> QED
        BY <3>3, <4>1, <4>3 DEF Kept
    <3> QED
      BY <3>1, <3>2, <3>3
  <2>4. CASE ~Refused(o) /\ \E r \in ToSet(Made[o.protocol]) : Serves(r, o)
    BY <1>4, <2>2, <2>4 DEF Kept
  <2>5. CASE errors # {}
    BY <1>9, <2>5 DEF Kept
  <2> QED
    BY <2>1, <2>3, <2>4, <2>5 DEF Kept
<1>13. ASSUME NEW g, Pending(g) PROVE Pending(g)'
  <2>1. CASE \E o \in DOMAIN groups : GatewayKey(o) = g
    <3>1. CASE g = gw
      BY <1>7, <3>1 DEF Pending
    <3>2. CASE g # gw
      BY <1>6, <2>1, <3>2 DEF Pending
    <3> QED
      BY <3>1, <3>2
  <2>2. CASE g \in DOMAIN listeners
    BY <1>7, <2>2 DEF Pending
  <2>3. CASE errors # {}
    BY <1>9, <2>3 DEF Pending
  <2> QED
    BY <1>13, <2>1, <2>2, <2>3 DEF Pending
<1>14. KeptInv'
  <2>1. \A o \in Occurrences' : Kept(o)'
    BY <1>8, <1>12
  <2>2. \A ing \in Ingresses' :
          ing.rules # <<>> /\ ing.class \in SlashedClasses => Pending(<<ing.ns, ing.class>>)'
    BY <1>2, <1>8, <1>13 DEF KeptInv
  <2>3. \A ing \in Ingresses' : ing.default # NoBackend => DefaultOf(ing) \in ToSet(defaults')
    BY <1>2, <1>8 DEF KeptInv
  <2> QED
    BY <2>1, <2>2, <2>3 DEF KeptInv
<1>15. DefaultsInv'
  BY <1>2 DEF DefaultsInv
<1>16. errors' # {} => Defective'
  <2>1. errors' # {} => errors # {} \/ RouteErrors(k, group) # {}
    BY <1>9
  <2>2. RouteErrors(k, group) # {} => Defective
    BY <1>3, ErrorsAreDefects
  <2> QED
    BY <1>2, <2>1, <2>2, DefectsStay
<1> QED
  BY <1>10, <1>11, <1>14, <1>15, <1>16

(* The route of a default backend.                                         *)
LEMMA DefaultMade ==
  ASSUME NEW ing \in Ingresses, ing.default # NoBackend, NEW r, r = DefaultRoute(DefaultOf(ing))
  PROVE  Even(r) /\ AskedFor(r, "http") /\ NoneEmpty(r)
<1> PICK d : d = DefaultOf(ing)
  OBVIOUS
<1> PICK ref : ref = ToBackendRef(d.ns, d.backend)
  OBVIOUS
<1> PICK source : source = [ing |-> <<d.ns, d.name>>, backend |-> d.backend, default |-> TRUE]
  OBVIOUS
<1>1. d.ns = ing.ns /\ d.name = ing.name /\ d.class = ing.class /\ d.backend = ing.default
  BY DEF DefaultOf
<1>2. /\ r.ns = d.ns /\ r.parent = d.class /\ r.host = NoHost
      /\ r.rules = IF ref = NoRef THEN <<>>
                   ELSE <<[matches |-> <<>>, filters |-> <<>>, backends |-> <<ref>>]>>
      /\ r.sources = <<<<source>>>>
      /\ DOMAIN r = RouteParts
  BY DEF DefaultRoute, RouteParts
<1>3. \A x : IsList(<<x>>)
  BY SeqIsList, LiteralHolds
<1>4. ASSUME NEW i \in DOMAIN r.rules
      PROVE  /\ i = 1 /\ r.sources[i] = <<source>> /\ i \in DOMAIN r.sources
             /\ r.rules[i].matches = <<>> /\ r.rules[i].filters = <<>> /\ r.rules[i].backends = <<ref>>
             /\ DOMAIN r.rules[i] = RuleParts
  <2>1. CASE ref = NoRef
    <3>1. DOMAIN r.rules = {}
      BY <1>2, <2>1
    <3> QED
      BY <3>1
  <2>2. CASE ref # NoRef
    <3> PICK rule : rule = [matches |-> <<>>, filters |-> <<>>, backends |-> <<ref>>]
      OBVIOUS
    <3>1. r.rules = <<rule>> /\ r.sources = <<<<source>>>>
      BY <1>2, <2>2
    <3>2. i = 1 /\ r.rules[i] = rule /\ r.sources[i] = <<source>> /\ i \in DOMAIN r.sources
      <4>1. \A x : DOMAIN <<x>> = {1} /\ <<x>>[1] = x
        OBVIOUS
      <4> QED
        BY <3>1, <4>1
    <3>3. /\ rule.matches = <<>> /\ rule.filters = <<>> /\ rule.backends = <<ref>>
          /\ DOMAIN rule = RuleParts
      BY DEF RuleParts
    <3> QED
      BY <3>2, <3>3
  <2> QED
    BY <2>1, <2>2
<1>5. IsList(r.rules) /\ IsList(r.sources)
  <2>1. CASE ref = NoRef
    BY <1>2, <1>3, <2>1, EmptyList
  <2>2. CASE ref # NoRef
    BY <1>2, <1>3, <2>2
  <2> QED
    BY <2>1, <2>2
<1>6. Even(r)
  <2>1. DOMAIN <<ref>> = DOMAIN <<source>>
    OBVIOUS
  <2>2. \A x : DOMAIN <<x>> = {1} /\ <<x>>[1] = x
    OBVIOUS
  <2>3. \A i \in DOMAIN r.sources : r.sources[i] = <<source>>
    <3> PICK row : row = <<source>>
      OBVIOUS
    <3>1. r.sources = <<row>>
      BY <1>2
    <3> QED
      BY <2>2, <3>1
  <2>4. \A i \in DOMAIN r.sources : IsList(r.sources[i])
    BY <1>3, <2>3
  <2> QED
    BY <1>2, <1>3, <1>4, <1>5, <2>1, <2>4 DEF Even
<1>7. NoneEmpty(r)
  BY <1>4 DEF NoneEmpty
<1>8. AskedFor(r, "http")
  <2>1. source.default /\ source.ing = <<ing.ns, ing.name>> /\ source.backend = ing.default
    BY <1>1
  <2> SUFFICES ASSUME NEW i \in DOMAIN r.rules, NEW j \in DOMAIN r.rules[i].backends
               PROVE  /\ r.rules[i].backends[j] = ToBackendRef(r.ns, r.sources[i][j].backend)
                      /\ r.sources[i][j] = source
                      /\ ing.ns = r.ns /\ ing.class = r.parent
                      /\ r.host = NoHost /\ r.rules[i].matches = <<>>
    BY <2>1 DEF AskedFor
  <2>2. r.rules[i].backends = <<ref>> /\ r.sources[i] = <<source>>
    BY <1>4
  <2>3. j = 1
    <3>1. DOMAIN <<ref>> = {1}
      OBVIOUS
    <3> QED
      BY <2>2, <3>1
  <2>4. r.sources[i][j] = source /\ r.rules[i].backends[j] = ref
    BY <2>2, <2>3
  <2> QED
    BY <1>1, <1>2, <1>4, <2>1, <2>4
<1> QED
  BY <1>6, <1>7, <1>8

(* Default backends become routes, and what was converted stays.           *)
LEMMA DefaultsPaths == IInv /\ PathsInv /\ ConvertDefaults => PathsInv'
<1> SUFFICES ASSUME IInv, PathsInv, ConvertDefaults PROVE PathsInv'
  OBVIOUS
<1> USE DEF IInv, PathsInv
<1> DEFINE Unresolved == {d \in ToSet(defaults) : ToBackendRef(d.ns, d.backend) = NoRef}
<1>1. /\ pc = "groups" /\ pc' = "gateways" /\ groups = <<>>
      /\ UNCHANGED <<input, groups, defaults, grpcRoutes, listeners, gateways, ir>>
  BY DEF ConvertDefaults
<1>2. errors' = errors \cup {<<"port", <<d.ns, d.name>> >> : d \in Unresolved}
  BY DEF ConvertDefaults
<1>3. \A d : d \in Unresolved <=> d \in ToSet(defaults) /\ ToBackendRef(d.ns, d.backend) = NoRef
  OBVIOUS
<1> HIDE DEF Unresolved
<1>4. (errors # {} => errors' # {}) /\ (errors' # {} => errors # {} \/ \E d : d \in Unresolved)
      /\ \A d \in Unresolved : errors' # {}
  BY <1>2
<1>5. \A r : r \in ToSet(httpRoutes') <=>
               r \in ToSet(httpRoutes) \/ \E d \in ToSet(defaults) : r = DefaultRoute(d)
  BY DefaultsMade DEF RoutesInv
<1>6. /\ Made.http = httpRoutes /\ Made.grpc = grpcRoutes
      /\ Made'.http = httpRoutes' /\ Made'.grpc = grpcRoutes
  BY <1>1 DEF Made
<1>7. Occurrences' = Occurrences /\ Ingresses' = Ingresses
  BY <1>1, InputStays, OccurrencesStay
<1>8. \A d \in ToSet(defaults) : \E ing \in Ingresses : ing.default # NoBackend /\ d = DefaultOf(ing)
  BY DEF AskedInv
<1>9. AskedInv'
  <2>1. DOMAIN groups' = {}
    BY <1>1
  <2>2. \A gw \in DOMAIN listeners' : AskedGateway(gw)'
    BY <1>1, AskedStays DEF AskedInv
  <2>3. \A d \in ToSet(defaults') : \E ing \in Ingresses' : ing.default # NoBackend /\ d = DefaultOf(ing)
    BY <1>1, <1>7, <1>8
  <2> QED
    BY <2>1, <2>2, <2>3 DEF AskedInv
<1>10. MadeInv'
  <2> SUFFICES ASSUME NEW protocol \in {"http", "grpc"}, NEW r \in ToSet(Made'[protocol])
               PROVE  Even(r) /\ AskedFor(r, protocol)' /\ (errors' = {} => NoneEmpty(r))
    BY DEF MadeInv
  <2>1. CASE r \in ToSet(Made[protocol])
    <3>1. Even(r) /\ AskedFor(r, protocol) /\ (errors = {} => NoneEmpty(r))
      BY <2>1 DEF MadeInv
    <3> QED
      BY <1>1, <1>4, <3>1, AskedStays
  <2>2. CASE protocol = "http" /\ \E d \in ToSet(defaults) : r = DefaultRoute(d)
    <3>1. PICK ing \in Ingresses : ing.default # NoBackend /\ r = DefaultRoute(DefaultOf(ing))
      BY <1>8, <2>2
    <3>2. Even(r) /\ AskedFor(r, protocol) /\ NoneEmpty(r)
      BY <2>2, <3>1, DefaultMade
    <3> QED
      BY <1>1, <3>2, AskedStays
  <2> QED
    BY <1>5, <1>6, <2>1, <2>2
<1>11. ASSUME NEW o \in Occurrences PROVE Kept(o)'
  <2>1. Kept(o)
    BY <1>1 DEF KeptInv
  <2>2. o.protocol \in {"http", "grpc"}
    BY OccurrenceShape DEF Occurrence
  <2>3. \A r \in ToSet(Made[o.protocol]) : r \in ToSet(Made'[o.protocol])
    BY <1>5, <1>6, <2>2
  <2>4. ~(KeyFor(o) \in DOMAIN groups)
    BY <1>1
  <2> QED
    BY <1>4, <2>1, <2>3, <2>4 DEF Kept
<1>12. KeptInv'
  <2>1. \A o \in Occurrences' : Kept(o)'
    BY <1>7, <1>11
  <2>2. \A g : Pending(g) => Pending(g)'
    BY <1>1, <1>4 DEF Pending
  <2>3. \A ing \in Ingresses' :
          ing.rules # <<>> /\ ing.class \in SlashedClasses => Pending(<<ing.ns, ing.class>>)'
    BY <1>1, <1>7, <2>2 DEF KeptInv
  <2>4. \A ing \in Ingresses' : ing.default # NoBackend => DefaultOf(ing) \in ToSet(defaults')
    BY <1>1, <1>7 DEF KeptInv
  <2> QED
    BY <2>1, <2>3, <2>4 DEF KeptInv
<1>13. DefaultsInv'
  BY <1>1, <1>3, <1>4 DEF DefaultsInv
<1>14. errors' # {} => Defective'
  <2>1. ASSUME NEW d \in Unresolved PROVE Defective
    <3>1. PICK ing \in Ingresses : ing.default # NoBackend /\ d = DefaultOf(ing)
      BY <1>3, <1>8
    <3>2. d.ns = ing.ns /\ d.backend = ing.default
      BY <3>1 DEF DefaultOf
    <3> QED
      BY <1>3, <3>1, <3>2 DEF Defective
  <2> QED
    BY <1>1, <1>4, <2>1, DefectsStay
<1> QED
  BY <1>9, <1>10, <1>12, <1>13, <1>14

(* Building a gateway touches no route; a slashed class is reported.       *)
LEMMA GatewayPaths == IInv /\ PathsInv /\ BuildGateway => PathsInv'
<1> SUFFICES ASSUME IInv, PathsInv, BuildGateway PROVE PathsInv'
  OBVIOUS
<1> USE DEF IInv, PathsInv
<1>1. PICK gw \in DOMAIN listeners :
        /\ listeners' = [g \in DOMAIN listeners \ {gw} |-> listeners[g]]
        /\ IF gw[2] \in SlashedClasses
           THEN errors' = errors \cup {<<"gateway key", gw>>}
           ELSE UNCHANGED errors
  BY DEF BuildGateway
<1>2. pc = "gateways" /\ UNCHANGED <<input, pc, groups, defaults, httpRoutes, grpcRoutes, ir>>
  BY DEF BuildGateway
<1>3. /\ errors # {} => errors' # {}
      /\ errors' # {} => errors # {} \/ gw[2] \in SlashedClasses
      /\ gw[2] \in SlashedClasses => errors' # {}
      /\ DOMAIN listeners' = DOMAIN listeners \ {gw}
  BY <1>1
<1>4. Occurrences' = Occurrences /\ Ingresses' = Ingresses
  BY <1>2, InputStays, OccurrencesStay
<1>5. groups = <<>> /\ DOMAIN groups' = {} /\ DOMAIN groups = {}
  BY <1>2 DEF FlowInv
<1>6. AskedInv'
  <2>1. \A g \in DOMAIN listeners' : AskedGateway(g)'
    BY <1>2, <1>3, AskedStays DEF AskedInv
  <2>2. \A d \in ToSet(defaults') : \E ing \in Ingresses' : ing.default # NoBackend /\ d = DefaultOf(ing)
    BY <1>2, <1>4 DEF AskedInv
  <2> QED
    BY <1>5, <2>1, <2>2 DEF AskedInv
<1>7. MadeInv'
  BY <1>2, <1>3, AskedStays DEF MadeInv, Made
<1>8. KeptInv'
  <2>1. \A o \in Occurrences' : Kept(o)'
    BY <1>2, <1>3, <1>4 DEF KeptInv, Kept, Made
  <2>2. ASSUME NEW ing \in Ingresses, ing.rules # <<>>, ing.class \in SlashedClasses
        PROVE  Pending(<<ing.ns, ing.class>>)'
    <3> PICK g : g = <<ing.ns, ing.class>>
      OBVIOUS
    <3>1. Pending(g)
      BY <1>2, <2>2 DEF KeptInv
    <3>2. g[2] = ing.class
      OBVIOUS
    <3>3. CASE g = gw
      BY <1>3, <2>2, <3>2, <3>3 DEF Pending
    <3>4. CASE g # gw
      BY <1>3, <1>5, <3>1, <3>4 DEF Pending
    <3> QED
      BY <3>3, <3>4
  <2>3. \A ing \in Ingresses' : ing.default # NoBackend => DefaultOf(ing) \in ToSet(defaults')
    BY <1>2, <1>4 DEF KeptInv
  <2> QED
    BY <1>4, <2>1, <2>2, <2>3 DEF KeptInv
<1>9. DefaultsInv'
  BY <1>2, <1>3 DEF DefaultsInv
<1>10. errors' # {} => Defective'
  <2>1. gw[2] \in SlashedClasses => Defective
    <3>1. PICK ing \in Ingresses : ing.rules # <<>> /\ <<ing.ns, ing.class>> = gw
      BY DEF AskedInv, AskedGateway
    <3>2. gw[2] = ing.class
      BY <3>1
    <3> QED
      BY <3>1, <3>2 DEF Defective
  <2> QED
    BY <1>2, <1>3, <2>1, DefectsStay
<1> QED
  BY <1>6, <1>7, <1>8, <1>9, <1>10

(* Neither Return nor a stuttering step touches what the invariant names.  *)
LEMMA RestPaths ==
  ASSUME PathsInv, UNCHANGED <<input, groups, defaults, httpRoutes, grpcRoutes, listeners, errors>>,
         pc' = pc \/ (pc = "gateways" /\ pc' = "done")
  PROVE  PathsInv'
<1> USE DEF PathsInv
<1>1. Occurrences' = Occurrences /\ Ingresses' = Ingresses /\ Made' = Made
  BY InputStays, OccurrencesStay DEF Made
<1>2. AskedInv'
  <2>1. \A k \in DOMAIN groups' :
          k.protocol \in {"http", "grpc"} /\ AskedGateway(GatewayKey(k))' /\ HoldsAsked(k, groups[k])'
    BY AskedStays DEF AskedInv
  <2>2. \A gw \in DOMAIN listeners' : AskedGateway(gw)'
    BY AskedStays DEF AskedInv
  <2> QED
    BY <1>1, <2>1, <2>2 DEF AskedInv
<1>3. MadeInv'
  BY <1>1, AskedStays DEF MadeInv
<1>4. KeptInv' /\ DefaultsInv'
  BY <1>1 DEF KeptInv, Kept, Pending, DefaultsInv
<1> QED
  BY <1>2, <1>3, <1>4, DefectsStay

(* The invariant about paths holds in every state of every run of ToIR.    *)
LEMMA PathsInvariant == Spec => []PathsInv
<1>1. IInv /\ PathsInv /\ [Next]_vars => PathsInv'
  <2> SUFFICES ASSUME IInv, PathsInv, [Next]_vars PROVE PathsInv'
    OBVIOUS
  <2>1. CASE AddIngresses
    BY <2>1, AddPaths
  <2>2. CASE ConvertGroup
    BY <2>2, GroupPaths
  <2>3. CASE ConvertDefaults
    BY <2>3, DefaultsPaths
  <2>4. CASE BuildGateway
    BY <2>4, GatewayPaths
  <2>5. CASE Return
    BY <2>5, RestPaths DEF Return
  <2>6. CASE UNCHANGED vars
    BY <2>6, RestPaths DEF vars
  <2> QED
    BY <2>1, <2>2, <2>3, <2>4, <2>5, <2>6 DEF Next
<1> QED
  BY InitPaths, Invariant, <1>1, PTL DEF Spec

(* A route is stored if no other route made has its key.                   *)
LEMMA AloneIsStored ==
  ASSUME NEW routes, IsList(routes), NEW r \in ToSet(routes),
         \A i, j \in DOMAIN routes : routes[j] = r /\ Key(routes[i]) = Key(r) => i = j
  PROVE  Key(r) \in DOMAIN ByKey(routes) /\ ByKey(routes)[Key(r)] = r
<1> DEFINE keys == [i \in DOMAIN routes |-> Key(routes[i])]
           X == {Key(routes[i]) : i \in DOMAIN routes}
<1>1. keys \in [DOMAIN routes -> X]
  OBVIOUS
<1>2. ByKey(routes) = [k \in ToSet(keys) |-> routes[LastOf(keys, k)]]
  BY DEF ByKey
<1>3. DOMAIN keys = DOMAIN routes /\ \A i \in DOMAIN routes : keys[i] = Key(routes[i])
  OBVIOUS
<1> HIDE DEF keys, X
<1>4. IsList(keys)
  BY <1>1, MadeList
<1>5. PICK j \in DOMAIN routes : routes[j] = r
  BY InToSet
<1>6. Key(r) \in ToSet(keys)
  BY <1>3, <1>5, InToSet
<1>7. LastOf(keys, Key(r)) \in DOMAIN keys /\ keys[LastOf(keys, Key(r))] = Key(r)
  BY <1>4, <1>6, LastStays
<1>8. LastOf(keys, Key(r)) = j
  BY <1>3, <1>5, <1>7
<1> QED
  BY <1>2, <1>5, <1>6, <1>8

(* What toRoutesAndGateways returns in the end: any path, port or class it *)
(* cannot convert is an error, and then nothing is converted; otherwise    *)
(* every path of every Ingress is served for its host, match and backend,  *)
(* and no backend gets requests that nobody asked for.                     *)
THEOREM PathsArrive == Spec => []PathsConverted
<1>1. IInv /\ PathsInv => PathsConverted
  <2> SUFFICES ASSUME IInv, PathsInv, pc = "done"
               PROVE  /\ Defective <=> errors # {}
                      /\ Defective => ir = EmptyIR
                      /\ ~Defective => \A o \in Occurrences : Unambiguous(o.ns) => Served(o)
                      /\ \A protocol \in {"http", "grpc"} : \A k \in DOMAIN ir[protocol] :
                           AskedFor(ir[protocol][k], protocol)
    BY DEF PathsConverted
  <2> USE DEF IInv, PathsInv
  <2>1. /\ DOMAIN groups = {} /\ DOMAIN listeners = {}
        /\ ir = IF errors # {} THEN EmptyIR
                ELSE [http |-> ByKey(httpRoutes), grpc |-> ByKey(grpcRoutes), gateways |-> gateways]
    BY DEF FlowInv
  <2>2. \A o \in Occurrences :
          (~Refused(o) /\ \E r \in ToSet(Made[o.protocol]) : Serves(r, o)) \/ errors # {}
    BY <2>1 DEF KeptInv, Kept
  <2>3. Defective => errors # {}
    <3> SUFFICES ASSUME Defective, errors = {} PROVE FALSE
      OBVIOUS
    <3>1. ASSUME NEW o \in Occurrences PROVE ~Refused(o)
      BY <2>2
    <3>2. ASSUME NEW ing \in Ingresses, ing.rules # <<>>, ing.class \in SlashedClasses PROVE FALSE
      BY <2>1, <3>2 DEF KeptInv, Pending
    <3>3. ASSUME NEW ing \in Ingresses, ing.default # NoBackend, ToBackendRef(ing.ns, ing.default) = NoRef
          PROVE  FALSE
      <4> PICK d : d = DefaultOf(ing)
        OBVIOUS
      <4>1. d \in ToSet(defaults) /\ d.ns = ing.ns /\ d.backend = ing.default
        BY <3>3 DEF KeptInv, DefaultOf
      <4> QED
        BY <3>3, <4>1 DEF DefaultsInv
    <3>4. \A o : MatchKey(o.path)[1] = o.path.type
      BY DEF MatchKey
    <3> QED
      BY <3>1, <3>2, <3>3, <3>4 DEF Defective, Refused, Convertible
  <2>4. errors # {} => Defective
    OBVIOUS
  <2>5. IsList(httpRoutes) /\ IsList(grpcRoutes) /\ Made.http = httpRoutes /\ Made.grpc = grpcRoutes
    BY DEF RoutesInv, Made
  <2>6. ASSUME ~Defective, NEW o \in Occurrences, Unambiguous(o.ns) PROVE Served(o)
    <3>1. errors = {} /\ ir.http = ByKey(httpRoutes) /\ ir.grpc = ByKey(grpcRoutes)
      BY <2>1, <2>4, <2>6
    <3>2. o.protocol \in {"http", "grpc"}
      BY OccurrenceShape DEF Occurrence
    <3> PICK routes : routes = Made[o.protocol]
      OBVIOUS
    <3>3. PICK r \in ToSet(routes) : Serves(r, o)
      BY <2>2, <3>1
    <3>4. IsList(routes) /\ ir[o.protocol] = ByKey(routes)
      BY <2>5, <3>1, <3>2
    <3>5. r.ns = o.ns
      BY <3>3 DEF Serves
    <3>6. \A i, j \in DOMAIN routes : routes[j] = r /\ Key(routes[i]) = Key(r) => i = j
      <4>1. DOMAIN routes = 1..Len(routes)
        BY <3>4, ListShape
      <4>2. \A i : Key(routes[i]) = Key(r) => routes[i].ns = r.ns
        BY DEF Key
      <4> QED
        BY <2>6, <3>2, <3>5, <4>1, <4>2 DEF Unambiguous
    <3>7. Key(r) \in DOMAIN ir[o.protocol] /\ ir[o.protocol][Key(r)] = r
      BY <3>4, <3>6, AloneIsStored
    <3>8. Even(r)
      BY <3>2, <3>3 DEF MadeInv
    <3>9. DOMAIN r.rules = 1..Len(r.rules)
      BY <3>8, ListShape DEF Even
    <3>10. \A i \in DOMAIN r.rules : DOMAIN r.rules[i].backends = 1..Len(r.rules[i].backends)
      BY <3>8, ListShape DEF Even
    <3> QED
      BY <3>3, <3>7, <3>9, <3>10 DEF Served, Serves
  <2>7. ASSUME NEW protocol \in {"http", "grpc"}, NEW k \in DOMAIN ir[protocol]
        PROVE  AskedFor(ir[protocol][k], protocol)
    <3>1. CASE errors = {}
      <4>1. ir[protocol] = ByKey(Made[protocol]) /\ IsList(Made[protocol])
        BY <2>1, <2>5, <3>1
      <4>2. ir[protocol][k] \in ToSet(Made[protocol])
        BY <4>1, StoredRoutes
      <4> QED
        BY <4>2 DEF MadeInv
    <3>2. CASE errors # {}
      <4>1. DOMAIN ir[protocol] = {}
        BY <2>1, <3>2 DEF EmptyIR
      <4> QED
        BY <4>1
    <3> QED
      BY <3>1, <3>2
  <2> QED
    BY <2>1, <2>3, <2>4, <2>6, <2>7
<1> QED
  BY Invariant, PathsInvariant, <1>1, PTL

-----------------------------------------------------------------------------
(* The matches of HTTP routes, on which the providers' features build.     *)

(* Each rule has a path, and no two have the same.                         *)
Matched(r) ==
  /\ \A i \in DOMAIN r.rules : \E c : r.rules[i].matches = HTTPMatch(c)
  /\ \A i, j \in DOMAIN r.rules : r.rules[i].matches = r.rules[j].matches => i = j

(* The route of a default backend has one source.                          *)
Lone(r) == \A i \in DOMAIN r.rules : DOMAIN r.sources[i] = {1}

MatchesInv == \A r \in ToSet(httpRoutes) : Matched(r) \/ Lone(r)

(* toHTTPRoute makes one rule for each type and path.                      *)
LEMMA RouteMatched ==
  ASSUME NEW k, NEW group, IsList(PathsOf(group))
  PROVE  Matched(ToHTTPRoute(k, group))
<1> PICK paths : paths = PathsOf(group)
  OBVIOUS
<1> DEFINE all == MatchKeys(paths)
           S == {key \in ToSet(all) : Convertible(key)}
           listed == [i \in DOMAIN paths |-> MatchKey(paths[i])]
           X == {MatchKey(q) : q \in ToSet(paths)}
           r == ToHTTPRoute(k, group)
<1>1. IsList(all) /\ \A c : c \in ToSet(all) <=> \E q \in ToSet(paths) : MatchKey(q) = c
  BY KeysHold
<1>2. IsList(listed)
  <2>1. \A i \in DOMAIN paths : paths[i] \in ToSet(paths)
    BY InToSet
  <2>2. listed \in [DOMAIN paths -> X]
    BY <2>1
  <2> HIDE DEF listed, X
  <2> QED
    BY <2>2, MadeList
<1>3. Differ(all)
  <2>1. all = Firsts(listed)
    BY DEF MatchKeys
  <2> HIDE DEF listed
  <2> QED
    BY <1>2, <2>1, FirstsDiffer
<1> PICK keys : keys = Keep(all, S)
  OBVIOUS
<1>4. /\ DOMAIN r.rules = DOMAIN keys
      /\ \A i \in DOMAIN keys : r.rules[i].matches = HTTPMatch(keys[i])
  BY DEF ToHTTPRoute, Route
<1> HIDE DEF all, S, listed, X, r
<1>5. IsList(keys) /\ ToSet(keys) \subseteq ToSet(all) /\ Differ(keys)
  BY <1>1, <1>3, KeepList, KeepDiffers
<1>6. \A i \in DOMAIN keys : keys[i] = <<keys[i][1], keys[i][2]>>
  <2> SUFFICES ASSUME NEW i \in DOMAIN keys PROVE keys[i] = <<keys[i][1], keys[i][2]>>
    OBVIOUS
  <2>1. keys[i] \in ToSet(all)
    BY <1>5, InToSet
  <2>2. PICK q : MatchKey(q) = keys[i]
    BY <1>1, <2>1
  <2> QED
    BY <2>2 DEF MatchKey
<1>7. ASSUME NEW i \in DOMAIN keys, NEW j \in DOMAIN keys, HTTPMatch(keys[i]) = HTTPMatch(keys[j])
      PROVE  i = j
  <2>1. \A c : HTTPMatch(c)[1].type = c[1] /\ HTTPMatch(c)[1].path = c[2]
    BY DEF HTTPMatch
  <2>2. keys[i][1] = keys[j][1] /\ keys[i][2] = keys[j][2]
    BY <1>7, <2>1
  <2>3. keys[i] = keys[j]
    BY <1>6, <2>2
  <2> QED
    BY <1>5, <2>3 DEF Differ
<1>8. Matched(r)
  BY <1>4, <1>7 DEF Matched
<1> QED
  BY <1>8 DEF r

(* A rule for a default backend has one source.                            *)
LEMMA DefaultLone ==
  ASSUME NEW d
  PROVE  Lone(DefaultRoute(d))
<1>1. /\ DOMAIN DefaultRoute(d).rules \subseteq {1}
      /\ DOMAIN DefaultRoute(d).sources[1] = {1}
  BY DEF DefaultRoute
<1> QED
  BY <1>1 DEF Lone

(* All HTTP routes are of one sort or the other.                           *)
LEMMA MatchesInvariant == Spec => []MatchesInv
<1>1. Init => MatchesInv
  BY EmptyList DEF Init, MatchesInv
<1>2. IInv /\ PathsInv /\ MatchesInv /\ [Next]_vars => MatchesInv'
  <2> SUFFICES ASSUME IInv, PathsInv, MatchesInv, [Next]_vars PROVE MatchesInv'
    OBVIOUS
  <2>1. IsList(httpRoutes) /\ IsList(defaults)
    BY DEF IInv, RoutesInv
  <2>2. CASE UNCHANGED httpRoutes
    BY <2>2 DEF MatchesInv
  <2>3. CASE ConvertGroup /\ ~UNCHANGED httpRoutes
    <3>1. PICK k \in DOMAIN groups : httpRoutes' = Append(httpRoutes, ToHTTPRoute(k, groups[k]))
      BY <2>3 DEF ConvertGroup
    <3>2. HoldsAsked(k, groups[k])
      BY DEF PathsInv, AskedInv
    <3> PICK route : route = ToHTTPRoute(k, groups[k])
      OBVIOUS
    <3>3. Matched(route)
      BY <3>2, PathAsked, RouteMatched
    <3> DEFINE X == ToSet(httpRoutes) \cup {route}
    <3>4. httpRoutes \in Seq(X) /\ route \in X
      BY <2>1, ListShape
    <3> HIDE DEF X
    <3>5. ToSet(httpRoutes') = ToSet(httpRoutes) \cup {route}
      BY <3>1, <3>4, AppendHolds
    <3> QED
      BY <3>3, <3>5 DEF MatchesInv
  <2>4. CASE ConvertDefaults
    <3>1. \A r : r \in ToSet(httpRoutes') <=>
                   r \in ToSet(httpRoutes) \/ \E d \in ToSet(defaults) : r = DefaultRoute(d)
      BY <2>1, <2>4, DefaultsMade
    <3> QED
      BY <3>1, DefaultLone DEF MatchesInv
  <2> QED
    BY <2>2, <2>3, <2>4 DEF Next, vars, AddIngresses, BuildGateway, Return
<1> QED
  BY <1>1, <1>2, Invariant, PathsInvariant, PTL DEF Spec

-----------------------------------------------------------------------------
(* The shape of routes and listeners, on which the providers' features     *)
(* build: a route is made of rules with sources that are no defaults, or   *)
(* is that of a default backend; a listener is for HTTP or HTTPS.          *)
Ruled(r) ==
  /\ DOMAIN r.rules = DOMAIN r.sources
  /\ \A i \in DOMAIN r.sources : \A j \in DOMAIN r.sources[i] : ~r.sources[i][j].default

RouteShape(r) == IsList(r.name) /\ NamedHost(r.host) /\ (Ruled(r) \/ AllDefault(r))

AllProper(ls) == IsList(ls) /\ \A l \in ToSet(ls) : Proper(l) /\ NamedHost(l.host)

ShapesInv ==
  /\ \A k \in DOMAIN groups : IsList(groups[k].name)
  /\ \A d \in ToSet(defaults) : IsList(d.name)
  /\ \A r \in ToSet(httpRoutes) : RouteShape(r)
  /\ \A gw \in DOMAIN gateways : AllProper(gateways[gw])

(* Names are lists when their parts are.                                   *)
LEMMA NameJoined ==
  ASSUME NEW s, IsList(s), NEW t, IsList(t), NEW u, u = s \o t
  PROVE  IsList(u)
BY ConcatPlaces

(* The route of a rule group.                                              *)
LEMMA RouteShaped ==
  ASSUME IInv, PathsInv, NEW k \in DOMAIN groups, IsList(groups[k].name), k.protocol = "http"
  PROVE  RouteShape(ToHTTPRoute(k, groups[k]))
<1> PICK group : group = groups[k]
  OBVIOUS
<1> PICK r : r = RouteFor(k, group)
  OBVIOUS
<1> PICK paths : paths = PathsOf(group)
  OBVIOUS
<1>1. HoldsAsked(k, group) /\ NamedHost(k.host)
  <2>1. Claimed(GatewayKey(k), k.host)
    BY DEF IInv, GroupsInv, OfGateway
  <2> QED
    BY <2>1, HostsAreNamed DEF IInv, PathsInv, AskedInv
<1>2. /\ IsList(paths) /\ IsList(r.rules) /\ IsList(r.sources) /\ DOMAIN r.rules = DOMAIN r.sources
      /\ \A i \in DOMAIN r.rules : \E q \in ToSet(paths) :
           Allowed(k, MatchKey(q)) /\ Rules(r, i, k, paths, MatchKey(q))
  BY <1>1, RouteHolds
<1>3. ASSUME NEW i \in DOMAIN r.sources, NEW j \in DOMAIN r.sources[i] PROVE ~r.sources[i][j].default
  <2>1. \E q : r.sources[i][j] = SourceOf(q)
    BY <1>2 DEF Rules, Pairwise
  <2> QED
    BY <2>1 DEF SourceOf
<1>4. Ruled(r)
  BY <1>2, <1>3 DEF Ruled
<1>5. r = ToHTTPRoute(k, group)
  BY DEF RouteFor
<1>6. r.host = k.host /\ r.name = group.name \o NameFromHost(k.host)
  <2>1. ToHTTPRoute(k, group).host = k.host /\ ToHTTPRoute(k, group).name = RouteName(group.name, k.host)
    BY DEF ToHTTPRoute, Route
  <2> QED
    BY <1>5, <2>1 DEF RouteName
<1>7. IsList(r.name)
  BY <1>1, <1>6, NameJoined DEF NamedHost
<1> QED
  BY <1>1, <1>4, <1>5, <1>6, <1>7 DEF RouteShape

(* The route of a default backend.                                         *)
LEMMA DefaultShaped ==
  ASSUME FlowInv, NEW d, IsList(d.name)
  PROVE  RouteShape(DefaultRoute(d))
<1>1. DefaultRoute(d).name = d.name \o <<"default", "backend">> /\ DefaultRoute(d).host = NoHost
  BY DEF DefaultRoute
<1>2. IsList(<<"default", "backend">>)
  <2>1. <<"default", "backend">> \in Seq({"default", "backend"})
    OBVIOUS
  <2> QED
    BY <2>1, SeqIsList
<1>3. IsList(DefaultRoute(d).name)
  BY <1>1, <1>2, NameJoined
<1>4. AllDefault(DefaultRoute(d))
  BY DEF DefaultRoute, AllDefault
<1> QED
  BY <1>1, <1>3, <1>4, HostsAreNamed DEF RouteShape

(* The listeners of a gateway.                                             *)
LEMMA ListenersShaped ==
  ASSUME IInv, NEW gw \in DOMAIN listeners
  PROVE  AllProper(ToListeners(listeners[gw]))
<1> PICK ls : ls = listeners[gw]
  OBVIOUS
<1> DEFINE hosts == {w.host : w \in ToSet(ls)}
<1>1. IsList(ls) /\ \A w \in ToSet(ls) : w.host \in hosts /\ w.tls \in BOOLEAN
  BY DEF IInv, WishesInv
<1>2. \A h \in hosts : NamedHost(h)
  BY HostsAreNamed DEF IInv, WishesInv
<1> HIDE DEF hosts
<1>3. BuiltFor(ToListeners(ls), hosts)
  BY <1>1, ListenersHold
<1> QED
  BY <1>2, <1>3 DEF BuiltFor, AllProper

(* The shapes last.                                                        *)
LEMMA ShapesInvariant == Spec => []ShapesInv
<1>1. Init => ShapesInv
  BY EmptyList DEF Init, ShapesInv
<1>2. IInv /\ PathsInv /\ ShapesInv /\ [Next]_vars => ShapesInv'
  <2> SUFFICES ASSUME IInv, PathsInv, ShapesInv, [Next]_vars PROVE ShapesInv'
    OBVIOUS
  <2>1. FlowInv /\ IsList(httpRoutes) /\ IsList(defaults)
    BY DEF IInv, RoutesInv
  <2>2. CASE UNCHANGED <<groups, defaults, httpRoutes, gateways>>
    BY <2>2 DEF ShapesInv
  <2>3. CASE AddIngresses
    <3>1. \A ing \in Ingresses : IsList(ing.name)
      BY <2>1, InputsAreLists DEF WellFormed
    <3>2. \A d \in ToSet(defaults') : IsList(d.name)
      BY <2>1, <2>3, <3>1, DefaultsOfInput DEF DefaultOf
    <3>3. PICK asked :
            /\ \A a \in asked : \E protocol \in {"http", "grpc"} : \E ing \in ToSet(input[protocol]) :
                 \E rule \in ToSet(ing.rules) : a = Asks(ing, rule, protocol)
            /\ From(groups', asked)
      BY <2>1, <2>3, GroupsOfInput
    <3>4. \A a \in asked : IsList(a.ing.name)
      BY <3>1, <3>3 DEF Asks, Ingresses
    <3>5. \A k \in DOMAIN groups' : IsList(groups'[k].name)
      BY <3>3, <3>4 DEF From
    <3> QED
      BY <2>3, <3>2, <3>5 DEF ShapesInv, AddIngresses
  <2>4. CASE ConvertGroup
    <3>1. PICK k \in DOMAIN groups :
            /\ groups' = [o \in DOMAIN groups \ {k} |-> groups[o]]
            /\ IF k.protocol = "http"
               THEN httpRoutes' = Append(httpRoutes, ToHTTPRoute(k, groups[k]))
               ELSE UNCHANGED httpRoutes
      BY <2>4 DEF ConvertGroup
    <3>2. \A x \in DOMAIN groups' : IsList(groups'[x].name)
      BY <3>1 DEF ShapesInv
    <3>3. \A r \in ToSet(httpRoutes') : RouteShape(r)
      <4>1. CASE k.protocol = "http"
        <5> PICK route : route = ToHTTPRoute(k, groups[k])
          OBVIOUS
        <5>1. RouteShape(route)
          BY <4>1, RouteShaped DEF ShapesInv
        <5>2. httpRoutes' = Append(httpRoutes, route)
          BY <3>1, <4>1
        <5> DEFINE X == ToSet(httpRoutes) \cup {route}
        <5>3. httpRoutes \in Seq(X) /\ route \in X
          BY <2>1, ListShape
        <5> HIDE DEF X
        <5>4. ToSet(httpRoutes') = ToSet(httpRoutes) \cup {route}
          BY <5>2, <5>3, AppendHolds
        <5> QED
          BY <5>1, <5>4 DEF ShapesInv
      <4> QED
        BY <3>1, <4>1 DEF ShapesInv
    <3> QED
      BY <2>4, <3>2, <3>3 DEF ShapesInv, ConvertGroup
  <2>5. CASE ConvertDefaults
    <3>1. \A r : r \in ToSet(httpRoutes') <=>
                   r \in ToSet(httpRoutes) \/ \E d \in ToSet(defaults) : r = DefaultRoute(d)
      BY <2>1, <2>5, DefaultsMade
    <3>2. \A r \in ToSet(httpRoutes') : RouteShape(r)
      BY <2>1, <3>1, DefaultShaped DEF ShapesInv
    <3> QED
      BY <2>5, <3>2 DEF ShapesInv, ConvertDefaults
  <2>6. CASE BuildGateway
    <3>1. PICK gw \in DOMAIN listeners :
            \/ UNCHANGED gateways
            \/ gateways' = [g \in DOMAIN gateways \cup {gw} |->
                              IF g = gw THEN ToListeners(listeners[gw]) ELSE gateways[g]]
      BY <2>6 DEF BuildGateway
    <3>2. AllProper(ToListeners(listeners[gw]))
      BY ListenersShaped
    <3>3. \A g \in DOMAIN gateways' : AllProper(gateways'[g])
      BY <3>1, <3>2 DEF ShapesInv
    <3> QED
      BY <2>6, <3>3 DEF ShapesInv, BuildGateway
  <2> QED
    BY <2>2, <2>3, <2>4, <2>5, <2>6 DEF Next, vars, Return
<1> QED
  BY <1>1, <1>2, Invariant, PathsInvariant, PTL DEF Spec

-----------------------------------------------------------------------------
(* The places of routes: a group makes the only route of its gateway and   *)
(* host that is not that of a default backend, and every gateway listens   *)
(* on port 80.                                                             *)
OfRules(r) == Ruled(r) /\ \A i \in DOMAIN r.rules : \E c : r.rules[i].matches = HTTPMatch(c)

OfDefault(r) == \E d \in ToSet(defaults) : r = DefaultRoute(d)

Site(r) == <<r.ns, r.parent, r.host>>

SiteOfKey(k) == <<k.ns, k.class, k.host>>

ListensOn80(ls) == \E l \in ToSet(ls) : l.port = 80

RoutesPlaced ==
  /\ \A r \in ToSet(httpRoutes) : OfDefault(r) \/ OfRules(r)
  /\ \A r, q \in ToSet(httpRoutes) : OfRules(r) /\ OfRules(q) /\ Site(r) = Site(q) => r = q
  /\ \A r \in ToSet(httpRoutes) : \A k \in DOMAIN groups :
       OfRules(r) /\ k.protocol = "http" => Site(r) # SiteOfKey(k)

PlacesInv ==
  /\ pc = "add" => httpRoutes = <<>>
  /\ \A k \in DOMAIN groups : k = [ns |-> k.ns, class |-> k.class, host |-> k.host, protocol |-> k.protocol]
  /\ RoutesPlaced
  /\ \A gw \in DOMAIN listeners : listeners[gw] # <<>>
  /\ \A gw \in DOMAIN gateways : ListensOn80(gateways[gw])

(* A default backend's route has a source that is a default.               *)
LEMMA DefaultIsNoRule ==
  ASSUME NEW d
  PROVE  ~OfRules(DefaultRoute(d))
<1>1. /\ DefaultRoute(d).sources[1][1].default = TRUE
      /\ 1 \in DOMAIN DefaultRoute(d).sources /\ 1 \in DOMAIN DefaultRoute(d).sources[1]
  BY DEF DefaultRoute
<1> QED
  BY <1>1 DEF OfRules, Ruled

(* The route of a group.                                                   *)
LEMMA GroupPlaced ==
  ASSUME IInv, PathsInv, ShapesInv, NEW k \in DOMAIN groups, k.protocol = "http"
  PROVE  OfRules(ToHTTPRoute(k, groups[k])) /\ Site(ToHTTPRoute(k, groups[k])) = SiteOfKey(k)
<1> PICK group : group = groups[k]
  OBVIOUS
<1> PICK r : r = RouteFor(k, group)
  OBVIOUS
<1> PICK paths : paths = PathsOf(group)
  OBVIOUS
<1>1. HoldsAsked(k, group)
  BY DEF PathsInv, AskedInv
<1>2. /\ IsList(paths) /\ IsList(r.rules) /\ IsList(r.sources) /\ DOMAIN r.rules = DOMAIN r.sources
      /\ \A i \in DOMAIN r.rules : \E q \in ToSet(paths) :
           Allowed(k, MatchKey(q)) /\ Rules(r, i, k, paths, MatchKey(q))
  BY <1>1, RouteHolds
<1>3. ASSUME NEW i \in DOMAIN r.sources, NEW j \in DOMAIN r.sources[i] PROVE ~r.sources[i][j].default
  <2>1. \E q : r.sources[i][j] = SourceOf(q)
    BY <1>2 DEF Rules, Pairwise
  <2> QED
    BY <2>1 DEF SourceOf
<1>4. Ruled(r)
  BY <1>2, <1>3 DEF Ruled
<1>5. r = ToHTTPRoute(k, group)
  BY DEF RouteFor
<1>6. Matched(r)
  BY <1>2, <1>5, RouteMatched
<1>7. Site(r) = SiteOfKey(k)
  BY RouteFields DEF Site, SiteOfKey
<1> QED
  BY <1>4, <1>5, <1>6, <1>7 DEF OfRules, Matched

(* A group becomes a route.                                                *)
LEMMA PlaceTaken == IInv /\ PathsInv /\ ShapesInv /\ PlacesInv /\ ConvertGroup => PlacesInv'
<1> SUFFICES ASSUME IInv, PathsInv, ShapesInv, PlacesInv, ConvertGroup PROVE PlacesInv'
  OBVIOUS
<1>1. PICK k \in DOMAIN groups :
        /\ groups' = [o \in DOMAIN groups \ {k} |-> groups[o]]
        /\ listeners' = WithWished(listeners, GatewayKey(k), ToListener(k, groups[k]))
        /\ IF k.protocol = "http"
           THEN httpRoutes' = Append(httpRoutes, ToHTTPRoute(k, groups[k]))
           ELSE UNCHANGED httpRoutes
  BY DEF ConvertGroup
<1>2. pc' # "add" /\ UNCHANGED <<defaults, gateways>> /\ DOMAIN groups' = DOMAIN groups \ {k}
  BY <1>1 DEF ConvertGroup
<1>3. \A r : OfDefault(r)' <=> OfDefault(r)
  BY <1>2 DEF OfDefault
<1>4. RoutesPlaced'
  <2>1. CASE k.protocol = "http"
    <3> PICK route : route = ToHTTPRoute(k, groups[k])
      OBVIOUS
    <3>1. OfRules(route) /\ Site(route) = SiteOfKey(k)
      BY <2>1, GroupPlaced
    <3> DEFINE X == ToSet(httpRoutes) \cup {route}
    <3>2. httpRoutes \in Seq(X) /\ route \in X
      BY ListShape DEF IInv, RoutesInv
    <3> HIDE DEF X
    <3>3. httpRoutes' = Append(httpRoutes, route)
      BY <1>1, <2>1
    <3>4. ToSet(httpRoutes') = ToSet(httpRoutes) \cup {route}
      BY <3>2, <3>3, AppendHolds
    <3>5. ASSUME NEW o \in DOMAIN groups', o.protocol = "http" PROVE SiteOfKey(o) # SiteOfKey(k)
      <4>1. /\ o = [ns |-> o.ns, class |-> o.class, host |-> o.host, protocol |-> o.protocol]
            /\ k = [ns |-> k.ns, class |-> k.class, host |-> k.host, protocol |-> k.protocol]
            /\ o # k
        BY <1>2, <3>5 DEF PlacesInv
      <4> QED
        BY <2>1, <3>5, <4>1 DEF SiteOfKey
    <3>6. \A r \in ToSet(httpRoutes) : OfRules(r) => Site(r) # Site(route)
      BY <2>1, <3>1 DEF PlacesInv, RoutesPlaced
    <3>7. \A r \in ToSet(httpRoutes') : (OfDefault(r) \/ OfRules(r))'
      BY <1>3, <3>1, <3>4 DEF PlacesInv, RoutesPlaced
    <3>8. \A r, q \in ToSet(httpRoutes') : OfRules(r) /\ OfRules(q) /\ Site(r) = Site(q) => r = q
      BY <3>1, <3>4, <3>6 DEF PlacesInv, RoutesPlaced
    <3>9. \A r \in ToSet(httpRoutes') : \A o \in DOMAIN groups' :
            OfRules(r) /\ o.protocol = "http" => Site(r) # SiteOfKey(o)
      BY <1>2, <3>1, <3>4, <3>5 DEF PlacesInv, RoutesPlaced
    <3> QED
      BY <3>7, <3>8, <3>9 DEF RoutesPlaced
  <2>2. CASE k.protocol # "http"
    <3>1. httpRoutes' = httpRoutes
      BY <1>1, <2>2
    <3> QED
      BY <1>2, <1>3, <3>1 DEF PlacesInv, RoutesPlaced
  <2> QED
    BY <2>1, <2>2
<1>5. ASSUME NEW gw \in DOMAIN listeners' PROVE listeners'[gw] # <<>>
  <2> PICK w : w = ToListener(k, groups[k])
    OBVIOUS
  <2>1. AllLists(listeners)
    BY DEF IInv, WishesInv, AllLists
  <2>2. listeners' = WithWished(listeners, GatewayKey(k), w)
    BY <1>1
  <2>3. Added(listeners', listeners, GatewayKey(k), w)
    BY <2>1, <2>2, WishAdded
  <2>4. CASE gw = GatewayKey(k)
    <3>1. w \in ToSet(listeners'[gw])
      BY <2>3, <2>4 DEF Added
    <3> QED
      BY <3>1, EmptyList
  <2>5. CASE gw # GatewayKey(k)
    BY <1>5, <2>3, <2>5 DEF Added, PlacesInv
  <2> QED
    BY <2>4, <2>5
<1> QED
  BY <1>2, <1>4, <1>5 DEF PlacesInv

(* The places last.                                                        *)
LEMMA PlacesInvariant == Spec => []PlacesInv
<1>1. Init => PlacesInv
  BY EmptyList DEF Init, PlacesInv, RoutesPlaced
<1>2. IInv /\ PathsInv /\ ShapesInv /\ PlacesInv /\ [Next]_vars => PlacesInv'
  <2> SUFFICES ASSUME IInv, PathsInv, ShapesInv, PlacesInv, [Next]_vars PROVE PlacesInv'
    OBVIOUS
  <2>1. FlowInv /\ IsList(httpRoutes) /\ IsList(defaults)
    BY DEF IInv, RoutesInv
  <2>2. CASE UNCHANGED vars \/ Return
    BY <2>2 DEF vars, Return, PlacesInv, RoutesPlaced, OfDefault
  <2>3. CASE AddIngresses
    <3>1. PICK asked : From(groups', asked)
      BY <2>1, <2>3, GroupsOfInput
    <3>2. \A k \in DOMAIN groups' :
            k = [ns |-> k.ns, class |-> k.class, host |-> k.host, protocol |-> k.protocol]
      BY <3>1 DEF From, KeyOf, GroupKey
    <3>3. httpRoutes' = <<>>
      BY <2>3 DEF PlacesInv, AddIngresses
    <3> QED
      BY <2>3, <3>2, <3>3, EmptyList DEF PlacesInv, RoutesPlaced, AddIngresses
  <2>4. CASE ConvertGroup
    BY <2>4, PlaceTaken
  <2>5. CASE ConvertDefaults
    <3>1. \A r : r \in ToSet(httpRoutes') <=>
                   r \in ToSet(httpRoutes) \/ \E d \in ToSet(defaults) : r = DefaultRoute(d)
      BY <2>1, <2>5, DefaultsMade
    <3>2. UNCHANGED <<groups, defaults, listeners, gateways>> /\ groups = <<>> /\ pc' # "add"
      BY <2>5 DEF ConvertDefaults
    <3>3. \A r \in ToSet(httpRoutes') : OfRules(r) => r \in ToSet(httpRoutes)
      BY <3>1, DefaultIsNoRule
    <3>4. RoutesPlaced'
      BY <3>1, <3>2, <3>3 DEF PlacesInv, RoutesPlaced, OfDefault
    <3> QED
      BY <3>2, <3>4 DEF PlacesInv
  <2>6. CASE BuildGateway
    <3>1. PICK gw \in DOMAIN listeners :
            /\ listeners' = [g \in DOMAIN listeners \ {gw} |-> listeners[g]]
            /\ \/ gateways' = [g \in DOMAIN gateways \cup {gw} |->
                                 IF g = gw THEN ToListeners(listeners[gw]) ELSE gateways[g]]
               \/ UNCHANGED gateways
      BY <2>6 DEF BuildGateway
    <3>2. IsList(listeners[gw]) /\ listeners[gw] # <<>>
      BY DEF IInv, WishesInv, PlacesInv
    <3>3. PICK w : w \in ToSet(listeners[gw])
      BY <3>2, ListShape
    <3>4. ListensOn80(ToListeners(listeners[gw]))
      BY <3>3, WishesMet DEF IInv, ListensOn80
    <3>5. \A g \in DOMAIN gateways' : ListensOn80(gateways'[g])
      BY <3>1, <3>4 DEF PlacesInv
    <3>6. \A g \in DOMAIN listeners' : listeners'[g] # <<>>
      BY <3>1 DEF PlacesInv
    <3>7. UNCHANGED <<groups, defaults, httpRoutes>> /\ pc' # "add"
      BY <2>6 DEF BuildGateway
    <3> QED
      BY <3>5, <3>6, <3>7 DEF PlacesInv, RoutesPlaced, OfDefault
  <2> QED
    BY <2>2, <2>3, <2>4, <2>5, <2>6 DEF Next
<1> QED
  BY <1>1, <1>2, Invariant, PathsInvariant, ShapesInvariant, PTL DEF Spec

-----------------------------------------------------------------------------
(* The places in the IR.                                                   *)
AtDefault(r) ==
  r.host = NoHost /\ \A i \in DOMAIN r.rules : r.rules[i].matches = <<>> /\ DOMAIN r.sources[i] = {1}

Full(r) ==
  /\ IsList(r.rules) /\ IsList(r.sources) /\ DOMAIN r.rules = DOMAIN r.sources
  /\ \A i \in DOMAIN r.rules :
       /\ r.rules[i].filters = <<>> /\ r.rules[i].backends # <<>>
       /\ IsList(r.rules[i].backends) /\ DOMAIN r.rules[i].backends = DOMAIN r.sources[i]

(* Routes without an error have a backend for every rule.                  *)
LEMMA StoredFull ==
  ASSUME IInv, PathsInv, ShapesInv, PlacesInv, pc = "done", errors = {}, NEW k \in DOMAIN ir.http,
         NEW r, r = ir.http[k]
  PROVE  r \in ToSet(httpRoutes) /\ Full(r) /\ (OfRules(r) \/ AtDefault(r))
<1>1. ir.http = ByKey(httpRoutes) /\ IsList(httpRoutes)
  BY DEF IInv, FlowInv, RoutesInv
<1>2. r \in ToSet(httpRoutes)
  BY <1>1, StoredRoutes
<1>3. Even(r) /\ NoneEmpty(r)
  <2>1. r \in ToSet(Made["http"])
    BY <1>2 DEF Made
  <2> QED
    BY <2>1 DEF PathsInv, MadeInv
<1>4. \A i \in DOMAIN r.rules :
        /\ r.rules[i].filters = <<>> /\ r.rules[i].backends # <<>>
        /\ IsList(r.rules[i].backends) /\ DOMAIN r.rules[i].backends = DOMAIN r.sources[i]
  BY <1>3 DEF Even, NoneEmpty
<1>5. CASE OfRules(r)
  BY <1>2, <1>3, <1>4, <1>5 DEF Full, OfRules, Ruled, Even
<1>6. CASE OfDefault(r)
  <2>1. PICK d \in ToSet(defaults) : r = DefaultRoute(d)
    BY <1>6 DEF OfDefault
  <2>2. ToBackendRef(d.ns, d.backend) # NoRef
    BY DEF PathsInv, DefaultsInv
  <2>3. /\ DefaultRoute(d).rules = <<[matches |-> <<>>, filters |-> <<>>,
                                      backends |-> <<ToBackendRef(d.ns, d.backend)>>]>>
        /\ DefaultRoute(d).host = NoHost
        /\ DefaultRoute(d).sources = <<<<[ing |-> <<d.ns, d.name>>, backend |-> d.backend, default |-> TRUE]>>>>
    BY <2>2 DEF DefaultRoute
  <2>4. DOMAIN r.rules = {1} /\ r.rules[1].matches = <<>> /\ r.host = NoHost
    BY <2>1, <2>3
  <2>5. DOMAIN r.sources = {1} /\ DOMAIN r.sources[1] = {1}
    BY <2>1, <2>3
  <2>6. AtDefault(r)
    BY <2>4, <2>5 DEF AtDefault
  <2> QED
    BY <1>2, <1>3, <1>4, <2>4, <2>5, <2>6 DEF Full, Even
<1> QED
  BY <1>2, <1>5, <1>6 DEF PlacesInv, RoutesPlaced

(* One route for a gateway and host.                                       *)
LEMMA StoredApart ==
  ASSUME IInv, PathsInv, ShapesInv, PlacesInv, pc = "done", errors = {},
         NEW k \in DOMAIN ir.http, NEW o \in DOMAIN ir.http, OfRules(ir.http[k]), OfRules(ir.http[o]),
         Site(ir.http[k]) = Site(ir.http[o])
  PROVE  k = o
<1>1. ir.http[k] = ir.http[o]
  BY StoredFull DEF PlacesInv, RoutesPlaced
<1>2. ir.http = ByKey(httpRoutes) /\ IsList(httpRoutes)
  BY DEF IInv, FlowInv, RoutesInv
<1>3. \A x \in DOMAIN ir.http : Key(ir.http[x]) = x
  <2> SUFFICES ASSUME NEW x \in DOMAIN ir.http PROVE Key(ir.http[x]) = x
    OBVIOUS
  <2> DEFINE keys == [i \in DOMAIN httpRoutes |-> Key(httpRoutes[i])]
             X == {Key(r) : r \in ToSet(httpRoutes)}
  <2>1. keys \in [DOMAIN httpRoutes -> X]
    BY InToSet
  <2>2. IsList(keys)
    <3> HIDE DEF keys, X
    <3> QED
      BY <1>2, <2>1, MadeList
  <2>3. ByKey(httpRoutes) = [y \in ToSet(keys) |-> httpRoutes[LastOf(keys, y)]]
    BY DEF ByKey
  <2>4. DOMAIN keys = DOMAIN httpRoutes /\ \A i \in DOMAIN httpRoutes : keys[i] = Key(httpRoutes[i])
    OBVIOUS
  <2> HIDE DEF keys, X
  <2>5. x \in ToSet(keys) /\ ir.http[x] = httpRoutes[LastOf(keys, x)]
    BY <1>2, <2>3
  <2>6. LastOf(keys, x) \in DOMAIN keys /\ keys[LastOf(keys, x)] = x
    BY <2>2, <2>5, LastStays
  <2> QED
    BY <2>4, <2>5, <2>6
<1> QED
  BY <1>1, <1>3

(* Every gateway listens on port 80.                                       *)
LEMMA StoredListens ==
  ASSUME IInv, ShapesInv, PlacesInv, pc = "done", errors = {}, NEW gw \in DOMAIN ir.gateways
  PROVE  ListensOn80(ir.gateways[gw]) /\ AllProper(ir.gateways[gw])
BY DEF IInv, FlowInv, ShapesInv, PlacesInv

(* A route of rules has a listener on port 80 that accepts its host.       *)
LEMMA StoredReaches ==
  ASSUME IInv, PathsInv, ShapesInv, PlacesInv, RoutesReachListener, pc = "done", errors = {},
         NEW k \in DOMAIN ir.http, NEW r, r = ir.http[k], OfRules(r), r.rules # <<>>
  PROVE  /\ <<r.ns, r.parent>> \in DOMAIN ir.gateways
         /\ HostNamesake(r) \/ \E l \in ToSet(ir.gateways[<<r.ns, r.parent>>]) :
                                 l.port = 80 /\ (r.host = NoHost \/ l.host = r.host)
<1>1. Full(r)
  BY StoredFull
<1>2. 1 \in DOMAIN r.rules
  BY <1>1, ListShape DEF Full
<1>3. r.rules[1].backends # <<>> /\ IsList(r.rules[1].backends) /\ DOMAIN r.rules[1].backends = DOMAIN r.sources[1]
  BY <1>1, <1>2 DEF Full
<1>4. 1 \in DOMAIN r.sources[1]
  BY <1>3, ListShape
<1>5. 1 \in DOMAIN r.sources /\ ~r.sources[1][1].default
  BY <1>1, <1>2, <1>4 DEF Full, OfRules, Ruled
<1>6. 1 \in 1..Len(r.sources) /\ 1 \in 1..Len(r.sources[1])
  <2>1. Even(r)
    <3>1. r \in ToSet(Made["http"])
      BY StoredFull DEF Made
    <3> QED
      BY <3>1 DEF PathsInv, MadeInv
  <2>2. IsList(r.sources) /\ IsList(r.sources[1])
    BY <1>5, <2>1 DEF Even
  <2> QED
    BY <1>4, <1>5, <2>2, ListShape
<1>7. (\E i \in 1..Len(r.sources) : \E j \in 1..Len(r.sources[i]) : ~r.sources[i][j].default) =>
        /\ <<r.ns, r.parent>> \in DOMAIN ir.gateways
        /\ \/ HostNamesake(r)
           \/ \E l \in ToSet(ListenersOf(r)) : l.port = 80 /\ (r.host = NoHost \/ l.host = r.host)
  BY DEF RoutesReachListener
<1> QED
  BY <1>5, <1>6, <1>7 DEF ListenersOf

-----------------------------------------------------------------------------
(* The invariant: what all features keep true of the routes they work on.  *)

BackendParts == {"svc", "port", "weight"}

(* The source of a backend has its port, and is in the input.              *)
SourcedBy(ns, b, s) ==
  /\ DOMAIN b = BackendParts
  /\ b.port = ToBackendRef(ns, s.backend).port
  /\ \/ \E o \in Occurrences : o.ing = s.ing /\ o.path.backend = s.backend
     \/ \E ing \in Ingresses : <<ing.ns, ing.name>> = s.ing /\ ing.default = s.backend

(* Every backend of a rule has a source at its position, and the rule      *)
(* redirects or has backends.                                              *)
GoodRule(ns, rule, sources) ==
  /\ DOMAIN rule = RuleParts
  /\ IsList(rule.filters) /\ IsList(rule.backends) /\ IsList(sources)
  /\ \A j \in DOMAIN rule.backends : j \in DOMAIN sources /\ SourcedBy(ns, rule.backends[j], sources[j])
  /\ IsRedirect(rule) <=> rule.backends = <<>>

GoodRoute(r) ==
  /\ DOMAIN r = RouteParts
  /\ IsList(r.rules) /\ IsList(r.sources)
  /\ \A i \in DOMAIN r.sources : IsList(r.sources[i])
  /\ \A i \in DOMAIN r.rules : i \in DOMAIN r.sources /\ GoodRule(r.ns, r.rules[i], r.sources[i])

(* As ToIR makes it: as many backends as sources.                          *)
Untouched(r) == \A i \in DOMAIN r.rules : DOMAIN r.rules[i].backends = DOMAIN r.sources[i]

(* Only the canary feature can have changed a route until it is done, and  *)
(* only for a rule group that it has visited.                              *)
Visited(k) == \E g \in RuleGroups(input.list) \ todo : GroupRoute(g) = k

NginxInv ==
  /\ DOMAIN pir = {"http", "grpc", "gateways", "tls", "backendTLS", "services"}
  /\ \A k \in DOMAIN pir.http : GoodRoute(pir.http[k])
  /\ stage = "canary" =>
       /\ todo \subseteq RuleGroups(input.list)
       /\ \A k \in DOMAIN pir.http : Untouched(pir.http[k]) \/ Visited(k)
  /\ PanicsExplained

-----------------------------------------------------------------------------
(* Lemmas about rules.                                                     *)

(* The first of a set of positions is one of them.                         *)
LEMMA FirstHolds ==
  ASSUME NEW n \in Nat, NEW S, S \subseteq 1 .. n, S # {}
  PROVE  FirstIn(S) \in S
<1>1. \E i \in S : \A j \in S : i <= j
  BY Smallest
<1> QED
  BY <1>1 DEF FirstIn

(* A canary and a stable source are two sources.                           *)
LEMMA BothFound ==
  ASSUME NEW sources, IsList(sources), HasBoth(sources)
  PROVE  /\ CanaryIdx(sources) \in DOMAIN sources /\ StableIdx(sources) \in DOMAIN sources
         /\ CanaryIdx(sources) # StableIdx(sources)
<1> DEFINE C == {i \in 1..Len(sources) : Ann(sources[i].ing).canary}
           S == {i \in 1..Len(sources) : ~Ann(sources[i].ing).canary}
<1>1. Len(sources) \in Nat /\ DOMAIN sources = 1..Len(sources)
  BY ListShape
<1>2. CanaryIdx(sources) = FirstIn(C) /\ StableIdx(sources) = FirstIn(S)
  BY DEF CanaryIdx, StableIdx
<1>3. C \subseteq 1..Len(sources) /\ S \subseteq 1..Len(sources)
  OBVIOUS
<1>4. \A i : ~(i \in C /\ i \in S)
  OBVIOUS
<1> HIDE DEF C, S
<1>5. FirstIn(C) # 0 /\ FirstIn(S) # 0
  BY <1>2 DEF HasBoth
<1>6. C # {} /\ S # {}
  BY <1>5 DEF FirstIn
<1>7. FirstIn(C) \in C /\ FirstIn(S) \in S
  BY <1>1, <1>3, <1>6, FirstHolds
<1> QED
  BY <1>1, <1>2, <1>3, <1>4, <1>7

(* A backend with another weight.                                          *)
LEMMA WeightChanged ==
  ASSUME NEW ns, NEW b, NEW s, SourcedBy(ns, b, s), NEW w
  PROVE  SourcedBy(ns, [b EXCEPT !.weight = w], s)
<1>1. DOMAIN [b EXCEPT !.weight = w] = DOMAIN b /\ [b EXCEPT !.weight = w].port = b.port
  BY DEF SourcedBy, BackendParts
<1> QED
  BY <1>1 DEF SourcedBy

(* A rule with other backends of its sources.                              *)
LEMMA OtherBackends ==
  ASSUME NEW ns, NEW rule, NEW sources, GoodRule(ns, rule, sources),
         NEW new, DOMAIN new = RuleParts, new.filters = rule.filters, IsList(new.backends),
         NEW rest, IsList(rest),
         \A j \in DOMAIN new.backends : j \in DOMAIN rest /\ SourcedBy(ns, new.backends[j], rest[j]),
         new.backends = <<>> <=> rule.backends = <<>>
  PROVE  GoodRule(ns, new, rest)
BY DEF GoodRule, IsRedirect

(* Positions in the sources that are positions of backends.                *)
Fits(rule, sources) ==
  HasBoth(sources) =>
    CanaryIdx(sources) \in DOMAIN rule.backends /\ StableIdx(sources) \in DOMAIN rule.backends

(* Setting the weights of a canary and its stable backend.                 *)
LEMMA WeightedHolds ==
  ASSUME NEW ns, NEW rule, NEW sources, GoodRule(ns, rule, sources),
         HasBoth(sources), Fits(rule, sources)
  PROVE  GoodRule(ns, Weighted(rule, sources), sources)
<1> PICK c : c = CanaryIdx(sources)
  OBVIOUS
<1> PICK s : s = StableIdx(sources)
  OBVIOUS
<1> PICK w : w = CanaryWeight(ConfigOf(sources))
  OBVIOUS
<1> PICK v : v = TotalWeight - w
  OBVIOUS
<1> PICK old : old = rule.backends
  OBVIOUS
<1> DEFINE new == [[old EXCEPT ![c].weight = w] EXCEPT ![s].weight = v]
           made == [rule EXCEPT !.backends = new]
           X == {new[j] : j \in DOMAIN old}
<1>1. /\ DOMAIN rule = RuleParts
      /\ IsList(rule.filters) /\ IsList(old) /\ IsList(sources)
      /\ \A j \in DOMAIN old : j \in DOMAIN sources /\ SourcedBy(ns, old[j], sources[j])
  BY DEF GoodRule
<1>2. c \in DOMAIN old /\ s \in DOMAIN old
  BY DEF Fits
<1>3. Weighted(rule, sources) = made
  BY <1>1, ZenonT(30) DEF Weighted, RuleParts
<1>4. DOMAIN new = DOMAIN old
  OBVIOUS
<1>5. ASSUME NEW j \in DOMAIN old PROVE SourcedBy(ns, new[j], sources[j])
  <2> DEFINE first == [old EXCEPT ![c].weight = w]
  <2>1. DOMAIN first = DOMAIN old /\ \A i \in DOMAIN old :
          first[i] = IF i = c THEN [old[i] EXCEPT !.weight = w] ELSE old[i]
    OBVIOUS
  <2>2. SourcedBy(ns, first[j], sources[j])
    BY <1>1, <2>1, WeightChanged
  <2>3. new[j] = IF j = s THEN [first[j] EXCEPT !.weight = v] ELSE first[j]
    BY <2>1
  <2> HIDE DEF first, new
  <2> QED
    BY <2>2, <2>3, WeightChanged
<1>6. new \in [DOMAIN old -> X]
  BY <1>4
<1> HIDE DEF new, X
<1>7. IsList(new) /\ (new = <<>> <=> old = <<>>)
  BY <1>1, <1>6, MadeList
<1>8. DOMAIN made = RuleParts /\ made.filters = rule.filters /\ made.backends = new
  BY <1>1 DEF RuleParts
<1> QED
  BY <1>1, <1>3, <1>4, <1>5, <1>7, <1>8, OtherBackends

(* By header only, the canary and its source leave the rule together.      *)
LEMMA CanaryLeaves ==
  ASSUME NEW ns, NEW rule, NEW sources, GoodRule(ns, rule, sources),
         HasBoth(sources), Fits(rule, sources),
         NEW c, c = CanaryIdx(sources)
  PROVE  GoodRule(ns, [rule EXCEPT !.backends = RemoveAt(@, c)], RemoveAt(sources, c))
<1> PICK old : old = rule.backends
  OBVIOUS
<1> PICK new : new = RemoveAt(old, c)
  OBVIOUS
<1> PICK rest : rest = RemoveAt(sources, c)
  OBVIOUS
<1> DEFINE made == [rule EXCEPT !.backends = new]
<1>1. /\ DOMAIN rule = RuleParts
      /\ IsList(rule.filters) /\ IsList(old) /\ IsList(sources)
      /\ \A j \in DOMAIN old : j \in DOMAIN sources /\ SourcedBy(ns, old[j], sources[j])
  BY DEF GoodRule
<1>2. PICK s : s \in DOMAIN old /\ c \in DOMAIN old /\ c # s
  BY <1>1, BothFound DEF Fits
<1>3. /\ Len(old) \in Nat /\ DOMAIN old = 1..Len(old)
      /\ Len(sources) \in Nat /\ DOMAIN sources = 1..Len(sources)
  BY <1>1, ListShape
<1>4. /\ IsList(new) /\ DOMAIN new = 1..Len(old) - 1
      /\ \A i \in DOMAIN new : new[i] = IF i < c THEN old[i] ELSE old[i + 1]
  BY <1>1, <1>2, RemoveAtHolds
<1>5. /\ IsList(rest) /\ DOMAIN rest = 1..Len(sources) - 1
      /\ \A i \in DOMAIN rest : rest[i] = IF i < c THEN sources[i] ELSE sources[i + 1]
  <2>1. c \in DOMAIN sources
    BY <1>1, <1>2
  <2> QED
    BY <1>1, <2>1, RemoveAtHolds
<1>6. ASSUME NEW j \in DOMAIN new PROVE j \in DOMAIN rest /\ SourcedBy(ns, new[j], rest[j])
  <2>1. j \in DOMAIN old /\ j + 1 \in DOMAIN old
    BY <1>3, <1>4
  <2>2. j \in DOMAIN sources /\ j + 1 \in DOMAIN sources
    BY <1>1, <2>1
  <2>3. j \in DOMAIN rest
    BY <1>3, <1>5, <2>2
  <2>4. CASE j < c
    BY <1>1, <1>4, <1>5, <2>1, <2>3, <2>4
  <2>5. CASE ~(j < c)
    BY <1>1, <1>4, <1>5, <2>1, <2>3, <2>5
  <2> QED
    BY <2>3, <2>4, <2>5
<1>7. old # <<>> /\ new # <<>>
  <2>1. 1 \in DOMAIN new
    BY <1>2, <1>3, <1>4
  <2>2. DOMAIN new # {} /\ DOMAIN old # {}
    BY <1>2, <2>1
  <2> QED
    BY <1>1, <1>4, <2>2, ListShape
<1>8. DOMAIN made = RuleParts /\ made.filters = rule.filters /\ made.backends = new
  BY <1>1 DEF RuleParts
<1>9. [rule EXCEPT !.backends = RemoveAt(@, c)] = made
  BY <1>1 DEF RuleParts
<1> HIDE DEF made
<1> QED
  BY <1>4, <1>5, <1>6, <1>7, <1>8, <1>9, OtherBackends

(* What the canary feature leaves of a rule and of its sources is good.    *)
LEMMA CanaryRuleHolds ==
  ASSUME NEW ns, NEW rule, NEW sources, GoodRule(ns, rule, sources), Fits(rule, sources)
  PROVE  GoodRule(ns, CanaryRule(rule, sources), CanarySources(sources))
<1>1. CASE ~HasBoth(sources)
  BY <1>1 DEF CanaryRule, CanarySources, HeaderOnly, ByHeader
<1>2. CASE HasBoth(sources) /\ HeaderOnly(sources)
  BY <1>2, CanaryLeaves DEF CanaryRule, CanarySources
<1>3. CASE HasBoth(sources) /\ ~HeaderOnly(sources)
  BY <1>3, WeightedHolds DEF CanaryRule, CanarySources
<1> QED
  BY <1>1, <1>2, <1>3

(* Good rules and their sources, side by side.                             *)
Aligned(ns, rules, sources) ==
  /\ IsList(rules) /\ IsList(sources) /\ DOMAIN rules = DOMAIN sources
  /\ \A i \in DOMAIN rules : GoodRule(ns, rules[i], sources[i])

(* The same, for rules and lists of sources that come from given sets.     *)
GoodPairs(ns, X, Y) == {p \in X \X Y : GoodRule(ns, p[1], p[2])}

(* Aligned is Together of Lists_proof with a set of pairs, so that its     *)
(* lemmas apply.                                                           *)
LEMMA AlignedTogether ==
  ASSUME NEW ns, NEW rules, NEW sources, NEW X, NEW Y
  PROVE  Aligned(ns, rules, sources) /\ ToSet(rules) \subseteq X /\ ToSet(sources) \subseteq Y
           <=> Together(rules, sources, GoodPairs(ns, X, Y))
<1>1. \A i : <<rules[i], sources[i]>> \in GoodPairs(ns, X, Y) <=>
               rules[i] \in X /\ sources[i] \in Y /\ GoodRule(ns, rules[i], sources[i])
  BY DEF GoodPairs
<1> QED
  BY <1>1, InToSet DEF Aligned, Together

(* Good rules after good rules.                                            *)
LEMMA AlignedConcat ==
  ASSUME NEW ns, NEW a, NEW b, Aligned(ns, a, b), NEW c, NEW d, Aligned(ns, c, d)
  PROVE  Aligned(ns, a \o c, b \o d)
<1> DEFINE X == ToSet(a) \cup ToSet(c)
           Y == ToSet(b) \cup ToSet(d)
<1>1. ToSet(a) \subseteq X /\ ToSet(c) \subseteq X /\ ToSet(b) \subseteq Y /\ ToSet(d) \subseteq Y
  OBVIOUS
<1> HIDE DEF X, Y
<1>2. Together(a, b, GoodPairs(ns, X, Y)) /\ Together(c, d, GoodPairs(ns, X, Y))
  BY <1>1, AlignedTogether
<1>3. Together(a \o c, b \o d, GoodPairs(ns, X, Y))
  BY <1>2, TogetherConcat
<1> QED
  BY <1>3, AlignedTogether

(* Lists of good rules, made into one.                                     *)
LEMMA AlignedFlatten ==
  ASSUME NEW ns, NEW s, IsList(s), NEW t, IsList(t), DOMAIN s = DOMAIN t,
         \A i \in DOMAIN s : Aligned(ns, s[i], t[i])
  PROVE  Aligned(ns, FlattenSeq(s), FlattenSeq(t))
<1> DEFINE X == UNION {ToSet(s[i]) : i \in DOMAIN s}
           Y == UNION {ToSet(t[i]) : i \in DOMAIN s}
<1>1. \A i \in DOMAIN s : ToSet(s[i]) \subseteq X /\ ToSet(t[i]) \subseteq Y
  OBVIOUS
<1> HIDE DEF X, Y
<1>2. \A i \in DOMAIN s : Together(s[i], t[i], GoodPairs(ns, X, Y))
  BY <1>1, AlignedTogether
<1>3. Together(FlattenSeq(s), FlattenSeq(t), GoodPairs(ns, X, Y))
  BY <1>2, TogetherFlatten
<1> QED
  BY <1>3, AlignedTogether

(* One good rule.                                                          *)
LEMMA AlignedOne ==
  ASSUME NEW ns, NEW rule, NEW sources, GoodRule(ns, rule, sources)
  PROVE  Aligned(ns, <<rule>>, <<sources>>)
<1>1. \A x : IsList(<<x>>)
  BY SeqIsList, LiteralHolds
<1>2. \A x : DOMAIN <<x>> = {1} /\ <<x>>[1] = x
  OBVIOUS
<1> QED
  BY <1>1, <1>2 DEF Aligned

(* No rule.                                                                *)
LEMMA AlignedNone ==
  ASSUME NEW ns
  PROVE  Aligned(ns, <<>>, <<>>)
<1>1. DOMAIN <<>> = {}
  OBVIOUS
<1> QED
  BY <1>1, EmptyList DEF Aligned

(* A rule for a value of the canary header sends to one backend.           *)
LEMMA HeaderRuleHolds ==
  ASSUME NEW ns, NEW rule, NEW value, NEW b, NEW s, SourcedBy(ns, b, s),
         NEW sources, IsList(sources), 1 \in DOMAIN sources, sources[1] = s
  PROVE  GoodRule(ns, HeaderRule(rule, value, b), sources)
<1> PICK light : light = [b EXCEPT !.weight = NoWeight]
  OBVIOUS
<1> PICK made : made = HeaderRule(rule, value, b)
  OBVIOUS
<1>1. SourcedBy(ns, light, s)
  BY WeightChanged
<1>2. DOMAIN made = RuleParts /\ made.filters = <<>> /\ made.backends = <<light>>
  BY DEF HeaderRule, RuleParts
<1>3. IsList(<<>>) /\ IsList(<<light>>)
  BY EmptyList, SeqIsList, LiteralHolds
<1>4. DOMAIN <<light>> = {1} /\ <<light>>[1] = light /\ <<light>> # <<>>
  OBVIOUS
<1>5. ~IsRedirect(made)
  BY <1>2, EmptyList DEF IsRedirect
<1> QED
  BY <1>1, <1>2, <1>3, <1>4, <1>5 DEF GoodRule

(* The rules that the canary feature adds for header values.               *)
LEMMA HeaderRulesHold ==
  ASSUME NEW ns, NEW rule, NEW sources, GoodRule(ns, rule, sources), Fits(rule, sources)
  PROVE  Aligned(ns, HeaderRules(rule, sources), HeaderSources(sources))
<1> PICK c : c = CanaryIdx(sources)
  OBVIOUS
<1> PICK s : s = StableIdx(sources)
  OBVIOUS
<1>3. CASE ~ByHeader(sources)
  BY <1>3, AlignedNone DEF HeaderRules, HeaderSources
<1>4. CASE ByHeader(sources)
  <2> PICK value : value = ConfigOf(sources).value
    OBVIOUS
  <2> PICK r1 : r1 = HeaderRule(rule, IF value # NoValue THEN value ELSE "always", rule.backends[c])
    OBVIOUS
  <2> PICK r2 : r2 = HeaderRule(rule, "never", rule.backends[s])
    OBVIOUS
  <2> PICK both : both = <<sources[c], sources[s]>>
    OBVIOUS
  <2> PICK one : one = <<sources[s]>>
    OBVIOUS
  <2>1. SourcedBy(ns, rule.backends[c], sources[c]) /\ SourcedBy(ns, rule.backends[s], sources[s])
    BY <1>4 DEF ByHeader, Fits, GoodRule
  <2>2. GoodRule(ns, r1, both)
    <3>1. \A x, y : <<x, y>> \in Seq({x, y}) /\ 1 \in DOMAIN <<x, y>> /\ <<x, y>>[1] = x
      OBVIOUS
    <3>2. IsList(both)
      <4>1. both \in Seq({sources[c], sources[s]})
        BY <3>1
      <4> QED
        BY <4>1, SeqIsList
    <3> QED
      BY <2>1, <3>1, <3>2, HeaderRuleHolds
  <2>3. GoodRule(ns, r2, one)
    <3>1. \A x : <<x>> \in Seq({x}) /\ 1 \in DOMAIN <<x>> /\ <<x>>[1] = x
      OBVIOUS
    <3>2. IsList(one)
      BY <3>1, SeqIsList
    <3> QED
      BY <2>1, <3>1, <3>2, HeaderRuleHolds
  <2> PICK others : others = IF value # NoValue THEN <<>> ELSE <<r2>>
    OBVIOUS
  <2> PICK rest : rest = IF value # NoValue THEN <<>> ELSE <<one>>
    OBVIOUS
  <2>4. HeaderRules(rule, sources) = <<r1>> \o others /\ HeaderSources(sources) = <<both>> \o rest
    BY <1>4 DEF HeaderRules, HeaderSources
  <2>5. Aligned(ns, others, rest)
    BY <2>3, AlignedNone, AlignedOne
  <2> QED
    BY <2>2, <2>4, <2>5, AlignedOne, AlignedConcat
<1> QED
  BY <1>3, <1>4

-----------------------------------------------------------------------------
(* Lemmas about routes.                                                    *)

RouteFits(r) == \A i \in DOMAIN r.rules : Fits(r.rules[i], r.sources[i])

(* Rules that fit their sources do not make the feature panic.             *)
LEMMA NoIndexPanics ==
  ASSUME NEW r, GoodRoute(r), ~IndexPanics(r)
  PROVE  RouteFits(r)
<1> SUFFICES ASSUME NEW i \in DOMAIN r.rules, HasBoth(r.sources[i])
             PROVE  /\ CanaryIdx(r.sources[i]) \in DOMAIN r.rules[i].backends
                    /\ StableIdx(r.sources[i]) \in DOMAIN r.rules[i].backends
  BY DEF RouteFits, Fits
<1>1. i \in 1..Len(r.rules)
  BY ListShape DEF GoodRoute
<1>2. /\ ~(CanaryIdx(r.sources[i]) > Len(r.rules[i].backends))
      /\ ~(StableIdx(r.sources[i]) > Len(r.rules[i].backends))
  BY <1>1 DEF IndexPanics
<1>3. IsList(r.sources[i]) /\ IsList(r.rules[i].backends)
  BY DEF GoodRoute, GoodRule
<1>4. CanaryIdx(r.sources[i]) \in 1..Len(r.sources[i]) /\ StableIdx(r.sources[i]) \in 1..Len(r.sources[i])
  BY <1>3, BothFound, ListShape
<1>5. Len(r.rules[i].backends) \in Nat /\ DOMAIN r.rules[i].backends = 1..Len(r.rules[i].backends)
  BY <1>3, ListShape
<1>6. Len(r.sources[i]) \in Nat
  BY <1>3, ListShape
<1> QED
  BY <1>2, <1>4, <1>5, <1>6

(* A route with other rules, side by side with other sources.              *)
LEMMA OtherRules ==
  ASSUME NEW r, GoodRoute(r), NEW new, DOMAIN new = RouteParts, new.ns = r.ns,
         Aligned(r.ns, new.rules, new.sources)
  PROVE  GoodRoute(new)
<1>1. \A i \in DOMAIN new.sources : IsList(new.sources[i])
  BY DEF Aligned, GoodRule
<1> QED
  BY <1>1 DEF GoodRoute, Aligned

(* canaryFeature, for a route whose rules fit their sources.               *)
LEMMA CanaryAligned ==
  ASSUME NEW r, GoodRoute(r), RouteFits(r)
  PROVE  Aligned(r.ns, CanaryRoute(r).rules, CanaryRoute(r).sources)
<1> DEFINE n == 1..Len(r.rules)
           rules == [i \in n |-> CanaryRule(r.rules[i], r.sources[i])]
           sources == [i \in n |-> CanarySources(r.sources[i])]
           extra == [i \in n |-> HeaderRules(r.rules[i], r.sources[i])]
           more == [i \in n |-> HeaderSources(r.sources[i])]
<1>1. DOMAIN r = RouteParts /\ IsList(r.rules) /\ DOMAIN r.rules = n
  BY ListShape DEF GoodRoute
<1>2. \A i \in n : GoodRule(r.ns, r.rules[i], r.sources[i]) /\ Fits(r.rules[i], r.sources[i])
  BY <1>1 DEF GoodRoute, RouteFits
<1>3. /\ DOMAIN rules = n /\ DOMAIN sources = n /\ DOMAIN extra = n /\ DOMAIN more = n
      /\ \A i \in n : /\ rules[i] = CanaryRule(r.rules[i], r.sources[i])
                      /\ sources[i] = CanarySources(r.sources[i])
                      /\ extra[i] = HeaderRules(r.rules[i], r.sources[i])
                      /\ more[i] = HeaderSources(r.sources[i])
  OBVIOUS
<1>4. IsList(rules) /\ IsList(sources) /\ IsList(extra) /\ IsList(more)
  <2>1. ASSUME NEW f, f = [i \in n |-> f[i]] PROVE IsList(f)
    <3> DEFINE X == {f[i] : i \in n}
    <3>1. f \in [DOMAIN r.rules -> X]
      BY <1>1, <2>1
    <3> HIDE DEF X
    <3> QED
      BY <1>1, <3>1, MadeList
  <2> QED
    BY <2>1
<1>5. CanaryRoute(r).rules = rules \o FlattenSeq(extra)
  BY <1>1 DEF CanaryRoute, RouteParts
<1>6. CanaryRoute(r).sources = sources \o FlattenSeq(more)
  BY <1>1 DEF CanaryRoute, RouteParts
<1> HIDE DEF rules, sources, extra, more, n
<1>8. Aligned(r.ns, rules, sources)
  BY <1>2, <1>3, <1>4, CanaryRuleHolds DEF Aligned
<1>9. Aligned(r.ns, FlattenSeq(extra), FlattenSeq(more))
  <2>1. \A i \in n : Aligned(r.ns, extra[i], more[i])
    BY <1>2, <1>3, HeaderRulesHold
  <2> QED
    BY <1>3, <1>4, <2>1, AlignedFlatten
<1> QED
  BY <1>5, <1>6, <1>8, <1>9, AlignedConcat

(* The route stays good.                                                   *)
LEMMA CanaryRouteHolds ==
  ASSUME NEW r, GoodRoute(r), RouteFits(r)
  PROVE  GoodRoute(CanaryRoute(r))
<1>1. CanaryRoute(r).ns = r.ns /\ DOMAIN CanaryRoute(r) = RouteParts
  BY DEF CanaryRoute, RouteParts, GoodRoute
<1> QED
  BY <1>1, CanaryAligned, OtherRules

(* A route with other rules for the same sources.                          *)
LEMMA RulesChanged ==
  ASSUME NEW r, GoodRoute(r), NEW f, f = [i \in 1..Len(r.rules) |-> f[i]],
         \A i \in DOMAIN r.rules : GoodRule(r.ns, f[i], r.sources[i])
  PROVE  GoodRoute([r EXCEPT !.rules = f])
<1> DEFINE new == [r EXCEPT !.rules = f]
           X == {f[i] : i \in DOMAIN r.rules}
<1>1. DOMAIN r = RouteParts /\ IsList(r.rules) /\ IsList(r.sources) /\ DOMAIN r.rules = 1..Len(r.rules)
  BY ListShape DEF GoodRoute
<1>2. f \in [DOMAIN r.rules -> X] /\ DOMAIN f = DOMAIN r.rules
  BY <1>1
<1> HIDE DEF X
<1>3. IsList(f)
  BY <1>1, <1>2, MadeList
<1>4. DOMAIN new = RouteParts /\ new.rules = f /\ new.sources = r.sources /\ new.ns = r.ns
  BY <1>1 DEF RouteParts
<1> HIDE DEF new
<1>5. GoodRoute(new)
  BY <1>1, <1>2, <1>3, <1>4 DEF GoodRoute
<1> QED
  BY <1>5 DEF new

(* One more filter, after which the rule redirects if it did or the new    *)
(* filter does.                                                            *)
LEMMA FilterAdded ==
  ASSUME NEW rule, IsList(rule.filters), NEW new, NEW f, new.filters = Append(rule.filters, f)
  PROVE  IsList(new.filters) /\ (IsRedirect(new) <=> IsRedirect(rule) \/ f[1] = "redirect")
<1> PICK s : s = rule.filters
  OBVIOUS
<1> DEFINE X == ToSet(s) \cup {f}
<1>1. s \in Seq(ToSet(s))
  BY ListShape
<1>2. s \in Seq(X) /\ f \in X
  BY <1>1
<1> HIDE DEF X
<1>3. Append(s, f) \in Seq(X) /\ ToSet(Append(s, f)) = ToSet(s) \cup {f}
  BY <1>2, AppendHolds
<1>4. IsList(Append(s, f))
  BY <1>3, SeqIsList
<1> QED
  BY <1>3, <1>4 DEF IsRedirect

(* A rule that becomes a redirect loses its backends.                      *)
LEMMA RedirectHolds ==
  ASSUME NEW ns, NEW rule, NEW sources, GoodRule(ns, rule, sources), NEW f, f[1] = "redirect"
  PROVE  GoodRule(ns, Redirecting(rule, f), sources)
<1> PICK new : new = Redirecting(rule, f)
  OBVIOUS
<1>1. DOMAIN new = RuleParts /\ new.filters = Append(rule.filters, f) /\ new.backends = <<>>
  BY DEF GoodRule, RuleParts, Redirecting
<1>2. IsList(new.filters) /\ IsRedirect(new)
  BY <1>1, FilterAdded DEF GoodRule
<1>3. IsList(<<>>) /\ DOMAIN <<>> = {}
  BY EmptyList
<1>4. GoodRule(ns, new, sources)
  BY <1>1, <1>2, <1>3 DEF GoodRule
<1> QED
  BY <1>4

(* redirectFeature                                                         *)
LEMMA RedirectRouteHolds ==
  ASSUME NEW r, GoodRoute(r)
  PROVE  GoodRoute(RedirectRoute(r))
<1> DEFINE New(i) == Redirecting(r.rules[i], <<"redirect", "url">>)
           f == [i \in 1..Len(r.rules) |-> IF AsksRedirect(r, i) THEN New(i) ELSE r.rules[i]]
<1>1. DOMAIN r.rules = 1..Len(r.rules) /\ DOMAIN r = RouteParts
  BY ListShape DEF GoodRoute
<1>2. RedirectRoute(r) = [r EXCEPT !.rules = f]
  BY <1>1 DEF RedirectRoute, RouteParts
<1>3. <<"redirect", "url">>[1] = "redirect"
  OBVIOUS
<1>4. \A i \in DOMAIN r.rules : GoodRule(r.ns, New(i), r.sources[i])
  BY <1>3, RedirectHolds DEF GoodRoute
<1>5. f = [i \in 1..Len(r.rules) |-> f[i]] /\ \A i \in DOMAIN r.rules : f[i] = New(i) \/ f[i] = r.rules[i]
  BY <1>1
<1> HIDE DEF New, f
<1>6. \A i \in DOMAIN r.rules : GoodRule(r.ns, f[i], r.sources[i])
  BY <1>4, <1>5 DEF GoodRoute
<1>7. GoodRoute([r EXCEPT !.rules = f])
  BY <1>5, <1>6, RulesChanged
<1> QED
  BY <1>2, <1>7

(* headerModifierFeature                                                   *)
LEMMA HeaderModifierHolds ==
  ASSUME NEW r, GoodRoute(r)
  PROVE  GoodRoute(HeaderModifierRoute(r))
<1> DEFINE New(i) == SettingHeaders(r.rules[i])
           f == [i \in 1..Len(r.rules) |-> IF AsksHeaders(r, i) THEN New(i) ELSE r.rules[i]]
<1>1. DOMAIN r.rules = 1..Len(r.rules) /\ DOMAIN r = RouteParts
  BY ListShape DEF GoodRoute
<1>2. HeaderModifierRoute(r) = [r EXCEPT !.rules = f]
  BY <1>1 DEF HeaderModifierRoute, RouteParts
<1>3. <<"headers", "set">>[1] # "redirect"
  OBVIOUS
<1>4. ASSUME NEW i \in DOMAIN r.rules PROVE GoodRule(r.ns, New(i), r.sources[i])
  <2> PICK rule : rule = r.rules[i]
    OBVIOUS
  <2> PICK new : new = New(i)
    OBVIOUS
  <2>1. GoodRule(r.ns, rule, r.sources[i])
    BY DEF GoodRoute
  <2>2. DOMAIN new = RuleParts /\ new.filters = Append(rule.filters, <<"headers", "set">>)
        /\ new.backends = rule.backends
    BY <2>1 DEF GoodRule, RuleParts, SettingHeaders
  <2>3. IsList(rule.filters)
    BY <2>1 DEF GoodRule
  <2>4. IsList(new.filters) /\ (IsRedirect(new) <=> IsRedirect(rule) \/ <<"headers", "set">>[1] = "redirect")
    BY <2>2, <2>3, FilterAdded
  <2> QED
    BY <1>3, <2>1, <2>2, <2>4 DEF GoodRule
<1>5. f = [i \in 1..Len(r.rules) |-> f[i]] /\ \A i \in DOMAIN r.rules : f[i] = New(i) \/ f[i] = r.rules[i]
  BY <1>1
<1> HIDE DEF New, f
<1>6. \A i \in DOMAIN r.rules : GoodRule(r.ns, f[i], r.sources[i])
  BY <1>4, <1>5 DEF GoodRoute
<1>7. GoodRoute([r EXCEPT !.rules = f])
  BY <1>5, <1>6, RulesChanged
<1> QED
  BY <1>2, <1>7

(* regexFeature                                                            *)
LEMMA RegexRouteHolds ==
  ASSUME NEW r, GoodRoute(r)
  PROVE  GoodRoute(RegexRoute(r))
<1> DEFINE f == [i \in 1..Len(r.rules) |-> RegexRule(r.rules[i])]
<1>1. DOMAIN r.rules = 1..Len(r.rules) /\ DOMAIN r = RouteParts
  BY ListShape DEF GoodRoute
<1>2. RegexRoute(r) = r \/ RegexRoute(r) = [r EXCEPT !.rules = f]
  BY <1>1 DEF RegexRoute, RouteParts
<1>3. f = [i \in 1..Len(r.rules) |-> f[i]] /\ \A i \in DOMAIN r.rules : f[i] = RegexRule(r.rules[i])
  BY <1>1
<1>4. ASSUME NEW i \in DOMAIN r.rules PROVE GoodRule(r.ns, f[i], r.sources[i])
  <2> PICK rule : rule = r.rules[i]
    OBVIOUS
  <2>1. GoodRule(r.ns, rule, r.sources[i])
    BY DEF GoodRoute
  <2>2. f[i] = [rule EXCEPT !.matches = RegexMatches(rule.matches)]
    BY <1>3 DEF RegexRule
  <2> HIDE DEF f
  <2>3. DOMAIN f[i] = RuleParts /\ f[i].filters = rule.filters /\ f[i].backends = rule.backends
    BY <2>1, <2>2 DEF GoodRule, RuleParts
  <2> QED
    BY <2>1, <2>3 DEF GoodRule, IsRedirect
<1> HIDE DEF f
<1>5. GoodRoute([r EXCEPT !.rules = f])
  BY <1>3, <1>4, RulesChanged
<1> QED
  BY <1>2, <1>5

(* A rule that keeps some of its backends, and their sources.              *)
LEMMA BackendsLeave ==
  ASSUME NEW ns, NEW rule, NEW sources, GoodRule(ns, rule, sources),
         NEW kept, IsList(kept), kept # <<>>, ToSet(kept) \subseteq DOMAIN rule.backends
  PROVE  GoodRule(ns, WithBackends(rule, kept), [m \in DOMAIN kept |-> sources[kept[m]]])
<1> PICK old : old = rule.backends
  OBVIOUS
<1> DEFINE bs == [m \in DOMAIN kept |-> old[kept[m]]]
           rest == [m \in DOMAIN kept |-> sources[kept[m]]]
           X == {old[kept[m]] : m \in DOMAIN kept}
           Y == {sources[kept[m]] : m \in DOMAIN kept}
           new == [rule EXCEPT !.backends = bs]
<1>1. bs \in [DOMAIN kept -> X] /\ rest \in [DOMAIN kept -> Y]
  OBVIOUS
<1>2. \A m \in DOMAIN kept : bs[m] = old[kept[m]] /\ rest[m] = sources[kept[m]]
  OBVIOUS
<1>3. DOMAIN rule = RuleParts
  BY DEF GoodRule
<1>4. WithBackends(rule, kept) = new
  BY DEF WithBackends
<1> HIDE DEF bs, rest, X, Y
<1>5. IsList(bs) /\ IsList(rest) /\ DOMAIN bs = DOMAIN kept /\ DOMAIN rest = DOMAIN kept /\ bs # <<>>
  BY <1>1, MadeList
<1>6. DOMAIN new = RuleParts /\ new.filters = rule.filters /\ new.backends = bs
  BY <1>3 DEF RuleParts
<1> HIDE DEF new
<1>7. \A m \in DOMAIN kept : kept[m] \in DOMAIN old
  BY InToSet
<1>8. old # <<>>
  <2>1. DOMAIN kept # {}
    BY ListShape
  <2>2. DOMAIN <<>> = {}
    OBVIOUS
  <2> QED
    BY <1>7, <2>1, <2>2
<1>9. \A m \in DOMAIN bs : m \in DOMAIN rest /\ SourcedBy(ns, bs[m], rest[m])
  BY <1>2, <1>5, <1>7 DEF GoodRule
<1>10. GoodRule(ns, new, rest)
  BY <1>5, <1>6, <1>8, <1>9, OtherBackends
<1> QED
  BY <1>4, <1>10 DEF rest

(* stripPassthroughRules                                                   *)
LEMMA StripHolds ==
  ASSUME NEW r, GoodRoute(r)
  PROVE  GoodRoute(Strip(r))
<1> DEFINE stays(i) == {j \in DOMAIN r.rules[i].backends : HasSource(r, i, j) => ~IsPassthrough(r.sources[i][j])}
           kept(i) == Keep(Positions(r.rules[i].backends), stays(i))
           full == {i \in DOMAIN r.rules : kept(i) # <<>>}
           rest == Keep(Positions(r.rules), full)
           sourced(i) == Keep(kept(i), {j \in stays(i) : HasSource(r, i, j)})
           rules == [n \in DOMAIN rest |-> WithBackends(r.rules[rest[n]], kept(rest[n]))]
           sources == [n \in DOMAIN rest |->
                         [m \in DOMAIN sourced(rest[n]) |-> r.sources[rest[n]][sourced(rest[n])[m]]]]
           X == {WithBackends(r.rules[rest[n]], kept(rest[n])) : n \in DOMAIN rest}
           Y == {[m \in DOMAIN sourced(rest[n]) |-> r.sources[rest[n]][sourced(rest[n])[m]]] : n \in DOMAIN rest}
           new == [r EXCEPT !.rules = rules, !.sources = sources]
<1>1. DOMAIN r = RouteParts /\ IsList(r.rules) /\ IsList(r.sources)
  BY DEF GoodRoute
<1>2. Strip(r) = new
  BY Zenon DEF Strip
<1>3. rules \in [DOMAIN rest -> X] /\ sources \in [DOMAIN rest -> Y]
  BY ZenonT(30)
<1>4. \A n \in DOMAIN rest :
        /\ rules[n] = WithBackends(r.rules[rest[n]], kept(rest[n]))
        /\ sources[n] = [m \in DOMAIN sourced(rest[n]) |-> r.sources[rest[n]][sourced(rest[n])[m]]]
  BY Zenon
<1>5. ASSUME NEW i \in full
      PROVE  /\ i \in DOMAIN r.rules
             /\ IsList(kept(i)) /\ kept(i) # <<>> /\ ToSet(kept(i)) \subseteq DOMAIN r.rules[i].backends
             /\ sourced(i) = kept(i)
  <2> PICK bs : bs = r.rules[i].backends
    OBVIOUS
  <2> DEFINE S == {j \in stays(i) : HasSource(r, i, j)}
  <2>1. GoodRule(r.ns, r.rules[i], r.sources[i]) /\ i \in DOMAIN r.sources
    BY DEF GoodRoute
  <2>2. IsList(bs) /\ IsList(r.sources[i]) /\ \A j \in DOMAIN bs : j \in DOMAIN r.sources[i]
    BY <2>1 DEF GoodRule
  <2>3. DOMAIN r.sources = 1..Len(r.sources) /\ DOMAIN r.sources[i] = 1..Len(r.sources[i])
    BY <1>1, <2>2, ListShape
  <2>4. \A j \in DOMAIN bs : HasSource(r, i, j)
    BY <2>1, <2>2, <2>3 DEF HasSource
  <2>5. stays(i) \subseteq DOMAIN bs /\ stays(i) \subseteq S
    BY <2>4
  <2>6. kept(i) = Keep(Positions(bs), stays(i)) /\ sourced(i) = Keep(kept(i), S) /\ kept(i) # <<>>
    OBVIOUS
  <2> HIDE DEF stays, kept, sourced, S, full
  <2>7. IsList(kept(i)) /\ ToSet(kept(i)) = stays(i)
    BY <2>2, <2>5, <2>6, PositionsKept
  <2>8. sourced(i) = kept(i)
    BY <2>5, <2>6, <2>7, KeepAll
  <2>9. i \in DOMAIN r.rules
    BY DEF full
  <2> QED
    BY <2>5, <2>6, <2>7, <2>8, <2>9
<1>6. full \subseteq DOMAIN r.rules
  BY Zenon
<1>7. DOMAIN new = RouteParts /\ new.ns = r.ns /\ new.rules = rules /\ new.sources = sources
  BY <1>1, Zenon DEF RouteParts
<1> HIDE DEF full, kept, sourced, stays, rules, sources, X, Y, new
<1>8. IsList(rest) /\ ToSet(rest) = full
  BY <1>1, <1>6, PositionsKept
<1> HIDE DEF rest
<1>9. /\ IsList(rules) /\ IsList(sources)
      /\ DOMAIN rules = DOMAIN rest /\ DOMAIN sources = DOMAIN rest
  BY <1>3, <1>8, MadeList
<1>10. ASSUME NEW n \in DOMAIN rules PROVE GoodRule(r.ns, rules[n], sources[n])
  <2> PICK i : i = rest[n]
    OBVIOUS
  <2> PICK k : k = kept(i)
    OBVIOUS
  <2>1. i \in full
    BY <1>8, <1>9, InToSet
  <2>2. GoodRule(r.ns, r.rules[i], r.sources[i])
    BY <1>5, <2>1 DEF GoodRoute
  <2>3. IsList(k) /\ k # <<>> /\ ToSet(k) \subseteq DOMAIN r.rules[i].backends /\ sourced(i) = k
    BY <1>5, <2>1
  <2>4. GoodRule(r.ns, WithBackends(r.rules[i], k), [m \in DOMAIN k |-> r.sources[i][k[m]]])
    BY <2>2, <2>3, BackendsLeave
  <2> QED
    BY <1>4, <1>9, <2>3, <2>4
<1>11. Aligned(r.ns, rules, sources)
  BY <1>9, <1>10 DEF Aligned
<1>12. GoodRoute(new)
  BY <1>7, <1>11, OtherRules
<1> QED
  BY <1>2, <1>12

(* A list with one more element.                                           *)
OneLonger(t, s, e) ==
  /\ IsList(t) /\ Len(s) \in Nat
  /\ DOMAIN t = 1..Len(s) + 1 /\ t[Len(s) + 1] = e
  /\ \A i \in DOMAIN s : t[i] = s[i]

(* What Append gives, said without naming it.                              *)
LEMMA OneMore ==
  ASSUME NEW s, IsList(s), NEW e
  PROVE  OneLonger(Append(s, e), s, e)
<1> PICK t : t = Append(s, e)
  OBVIOUS
<1> DEFINE X == ToSet(s) \cup {e}
<1>1. s \in Seq(ToSet(s)) /\ Len(s) \in Nat /\ DOMAIN s = 1..Len(s)
  BY ListShape
<1>2. s \in Seq(X) /\ e \in X
  BY <1>1
<1> HIDE DEF X
<1>3. t \in Seq(X) /\ Len(t) = Len(s) + 1 /\ t[Len(s) + 1] = e /\ \A i \in 1..Len(s) : t[i] = s[i]
  BY <1>2
<1>4. IsList(t)
  BY <1>3, SeqIsList
<1>5. DOMAIN t = 1..Len(s) + 1
  BY <1>3
<1>6. OneLonger(t, s, e)
  BY <1>1, <1>3, <1>4, <1>5 DEF OneLonger
<1> QED
  BY <1>6

(* A rule that redirects the root joins the others.                        *)
LEMMA RuleJoins ==
  ASSUME NEW r, GoodRoute(r), NEW rule, DOMAIN rule = RuleParts,
         IsList(rule.filters), IsRedirect(rule), rule.backends = <<>>
  PROVE  GoodRoute([r EXCEPT !.rules = Append(@, rule), !.sources = Append(@, <<>>)])
<1> PICK rules : rules = Append(r.rules, rule)
  OBVIOUS
<1> PICK sources : sources = Append(r.sources, <<>>)
  OBVIOUS
<1> PICK new : new = [r EXCEPT !.rules = Append(@, rule), !.sources = Append(@, <<>>)]
  OBVIOUS
<1>1. /\ DOMAIN r = RouteParts /\ IsList(r.rules) /\ IsList(r.sources)
      /\ \A i \in DOMAIN r.sources : IsList(r.sources[i])
      /\ \A i \in DOMAIN r.rules : i \in DOMAIN r.sources /\ GoodRule(r.ns, r.rules[i], r.sources[i])
  BY DEF GoodRoute
<1>2. DOMAIN new = RouteParts /\ new.ns = r.ns /\ new.rules = rules /\ new.sources = sources
  BY <1>1 DEF RouteParts
<1> PICK n : n = Len(r.rules)
  OBVIOUS
<1> PICK m : m = Len(r.sources)
  OBVIOUS
<1>3. /\ IsList(rules) /\ n \in Nat /\ DOMAIN rules = 1..n + 1 /\ rules[n + 1] = rule
      /\ \A i \in DOMAIN r.rules : rules[i] = r.rules[i]
  BY <1>1, OneMore DEF OneLonger
<1>4. /\ IsList(sources) /\ m \in Nat /\ DOMAIN sources = 1..m + 1 /\ sources[m + 1] = <<>>
      /\ \A i \in DOMAIN r.sources : sources[i] = r.sources[i]
  BY <1>1, OneMore DEF OneLonger
<1>5. DOMAIN r.rules = 1..n /\ DOMAIN r.sources = 1..m
  BY <1>1, ListShape
<1>6. n <= m
  <2>1. \A i \in 1..n : i \in 1..m
    BY <1>1, <1>5
  <2>2. n = 0 \/ n \in 1..n
    BY <1>3
  <2> QED
    BY <1>4, <2>1, <2>2
<1>7. \A i \in DOMAIN sources : IsList(sources[i])
  <2>1. \A i \in 1..m + 1 : i \in 1..m \/ i = m + 1
    BY <1>4
  <2> QED
    BY <1>1, <1>4, <1>5, <2>1, EmptyList
<1>8. \A i \in DOMAIN rules : i \in DOMAIN sources
  BY <1>3, <1>4, <1>6
<1>9. ASSUME NEW i \in DOMAIN rules PROVE GoodRule(r.ns, rules[i], sources[i])
  <2>1. i \in 1..n \/ i = n + 1
    BY <1>3
  <2>2. CASE i \in 1..n
    BY <1>1, <1>3, <1>4, <1>5, <2>2
  <2>3. CASE i = n + 1
    <3>1. DOMAIN <<>> = {}
      OBVIOUS
    <3> QED
      BY <1>3, <1>7, <1>8, <2>3, <3>1, EmptyList DEF GoodRule
  <2> QED
    BY <2>1, <2>2, <2>3
<1>10. GoodRoute(new)
  BY <1>2, <1>3, <1>4, <1>7, <1>8, <1>9 DEF GoodRoute
<1> QED
  BY <1>10

(* appRootFeature                                                          *)
LEMMA AppRootHolds ==
  ASSUME NEW r, GoodRoute(r)
  PROVE  GoodRoute(AppRootRoute(r))
<1> DEFINE S == {i \in 1..Len(r.rules) : AsksAppRoot(r, i)}
           filter == <<"redirect", "root">>
           rule == [matches |-> <<[type |-> "Exact", path |-> <<>>, header |-> <<>>]>>,
                    filters |-> <<filter>>, backends |-> <<>>]
           joined == [r EXCEPT !.rules = Append(@, rule), !.sources = Append(@, <<>>)]
           changed == [r EXCEPT !.rules[FirstIn(S)] = Redirecting(@, filter)]
<1>1. DOMAIN r = RouteParts /\ IsList(r.rules) /\ DOMAIN r.rules = 1..Len(r.rules) /\ Len(r.rules) \in Nat
  BY ListShape DEF GoodRoute
<1>2. \/ AppRootRoute(r) = r
      \/ FirstIn(S) # 0 /\ AppRootRoute(r) = changed
      \/ AppRootRoute(r) = joined
  BY DEF AppRootRoute
<1>3. filter[1] = "redirect"
  OBVIOUS
<1>4. GoodRoute(joined)
  <2>1. DOMAIN rule = RuleParts /\ rule.filters = <<filter>> /\ rule.backends = <<>>
    BY DEF RuleParts
  <2> HIDE DEF rule
  <2>2. IsList(<<filter>>) /\ ToSet(<<filter>>) = {filter}
    BY SeqIsList, LiteralHolds
  <2>3. IsRedirect(rule)
    BY <1>3, <2>1, <2>2 DEF IsRedirect
  <2> QED
    BY <2>1, <2>2, <2>3, RuleJoins
<1>5. CASE FirstIn(S) # 0 /\ AppRootRoute(r) = changed
  <2> PICK a : a = FirstIn(S)
    OBVIOUS
  <2> PICK new : new = Redirecting(r.rules[a], filter)
    OBVIOUS
  <2> DEFINE f == [i \in 1..Len(r.rules) |-> IF i = a THEN new ELSE r.rules[i]]
  <2>1. changed = [r EXCEPT !.rules = f]
    <3>1. changed = [r EXCEPT !.rules = [r.rules EXCEPT ![a] = new]]
      BY <1>1 DEF RouteParts
    <3>2. [r.rules EXCEPT ![a] = new] = f
      BY <1>1
    <3> QED
      BY <3>1, <3>2
  <2>2. f = [i \in 1..Len(r.rules) |-> f[i]]
        /\ \A i \in DOMAIN r.rules : f[i] = IF i = a THEN new ELSE r.rules[i]
    BY <1>1
  <2> HIDE DEF f, filter
  <2>3. \A i \in DOMAIN r.rules : GoodRule(r.ns, r.rules[i], r.sources[i])
    BY DEF GoodRoute
  <2>4. \A i \in DOMAIN r.rules : GoodRule(r.ns, Redirecting(r.rules[i], filter), r.sources[i])
    BY <1>3, <2>3, RedirectHolds
  <2>5. \A i \in DOMAIN r.rules : GoodRule(r.ns, f[i], r.sources[i])
    BY <2>2, <2>3, <2>4
  <2>6. GoodRoute([r EXCEPT !.rules = f])
    BY <2>2, <2>5, RulesChanged
  <2> QED
    BY <1>5, <2>1, <2>6
<1> HIDE DEF joined, changed
<1> QED
  BY <1>2, <1>4, <1>5

-----------------------------------------------------------------------------
(* Lemmas about the steps.                                                 *)

(* A backend has three fields, and the port 0 is that of a resource.       *)
LEMMA RefParts ==
  ASSUME NEW ns, NEW backend
  PROVE  /\ DOMAIN ToBackendRef(ns, backend) = BackendParts
         /\ ToBackendRef(ns, backend).port = 0 => backend.port = 0
<1> PICK ref : ref = ToBackendRef(ns, backend)
  OBVIOUS
<1>1. CASE backend.portName = NoName
  <2>1. ref = [svc |-> backend.svc, port |-> backend.port, weight |-> NoWeight]
    BY <1>1 DEF ToBackendRef
  <2> QED
    BY <2>1 DEF BackendParts
<1>2. CASE backend.portName # NoName /\ <<ns, backend.svc, backend.portName>> \in DOMAIN ServicePorts
  <2>1. ref = [svc |-> backend.svc, weight |-> NoWeight,
               port |-> ServicePorts[<<ns, backend.svc, backend.portName>>]]
    BY <1>2 DEF ToBackendRef
  <2> QED
    BY <1>2, <2>1, PortsAssumption DEF BackendParts
<1>3. CASE backend.portName # NoName /\ <<ns, backend.svc, backend.portName>> \notin DOMAIN ServicePorts
  <2>1. ref = NoRef
    BY <1>3 DEF ToBackendRef
  <2> QED
    BY <2>1 DEF BackendParts, NoRef
<1> QED
  BY <1>1, <1>2, <1>3

(* Routes as ToIR stores them.                                             *)
LEMMA StoredGood ==
  ASSUME IInv, PathsInv, pc = "done", errors = {}, NEW k \in DOMAIN ir.http
  PROVE  GoodRoute(ir.http[k]) /\ Untouched(ir.http[k])
<1> PICK r : r = ir.http[k]
  OBVIOUS
<1>1. ir.http = ByKey(httpRoutes) /\ IsList(httpRoutes) /\ Made.http = httpRoutes
  BY DEF IInv, FlowInv, RoutesInv, Made
<1>2. r \in ToSet(httpRoutes)
  BY <1>1, StoredRoutes
<1>3. Even(r) /\ AskedFor(r, "http") /\ NoneEmpty(r)
  BY <1>1, <1>2 DEF PathsInv, MadeInv
<1>4. \A i \in DOMAIN r.rules : \A j \in DOMAIN r.rules[i].backends :
        SourcedBy(r.ns, r.rules[i].backends[j], r.sources[i][j])
  BY <1>3, RefParts DEF AskedFor, SourcedBy
<1>5. \A i \in DOMAIN r.rules : GoodRule(r.ns, r.rules[i], r.sources[i])
  BY <1>3, <1>4, EmptyList DEF Even, NoneEmpty, GoodRule, IsRedirect
<1>6. GoodRoute(r) /\ Untouched(r)
  BY <1>3, <1>5 DEF Even, GoodRoute, Untouched
<1> QED
  BY <1>6

(* A route that no canary has changed does not make the feature panic.     *)
LEMMA UntouchedFits ==
  ASSUME NEW r, GoodRoute(r), Untouched(r)
  PROVE  ~IndexPanics(r)
<1> SUFFICES ASSUME NEW i \in 1..Len(r.rules), HasBoth(r.sources[i])
             PROVE  ~( \/ CanaryIdx(r.sources[i]) > Len(r.rules[i].backends)
                       \/ StableIdx(r.sources[i]) > Len(r.rules[i].backends))
  BY DEF IndexPanics
<1> PICK bs : bs = r.rules[i].backends
  OBVIOUS
<1> PICK sources : sources = r.sources[i]
  OBVIOUS
<1>1. i \in DOMAIN r.rules
  BY ListShape DEF GoodRoute
<1>2. IsList(bs) /\ IsList(sources) /\ DOMAIN bs = DOMAIN sources
  BY <1>1 DEF GoodRoute, GoodRule, Untouched
<1>3. CanaryIdx(sources) \in DOMAIN bs /\ StableIdx(sources) \in DOMAIN bs
  BY <1>2, BothFound
<1>4. DOMAIN bs = 1..Len(bs) /\ Len(bs) \in Nat
  BY <1>2, ListShape
<1> QED
  BY <1>3, <1>4

(* What the routes are sourced by stays as long as the input does.         *)
LEMMA GoodStays ==
  ASSUME input' = input
  PROVE  /\ \A r : GoodRoute(r)' <=> GoodRoute(r)
         /\ \A id : Ann(id)' = Ann(id)
<1>1. Occurrences' = Occurrences /\ Ingresses' = Ingresses
  BY InputStays, OccurrencesStay
<1>2. \A ns, b, s : SourcedBy(ns, b, s)' <=> SourcedBy(ns, b, s)
  BY <1>1 DEF SourcedBy
<1>3. \A ns, rule, sources : GoodRule(ns, rule, sources)' <=> GoodRule(ns, rule, sources)
  BY <1>2 DEF GoodRule
<1>4. \A r : GoodRoute(r)' <=> GoodRoute(r)
  BY <1>3 DEF GoodRoute
<1>5. \A id : Ann(id)' = Ann(id)
  BY DEF Ann
<1> QED
  BY <1>4, <1>5

(* No feature ends in a panic or sets the canaries going again.            *)
LEMMA StagesGoOn ==
  ASSUME NEW feature
  PROVE  StageAfter(feature) # "panic" /\ StageAfter(feature) # "canary"
<1> DEFINE S == {n \in 1..Len(FeatureOrder) : FeatureOrder[n] = feature}
<1>1. Len(FeatureOrder) = 8
  BY DEF FeatureOrder
<1>2. \A n \in 1..8 : FeatureOrder[n] # "panic" /\ FeatureOrder[n] # "canary"
  BY DEF FeatureOrder
<1>3. S \subseteq 1..8
  BY <1>1
<1>4. StageAfter(feature) = IF FirstIn(S) = 8 THEN "converted" ELSE FeatureOrder[FirstIn(S) + 1]
  BY <1>1 DEF StageAfter
<1> HIDE DEF S
<1>5. FirstIn(S) \in 0..8
  <2>1. CASE S = {}
    BY <2>1 DEF FirstIn
  <2>2. CASE S # {}
    <3> PICK n \in Nat : n = 8
      OBVIOUS
    <3>1. S \subseteq 1..n
      BY <1>3
    <3>2. FirstIn(S) \in S
      BY <2>2, <3>1, FirstHolds
    <3>3. FirstIn(S) \in 1..8
      BY <1>3, <3>2, Zenon
    <3>4. \A i \in 1..8 : i \in 0..8
      OBVIOUS
    <3> QED
      BY <3>3, <3>4
  <2> QED
    BY <2>1, <2>2
<1> QED
  BY <1>2, <1>4, <1>5

PirParts == {"http", "grpc", "gateways", "tls", "backendTLS", "services"}

(* Nothing is converted at the start.                                      *)
LEMMA NginxStart == NginxInit => NginxInv
<1> SUFFICES ASSUME NginxInit PROVE NginxInv
  OBVIOUS
<1>1. DOMAIN pir = PirParts /\ pir.http = <<>> /\ stage = "common"
  BY DEF NginxInit, PirParts
<1>2. DOMAIN <<>> = {}
  OBVIOUS
<1> QED
  BY <1>1, <1>2 DEF NginxInv, PirParts, PanicsExplained

(* Good routes after a step are good in the state after it.                *)
LEMMA RoutesStayGood ==
  ASSUME input' = input, \A k \in DOMAIN pir'.http : GoodRoute(pir'.http[k])
  PROVE  (\A k \in DOMAIN pir.http : GoodRoute(pir.http[k]))'
<1> SUFFICES ASSUME NEW k \in DOMAIN pir'.http PROVE GoodRoute(pir.http[k])'
  OBVIOUS
<1>1. GoodRoute(pir'.http[k])
  OBVIOUS
<1> QED
  BY <1>1, GoodStays

(* Nothing here changes while ToIR runs.                                   *)
LEMMA NginxRests ==
  ASSUME NginxInv, input' = input, UNCHANGED nginxVars
  PROVE  NginxInv'
<1>1. /\ \A r : GoodRoute(r)' <=> GoodRoute(r)
      /\ \A id : Ann(id)' = Ann(id)
      /\ Occurrences' = Occurrences /\ Ingresses' = Ingresses
  BY GoodStays, InputStays, OccurrencesStay
<1>2. pir' = pir /\ stage' = stage /\ todo' = todo
  BY DEF nginxVars
<1>3. (\A k \in DOMAIN pir.http : GoodRoute(pir.http[k]))'
  BY <1>2, RoutesStayGood DEF NginxInv
<1>4. PanicsExplained'
  BY <1>1, <1>2 DEF NginxInv, PanicsExplained
<1>5. \A k : Visited(k)' <=> Visited(k)
  BY <1>2 DEF Visited
<1>6. \A k : Untouched(pir.http[k])' <=> Untouched(pir.http[k])
  BY <1>2 DEF Untouched
<1> QED
  BY <1>2, <1>3, <1>4, <1>5, <1>6 DEF NginxInv

(* The features start from the routes of ToIR.                             *)
LEMMA StartStep == IInv /\ PathsInv /\ NginxInv /\ StartFeatures => NginxInv'
<1> SUFFICES ASSUME IInv, PathsInv, NginxInv, StartFeatures PROVE NginxInv'
  OBVIOUS
<1>1. input' = input
  BY DEF StartFeatures, vars
<1>2. \A r : GoodRoute(r)' <=> GoodRoute(r)
  BY <1>1, GoodStays
<1>3. stage' # "panic"
  BY DEF StartFeatures
<1>4. CASE errors # {}
  <2>1. stage' = "failed" /\ pir' = pir
    BY <1>4 DEF StartFeatures
  <2>2. (\A k \in DOMAIN pir.http : GoodRoute(pir.http[k]))'
    BY <1>1, <2>1, RoutesStayGood DEF NginxInv
  <2> QED
    BY <2>1, <2>2 DEF NginxInv, PanicsExplained
<1>5. CASE errors = {}
  <2>1. /\ pc = "done" /\ todo' = RuleGroups(input.list)
        /\ DOMAIN pir' = PirParts /\ pir'.http = ir.http
    BY <1>5 DEF StartFeatures, PirParts
  <2>2. \A k \in DOMAIN ir.http : GoodRoute(ir.http[k]) /\ Untouched(ir.http[k])
    BY <1>5, <2>1, StoredGood
  <2>3. (\A k \in DOMAIN pir.http : GoodRoute(pir.http[k]))'
    BY <1>1, <2>1, <2>2, RoutesStayGood
  <2>5. (\A k \in DOMAIN pir.http : Untouched(pir.http[k]))'
    BY <2>1, <2>2 DEF Untouched
  <2>4. todo' \subseteq RuleGroups(input'.list)
    BY <1>1, <2>1
  <2> QED
    BY <1>3, <2>1, <2>3, <2>4, <2>5 DEF NginxInv, PirParts, PanicsExplained
<1> QED
  BY <1>4, <1>5

(* The canary feature changes the route of a rule group; it panics only if *)
(* another group of its name came before.                                  *)
LEMMA CanaryStep == NginxInv /\ CanaryFeature => NginxInv'
<1> SUFFICES ASSUME NginxInv, CanaryFeature PROVE NginxInv'
  OBVIOUS
<1>1. PICK g \in todo :
        /\ todo' = todo \ {g}
        /\ IF GroupRoute(g) \in DOMAIN pir.http /\ IndexPanics(pir.http[GroupRoute(g)])
           THEN stage' = "panic" /\ UNCHANGED pir
           ELSE pir' = Canary(pir, g) /\ UNCHANGED stage
  BY DEF CanaryFeature
<1> PICK k : k = GroupRoute(g)
  OBVIOUS
<1>2. stage = "canary" /\ input' = input
  BY DEF CanaryFeature, vars
<1>3. /\ \A r : GoodRoute(r)' <=> GoodRoute(r)
      /\ \A x \in DOMAIN pir.http : GoodRoute(pir.http[x])
      /\ \A x \in DOMAIN pir.http : Untouched(pir.http[x]) \/ Visited(x)
      /\ todo \subseteq RuleGroups(input.list)
      /\ DOMAIN pir = PirParts
  BY <1>2, GoodStays DEF NginxInv, PirParts
<1>4. CASE k \in DOMAIN pir.http /\ IndexPanics(pir.http[k])
  <2>1. stage' = "panic" /\ pir' = pir
    BY <1>1, <1>4
  <2>2. Visited(k)
    BY <1>3, <1>4, UntouchedFits
  <2>3. \E h \in RuleGroups(input.list) : g # h /\ GroupRoute(g) = GroupRoute(h)
    BY <2>2 DEF Visited
  <2>4. PanicsExplained'
    BY <1>2, <1>3, <2>3 DEF PanicsExplained
  <2>5. (\A x \in DOMAIN pir.http : GoodRoute(pir.http[x]))'
    BY <1>2, <1>3, <2>1, RoutesStayGood
  <2> QED
    BY <1>3, <2>1, <2>4, <2>5 DEF NginxInv, PirParts
<1>5. CASE ~(k \in DOMAIN pir.http /\ IndexPanics(pir.http[k]))
  <2>1. pir' = Canary(pir, g) /\ stage' = "canary"
    BY <1>1, <1>2, <1>5
  <2>2. /\ DOMAIN pir' = PirParts /\ DOMAIN pir'.http = DOMAIN pir.http
        /\ \A x \in DOMAIN pir.http : pir'.http[x] = IF x = k THEN CanaryRoute(pir.http[x]) ELSE pir.http[x]
    BY <1>3, <2>1 DEF Canary, PirParts
  <2>3. ASSUME NEW x \in DOMAIN pir.http PROVE GoodRoute(pir'.http[x])
    <3>1. CASE x = k
      BY <1>3, <1>5, <2>2, <3>1, NoIndexPanics, CanaryRouteHolds
    <3>2. CASE x # k
      BY <1>3, <2>2, <3>2
    <3> QED
      BY <3>1, <3>2
  <2>4. ASSUME NEW x \in DOMAIN pir.http PROVE Untouched(pir'.http[x]) \/ Visited(x)'
    <3>1. Visited(x) => Visited(x)'
      BY <1>1, <1>2 DEF Visited
    <3>2. CASE x = k
      <4>1. g \in RuleGroups(input'.list) \ todo'
        BY <1>1, <1>2, <1>3
      <4> QED
        BY <3>2, <4>1 DEF Visited
    <3>3. CASE x # k
      BY <1>3, <2>2, <3>1, <3>3
    <3> QED
      BY <3>2, <3>3
  <2>5. (\A x \in DOMAIN pir.http : GoodRoute(pir.http[x]))'
    BY <1>2, <2>2, <2>3, RoutesStayGood
  <2>6. (\A x \in DOMAIN pir.http : Untouched(pir.http[x]) \/ Visited(x))'
    BY <2>2, <2>4 DEF Untouched
  <2>7. todo' \subseteq RuleGroups(input'.list)
    BY <1>1, <1>2, <1>3
  <2> QED
    BY <2>1, <2>2, <2>5, <2>6, <2>7 DEF NginxInv, PirParts, PanicsExplained
<1> QED
  BY <1>4, <1>5

(* A feature after the canaries that leaves good routes.                   *)
LEMMA FeatureStep ==
  ASSUME NginxInv, input' = input, NEW feature, stage' = StageAfter(feature),
         DOMAIN pir' = PirParts, \A k \in DOMAIN pir'.http : GoodRoute(pir'.http[k])
  PROVE  NginxInv'
<1>1. (\A k \in DOMAIN pir.http : GoodRoute(pir.http[k]))'
  BY RoutesStayGood
<1>2. stage' # "canary" /\ stage' # "panic"
  BY StagesGoOn
<1> QED
  BY <1>1, <1>2 DEF NginxInv, PirParts, PanicsExplained

(* Each feature that works route by route leaves good routes.              *)
LEMMA RedirectStep == NginxInv /\ RedirectFeature => NginxInv'
<1> SUFFICES ASSUME NginxInv, RedirectFeature PROVE NginxInv'
  OBVIOUS
<1>1. input' = input /\ stage' = StageAfter("redirect") /\ pir' = Redirect(pir)
  BY DEF RedirectFeature, Feature, vars
<1>2. DOMAIN pir = PirParts /\ \A k \in DOMAIN pir.http : GoodRoute(pir.http[k])
  BY DEF NginxInv, PirParts
<1>3. /\ DOMAIN pir' = PirParts /\ DOMAIN pir'.http = DOMAIN pir.http
      /\ \A k \in DOMAIN pir.http : pir'.http[k] = RedirectRoute(pir.http[k])
  BY <1>1, <1>2 DEF Redirect, PirParts
<1> QED
  BY <1>1, <1>2, <1>3, RedirectRouteHolds, FeatureStep

(* headerModifierFeature                                                   *)
LEMMA HeaderModifierStep == NginxInv /\ HeaderModifierFeature => NginxInv'
<1> SUFFICES ASSUME NginxInv, HeaderModifierFeature PROVE NginxInv'
  OBVIOUS
<1>1. input' = input /\ stage' = StageAfter("headers") /\ pir' = HeaderModifier(pir)
  BY DEF HeaderModifierFeature, Feature, vars
<1>2. DOMAIN pir = PirParts /\ \A k \in DOMAIN pir.http : GoodRoute(pir.http[k])
  BY DEF NginxInv, PirParts
<1>3. /\ DOMAIN pir' = PirParts /\ DOMAIN pir'.http = DOMAIN pir.http
      /\ \A k \in DOMAIN pir.http : pir'.http[k] = HeaderModifierRoute(pir.http[k])
  BY <1>1, <1>2 DEF HeaderModifier, PirParts
<1> QED
  BY <1>1, <1>2, <1>3, HeaderModifierHolds, FeatureStep

(* regexFeature                                                            *)
LEMMA RegexStep == NginxInv /\ RegexFeature => NginxInv'
<1> SUFFICES ASSUME NginxInv, RegexFeature PROVE NginxInv'
  OBVIOUS
<1>1. input' = input /\ stage' = StageAfter("regex") /\ pir' = Regex(pir)
  BY DEF RegexFeature, Feature, vars
<1>2. DOMAIN pir = PirParts /\ \A k \in DOMAIN pir.http : GoodRoute(pir.http[k])
  BY DEF NginxInv, PirParts
<1>3. /\ DOMAIN pir' = PirParts /\ DOMAIN pir'.http = DOMAIN pir.http
      /\ \A k \in DOMAIN pir.http : pir'.http[k] = RegexRoute(pir.http[k])
  BY <1>1, <1>2 DEF Regex, PirParts
<1> QED
  BY <1>1, <1>2, <1>3, RegexRouteHolds, FeatureStep

(* appRootFeature                                                          *)
LEMMA AppRootStep == NginxInv /\ AppRootFeature => NginxInv'
<1> SUFFICES ASSUME NginxInv, AppRootFeature PROVE NginxInv'
  OBVIOUS
<1>1. input' = input /\ stage' = StageAfter("appRoot") /\ pir' = AppRoot(pir)
  BY DEF AppRootFeature, Feature, vars
<1>2. DOMAIN pir = PirParts /\ \A k \in DOMAIN pir.http : GoodRoute(pir.http[k])
  BY DEF NginxInv, PirParts
<1>3. /\ DOMAIN pir' = PirParts /\ DOMAIN pir'.http = DOMAIN pir.http
      /\ \A k \in DOMAIN pir.http : pir'.http[k] = AppRootRoute(pir.http[k])
  BY <1>1, <1>2 DEF AppRoot, PirParts
<1> QED
  BY <1>1, <1>2, <1>3, AppRootHolds, FeatureStep

(* createBackendTLSPolicies, which only reads the routes                   *)
LEMMA PoliciesStep == NginxInv /\ CreateBackendTLSPolicies => NginxInv'
<1> SUFFICES ASSUME NginxInv, CreateBackendTLSPolicies PROVE NginxInv'
  OBVIOUS
<1>1. input' = input /\ stage' = StageAfter("backendProtocol") /\ pir' = pir
  BY DEF CreateBackendTLSPolicies, Feature, vars
<1> QED
  BY <1>1, FeatureStep DEF NginxInv, PirParts

(* backendTLSFeature, which changes no route                               *)
LEMMA BackendTLSStep == NginxInv /\ BackendTLSFeature => NginxInv'
<1> SUFFICES ASSUME NginxInv, BackendTLSFeature PROVE NginxInv'
  OBVIOUS
<1>1. input' = input /\ stage' = StageAfter("backendTLS") /\ pir' = BackendTLS(pir)
  BY DEF BackendTLSFeature, Feature, vars
<1>2. DOMAIN pir = PirParts /\ \A k \in DOMAIN pir.http : GoodRoute(pir.http[k])
  BY DEF NginxInv, PirParts
<1>3. DOMAIN pir' = PirParts /\ pir'.http = pir.http
  BY <1>1, <1>2 DEF BackendTLS, PirParts
<1> QED
  BY <1>1, <1>2, <1>3, FeatureStep

(* sessionAffinityFeature, which changes no route                          *)
LEMMA SessionAffinityStep == NginxInv /\ SessionAffinityFeature => NginxInv'
<1> SUFFICES ASSUME NginxInv, SessionAffinityFeature PROVE NginxInv'
  OBVIOUS
<1>1. PICK order : Feature("affinity", SessionAffinity(pir, order))
  BY DEF SessionAffinityFeature
<1>2. input' = input /\ stage' = StageAfter("affinity") /\ pir' = SessionAffinity(pir, order)
  BY <1>1 DEF Feature, vars
<1>3. DOMAIN pir = PirParts /\ \A k \in DOMAIN pir.http : GoodRoute(pir.http[k])
  BY DEF NginxInv, PirParts
<1>4. DOMAIN pir' = PirParts /\ pir'.http = pir.http
  BY <1>2, <1>3 DEF SessionAffinity, PirParts
<1> QED
  BY <1>2, <1>3, <1>4, FeatureStep

(* sslPassthroughFeature strips some routes and drops others.              *)
LEMMA SSLPassthroughStep == NginxInv /\ SSLPassthroughFeature => NginxInv'
<1> SUFFICES ASSUME NginxInv, SSLPassthroughFeature PROVE NginxInv'
  OBVIOUS
<1>1. input' = input /\ stage' = StageAfter("sslPassthrough") /\ \E order : pir' = Passthrough(pir, order)
  BY DEF SSLPassthroughFeature, Feature, vars
<1>2. DOMAIN pir = PirParts /\ \A k \in DOMAIN pir.http : GoodRoute(pir.http[k])
  BY DEF NginxInv, PirParts
<1>3. /\ DOMAIN pir' = PirParts
      /\ \A k \in DOMAIN pir'.http :
           k \in DOMAIN pir.http /\ pir'.http[k] \in {pir.http[k], Strip(pir.http[k])}
  BY <1>1, <1>2 DEF Passthrough, PirParts
<1>4. \A k \in DOMAIN pir'.http : GoodRoute(pir'.http[k])
  BY <1>2, <1>3, StripHolds
<1> QED
  BY <1>1, <1>3, <1>4, FeatureStep

(* A backend without a port is that of a passthrough Ingress.              *)
LEMMA PortPanicStep == NginxInv /\ PassthroughPanics => NginxInv'
<1> SUFFICES ASSUME NginxInv, PassthroughPanics PROVE NginxInv'
  OBVIOUS
<1>1. input' = input /\ pir' = pir /\ stage' = "panic" /\ PortPanics(pir)
  BY DEF PassthroughPanics, vars
<1>2. PICK k \in DOMAIN pir.http : \E b \in TLSBackends(pir.http[k]) : b.port = 0
  BY <1>1 DEF PortPanics
<1> PICK r : r = pir.http[k]
  OBVIOUS
<1>3. GoodRoute(r)
  BY DEF NginxInv
<1>3a. PICK i \in 1..Len(r.rules) : \E n \in 1..Len(r.rules[i].backends) :
        /\ HasSource(r, i, n) => IsPassthrough(r.sources[i][n])
        /\ r.rules[i].backends[n].port = 0
  BY <1>2 DEF TLSBackends
<1>4. PICK n \in 1..Len(r.rules[i].backends) :
        /\ HasSource(r, i, n) => IsPassthrough(r.sources[i][n])
        /\ r.rules[i].backends[n].port = 0
  BY <1>3a
<1> PICK b : b = r.rules[i].backends[n]
  OBVIOUS
<1> PICK s : s = r.sources[i][n]
  OBVIOUS
<1>5. i \in DOMAIN r.rules /\ i \in DOMAIN r.sources /\ GoodRule(r.ns, r.rules[i], r.sources[i])
  BY <1>3, ListShape DEF GoodRoute
<1>6. n \in DOMAIN r.rules[i].backends /\ n \in DOMAIN r.sources[i] /\ SourcedBy(r.ns, b, s)
  BY <1>5, ListShape DEF GoodRule
<1>7. HasSource(r, i, n)
  <2>1. DOMAIN r.sources = 1..Len(r.sources) /\ DOMAIN r.sources[i] = 1..Len(r.sources[i])
    BY <1>3, <1>5, ListShape DEF GoodRoute
  <2> QED
    BY <1>5, <1>6, <2>1 DEF HasSource
<1>8. Ann(s.ing).passthrough /\ s.backend.port = 0
  BY <1>4, <1>6, <1>7, RefParts DEF IsPassthrough, SourcedBy
<1>9. \/ \E o \in Occurrences : Ann(o.ing).passthrough /\ o.path.backend.port = 0
      \/ \E ing \in Ingresses : Ann(<<ing.ns, ing.name>>).passthrough /\ ing.default.port = 0
  BY <1>6, <1>8, Zenon DEF SourcedBy
<1>10. PanicsExplained'
  <2>1. Occurrences' = Occurrences /\ Ingresses' = Ingresses /\ \A id : Ann(id)' = Ann(id)
    BY <1>1, InputStays, OccurrencesStay, GoodStays
  <2> QED
    BY <1>9, <2>1 DEF PanicsExplained
<1>11. (\A x \in DOMAIN pir.http : GoodRoute(pir.http[x]))'
  BY <1>1, RoutesStayGood DEF NginxInv
<1> QED
  BY <1>1, <1>10, <1>11 DEF NginxInv

-----------------------------------------------------------------------------
(* Where the traffic of a canary goes.                                     *)

(* Two members make a set of two or more.                                  *)
LEMMA AloneInSet ==
  ASSUME NEW n \in Nat, NEW S, S \subseteq 1 .. n, ~(Cardinality(S) > 1), NEW x \in S, NEW y \in S
  PROVE  x = y
<1> SUFFICES ASSUME x # y PROVE FALSE
  OBVIOUS
<1>1. IsFiniteSet(1 .. n)
  BY FS_Interval
<1>2. IsFiniteSet(S)
  BY <1>1, FS_Subset
<1>3. Cardinality(S) \in Nat
  BY <1>2, FS_CardinalityType
<1>4. IsFiniteSet({x}) /\ Cardinality({x}) = 1
  BY FS_Singleton
<1>5. Cardinality({x} \cup {y}) = 2
  BY <1>4, FS_AddElement
<1>6. {x} \cup {y} \in SUBSET S
  OBVIOUS
<1>7. 2 <= Cardinality(S)
  BY <1>2, <1>5, <1>6, FS_Subset
<1> QED
  BY <1>3, <1>7

(* Without an error, a rule with a canary has it and a stable source.      *)
LEMMA TwoSources ==
  ASSUME NEW sources, IsList(sources), HasBoth(sources), CanaryErrors(sources) = {}
  PROVE  /\ DOMAIN sources = {1, 2}
         /\ CanaryIdx(sources) \in {1, 2} /\ StableIdx(sources) \in {1, 2}
         /\ CanaryIdx(sources) # StableIdx(sources)
<1> PICK c : c = CanaryIdx(sources)
  OBVIOUS
<1> PICK s : s = StableIdx(sources)
  OBVIOUS
<1> DEFINE C == {i \in 1..Len(sources) : Ann(sources[i].ing).canary}
           S == (1..Len(sources)) \ C
<1>1. Len(sources) \in Nat /\ DOMAIN sources = 1..Len(sources)
  BY ListShape
<1>2. "canaries" \notin CanaryErrors(sources) /\ "stables" \notin CanaryErrors(sources)
  OBVIOUS
<1>3. ~(Cardinality(C) > 1)
  BY <1>2 DEF CanaryErrors
<1>4. ~(Cardinality(S) > 1)
  BY <1>2 DEF CanaryErrors
<1>5. c \in C /\ s \in S
  <2> DEFINE T == {i \in 1..Len(sources) : ~Ann(sources[i].ing).canary}
  <2>1. c = FirstIn(C) /\ s = FirstIn(T) /\ c # 0 /\ s # 0
    BY DEF CanaryIdx, StableIdx, HasBoth
  <2>2. C \subseteq 1..Len(sources) /\ T \subseteq 1..Len(sources) /\ T = S
    OBVIOUS
  <2> HIDE DEF C, S, T
  <2>3. C # {} /\ T # {}
    BY <2>1 DEF FirstIn
  <2>4. c \in C
    BY <1>1, <2>1, <2>2, <2>3, FirstHolds
  <2>5. s \in T
    BY <1>1, <2>1, <2>2, <2>3, FirstHolds
  <2> QED
    BY <2>2, <2>4, <2>5
<1>6. C \subseteq 1..Len(sources) /\ S \subseteq 1..Len(sources) /\ C \cap S = {} /\ 1..Len(sources) = C \cup S
  OBVIOUS
<1> HIDE DEF C, S
<1>7. C = {c}
  BY <1>1, <1>3, <1>5, <1>6, AloneInSet
<1>8. S = {s}
  BY <1>1, <1>4, <1>5, <1>6, AloneInSet
<1>9. 1..Len(sources) = {c, s} /\ c # s
  BY <1>5, <1>6, <1>7, <1>8
<1>10. ASSUME NEW n \in Nat, 1..n = {c, s}, c # s PROVE n = 2
  <2>1. c \in 1..n /\ s \in 1..n
    BY <1>10
  <2>2. n >= 2
    BY <1>10, <2>1
  <2>3. 1 \in 1..n /\ 2 \in 1..n /\ (n >= 3 => 3 \in 1..n)
    BY <2>2
  <2>4. ~(n >= 3)
    BY <1>10, <2>3
  <2> QED
    BY <2>2, <2>4
<1>11. Len(sources) = 2
  BY <1>1, <1>9, <1>10
<1>12. 1..2 = {1, 2}
  OBVIOUS
<1> QED
  BY <1>1, <1>9, <1>11, <1>12

(* The rules that the canary feature adds.                                 *)
LEMMA HeaderRulesAre ==
  ASSUME NEW rule, NEW sources, NEW h
  PROVE  h \in ToSet(HeaderRules(rule, sources)) <=>
           /\ ByHeader(sources)
           /\ \/ h = HeaderRule(rule, IF ConfigOf(sources).value # NoValue THEN ConfigOf(sources).value ELSE "always",
                                rule.backends[CanaryIdx(sources)])
              \/ /\ ConfigOf(sources).value = NoValue
                 /\ h = HeaderRule(rule, "never", rule.backends[StableIdx(sources)])
<1> PICK value : value = ConfigOf(sources).value
  OBVIOUS
<1> PICK r1 : r1 = HeaderRule(rule, IF value # NoValue THEN value ELSE "always", rule.backends[CanaryIdx(sources)])
  OBVIOUS
<1> PICK r2 : r2 = HeaderRule(rule, "never", rule.backends[StableIdx(sources)])
  OBVIOUS
<1>1. CASE ~ByHeader(sources)
  BY <1>1, EmptyList DEF HeaderRules
<1>2. CASE ByHeader(sources)
  <2> DEFINE one == <<r1>>
             others == IF value # NoValue THEN <<>> ELSE <<r2>>
  <2>1. HeaderRules(rule, sources) = one \o others
    BY <1>2 DEF HeaderRules
  <2> PICK X : X = {r1, r2}
    OBVIOUS
  <2>2. one \in Seq(X) /\ ToSet(one) = {r1}
    BY LiteralHolds
  <2>3. others \in Seq(X) /\ ToSet(others) = IF value # NoValue THEN {} ELSE {r2}
    BY LiteralHolds
  <2> HIDE DEF one, others
  <2>4. ToSet(one \o others) = ToSet(one) \cup ToSet(others)
    BY <2>2, <2>3, ConcatHolds
  <2> QED
    BY <1>2, <2>1, <2>2, <2>3, <2>4
<1> QED
  BY <1>1, <1>2

(* What a list of one or two backends shares out.                          *)
LEMMA OneShare ==
  ASSUME NEW bs, DOMAIN bs = {1}, bs[1].weight = NoWeight
  PROVE  Shares(bs) = {<<bs[1].svc, TotalWeight>>}
BY DEF Shares, ToSet

LEMMA TwoShares ==
  ASSUME NEW bs, NEW c, NEW s, DOMAIN bs = {c, s}, bs[c].weight # NoWeight, bs[s].weight # NoWeight
  PROVE  Shares(bs) = {<<bs[c].svc, bs[c].weight>>, <<bs[s].svc, bs[s].weight>>}
<1>1. ToSet(bs) = {bs[c], bs[s]}
  BY DEF ToSet
<1> QED
  BY <1>1 DEF Shares

Unweighted(rule) == \A j \in DOMAIN rule.backends : rule.backends[j].weight = NoWeight

(* A rule of a canary and its stable backend, as ToIR makes it.            *)
Splits(rule, sources) ==
  /\ DOMAIN rule = RuleParts /\ IsList(rule.backends) /\ IsList(sources)
  /\ DOMAIN rule.backends = DOMAIN sources
  /\ HasBoth(sources) /\ CanaryErrors(sources) = {}
  /\ \A j \in DOMAIN rule.backends : DOMAIN rule.backends[j] = BackendParts
  /\ Unweighted(rule)
  /\ ConfigOf(sources).weight \in Nat \cup {NoWeight}

(* A canary by weight.                                                     *)
LEMMA WeightedSplit ==
  ASSUME NEW rule, NEW sources, Splits(rule, sources),
         NEW w, w = CanaryWeight(ConfigOf(sources))
  PROVE  /\ w \in 0..TotalWeight
         /\ Shares(Weighted(rule, sources).backends) =
              {<<rule.backends[CanaryIdx(sources)].svc, w>>,
               <<rule.backends[StableIdx(sources)].svc, TotalWeight - w>>}
<1> PICK c : c = CanaryIdx(sources)
  OBVIOUS
<1> PICK s : s = StableIdx(sources)
  OBVIOUS
<1> PICK v : v = TotalWeight - w
  OBVIOUS
<1> PICK old : old = rule.backends
  OBVIOUS
<1>1. w \in 0..TotalWeight /\ w # NoWeight /\ v # NoWeight
  <2> PICK x : x = ConfigOf(sources).weight
    OBVIOUS
  <2>1. x \in Nat \cup {NoWeight} /\ TotalWeight \in Nat /\ NoWeight = -1
    BY CanaryAssumption DEF Splits, NoWeight
  <2>2. w = IF x = NoWeight THEN 0 ELSE IF x > TotalWeight THEN TotalWeight ELSE x
    BY DEF CanaryWeight
  <2> QED
    BY <2>1, <2>2
<1> DEFINE first == [old EXCEPT ![c].weight = w]
           new == [first EXCEPT ![s].weight = v]
<1>2. DOMAIN old = {c, s} /\ c # s /\ DOMAIN old[c] = BackendParts /\ DOMAIN old[s] = BackendParts
  BY TwoSources DEF Splits
<1>3. Weighted(rule, sources).backends = new
  BY DEF Weighted, Splits, RuleParts
<1>4. DOMAIN first = {c, s} /\ first[c] = [old[c] EXCEPT !.weight = w] /\ first[s] = old[s]
  BY <1>2
<1>5. DOMAIN new = {c, s} /\ new[c] = [old[c] EXCEPT !.weight = w] /\ new[s] = [old[s] EXCEPT !.weight = v]
  BY <1>2, <1>4
<1>6. new[c].weight = w /\ new[c].svc = old[c].svc /\ new[s].weight = v /\ new[s].svc = old[s].svc
  BY <1>2, <1>5 DEF BackendParts
<1> HIDE DEF new, first
<1>7. Shares(new) = {<<new[c].svc, new[c].weight>>, <<new[s].svc, new[s].weight>>}
  BY <1>1, <1>5, <1>6, TwoShares, ZenonT(30)
<1> QED
  BY <1>1, <1>3, <1>6, <1>7

(* A canary by header only leaves the stable backend.                      *)
LEMMA StableSplit ==
  ASSUME NEW rule, NEW sources, Splits(rule, sources)
  PROVE  Shares([rule EXCEPT !.backends = RemoveAt(@, CanaryIdx(sources))].backends) =
           {<<rule.backends[StableIdx(sources)].svc, TotalWeight>>}
<1> PICK c : c = CanaryIdx(sources)
  OBVIOUS
<1> PICK s : s = StableIdx(sources)
  OBVIOUS
<1> PICK old : old = rule.backends
  OBVIOUS
<1> PICK rest : rest = RemoveAt(old, c)
  OBVIOUS
<1>1. /\ IsList(old) /\ DOMAIN old = {1, 2} /\ c \in {1, 2} /\ s \in {1, 2} /\ c # s
      /\ old[s].weight = NoWeight
  BY TwoSources DEF Splits, Unweighted
<1>2. [rule EXCEPT !.backends = RemoveAt(@, c)].backends = rest
  BY DEF Splits, RuleParts
<1>3. Len(old) = 2
  <2>1. DOMAIN old = 1..Len(old) /\ Len(old) \in Nat
    BY <1>1, ListShape
  <2>2. ASSUME NEW n \in Nat, 1..n = {1, 2} PROVE n = 2
    <3>1. 1 \in 1..n /\ 2 \in 1..n /\ 3 \notin 1..n
      BY <2>2
    <3> QED
      BY <3>1
  <2> QED
    BY <1>1, <2>1, <2>2
<1>4. DOMAIN rest = 1..1 /\ \A i \in DOMAIN rest : rest[i] = IF i < c THEN old[i] ELSE old[i + 1]
  <2>1. c \in DOMAIN old
    BY <1>1
  <2>2. DOMAIN rest = 1..Len(old) - 1 /\ \A i \in DOMAIN rest : rest[i] = IF i < c THEN old[i] ELSE old[i + 1]
    BY <1>1, <2>1, RemoveAtHolds
  <2> QED
    BY <1>3, <2>2
<1>5. DOMAIN rest = {1}
  BY <1>4
<1>6. rest[1] = old[s]
  BY <1>1, <1>4, <1>5
<1> QED
  BY <1>1, <1>2, <1>5, <1>6, OneShare

(* A rule for a value of the header.                                       *)
LEMMA HeaderSplit ==
  ASSUME NEW rule, NEW value, NEW b, DOMAIN b = BackendParts
  PROVE  Shares(HeaderRule(rule, value, b).backends) = {<<b.svc, TotalWeight>>}
<1> PICK light : light = [b EXCEPT !.weight = NoWeight]
  OBVIOUS
<1>1. light.weight = NoWeight /\ light.svc = b.svc
  BY DEF BackendParts
<1>2. HeaderRule(rule, value, b).backends = <<light>>
  BY DEF HeaderRule
<1>3. DOMAIN <<light>> = {1} /\ <<light>>[1] = light
  OBVIOUS
<1> QED
  BY <1>1, <1>2, <1>3, OneShare

(* The rules that the canary feature makes of those of a route: each in    *)
(* its place, and the new ones behind them.                                *)
Grown(r, rules) ==
  /\ IsList(rules)
  /\ \A i \in DOMAIN r.rules : i \in DOMAIN rules /\ rules[i] = CanaryRule(r.rules[i], r.sources[i])
  /\ \A n \in DOMAIN rules \ DOMAIN r.rules :
       \E i \in DOMAIN r.rules : rules[n] \in ToSet(HeaderRules(r.rules[i], r.sources[i]))
  /\ \A i \in DOMAIN r.rules : \A h \in ToSet(HeaderRules(r.rules[i], r.sources[i])) :
       \E n \in DOMAIN rules \ DOMAIN r.rules : rules[n] = h

(* So does it make them.                                                   *)
LEMMA CanaryRules ==
  ASSUME NEW r, GoodRoute(r), RouteFits(r), NEW rules, rules = CanaryRoute(r).rules
  PROVE  Grown(r, rules)
<1> DEFINE n == 1..Len(r.rules)
           base == [i \in n |-> CanaryRule(r.rules[i], r.sources[i])]
           extra == [i \in n |-> HeaderRules(r.rules[i], r.sources[i])]
           more == FlattenSeq(extra)
<1>1. DOMAIN r = RouteParts /\ IsList(r.rules) /\ DOMAIN r.rules = n
  BY ListShape DEF GoodRoute
<1>2. \A i \in n : IsList(HeaderRules(r.rules[i], r.sources[i]))
  <2>1. \A i \in n : GoodRule(r.ns, r.rules[i], r.sources[i]) /\ Fits(r.rules[i], r.sources[i])
    BY <1>1 DEF GoodRoute, RouteFits
  <2> QED
    BY <2>1, HeaderRulesHold DEF Aligned
<1>3. /\ DOMAIN base = n /\ DOMAIN extra = n
      /\ \A i \in n : /\ base[i] = CanaryRule(r.rules[i], r.sources[i])
                      /\ extra[i] = HeaderRules(r.rules[i], r.sources[i])
  OBVIOUS
<1>4. IsList(base) /\ IsList(extra)
  <2>1. ASSUME NEW f, f = [i \in n |-> f[i]] PROVE IsList(f)
    <3> DEFINE X == {f[i] : i \in n}
    <3>1. f \in [DOMAIN r.rules -> X]
      BY <1>1, <2>1
    <3> HIDE DEF X
    <3> QED
      BY <1>1, <3>1, MadeList
  <2> QED
    BY <2>1
<1>5. CanaryRoute(r).rules = base \o more
  BY <1>1 DEF CanaryRoute, RouteParts
<1> HIDE DEF base, extra, n
<1>6. IsList(more) /\ \A e : e \in ToSet(more) <=> \E i \in n : e \in ToSet(extra[i])
  BY <1>2, <1>3, <1>4, FlattenList
<1> HIDE DEF more
<1>7. /\ IsList(rules)
      /\ \A i \in DOMAIN base : i \in DOMAIN rules /\ rules[i] = base[i]
      /\ \A m \in DOMAIN rules \ DOMAIN base : rules[m] \in ToSet(more)
      /\ \A e \in ToSet(more) : \E m \in DOMAIN rules \ DOMAIN base : rules[m] = e
  <2>1. rules = base \o more
    BY <1>5
  <2> QED
    BY <1>4, <1>6, <2>1, ConcatPlaces
<1> QED
  BY <1>1, <1>3, <1>6, <1>7 DEF Grown

-----------------------------------------------------------------------------
(* Which rule requests are matched by.                                     *)

ExactAt(rules, path, value) ==
  {n \in 1..Len(rules) : /\ [rules[n].matches[1] EXCEPT !.header = <<>>] = path[1]
                         /\ rules[n].matches[1].header = <<value>>}

PlainAt(rules, path) == {n \in 1..Len(rules) : rules[n].matches = path}

(* Splitting the traffic of a rule leaves its matches.                     *)
LEMMA MatchesKept ==
  ASSUME NEW rule, NEW sources, DOMAIN rule = RuleParts
  PROVE  CanaryRule(rule, sources).matches = rule.matches
<1>1. CASE ~HasBoth(sources)
  BY <1>1 DEF CanaryRule
<1>2. CASE HasBoth(sources) /\ HeaderOnly(sources)
  BY <1>2 DEF CanaryRule, RuleParts
<1>3. CASE HasBoth(sources) /\ ~HeaderOnly(sources)
  BY <1>3 DEF CanaryRule, Weighted, RuleParts
<1> QED
  BY <1>1, <1>2, <1>3

(* A rule for a header value matches the path of the rule it is made from. *)
LEMMA HeaderMatch ==
  ASSUME NEW rule, NEW c, rule.matches = HTTPMatch(c), NEW value, NEW b,
         NEW h, h = HeaderRule(rule, value, b)
  PROVE  /\ [h.matches[1] EXCEPT !.header = <<>>] = HTTPMatch(c)[1]
         /\ h.matches[1].header = <<value>>
         /\ HTTPMatch(c)[1].header = <<>>
<1> PICK m : m = [type |-> c[1], path |-> c[2], header |-> <<value>>]
  OBVIOUS
<1>1. HTTPMatch(c)[1] = [type |-> c[1], path |-> c[2], header |-> <<>>]
  BY DEF HTTPMatch
<1>2. h.matches[1] = m
  BY <1>1 DEF HeaderRule
<1>3. m.header = <<value>> /\ [m EXCEPT !.header = <<>>] = HTTPMatch(c)[1]
  BY <1>1
<1> QED
  BY <1>1, <1>2, <1>3

(* The rules that answer for the path of a rule i, which has this path,    *)
(* are itself and those that its header values get.                        *)
Found(rules, path, value, i, extra) ==
  /\ ExactAt(rules, path, value) \subseteq 1..Len(rules) /\ Len(rules) \in Nat
  /\ \A n \in ExactAt(rules, path, value) : rules[n] \in extra /\ rules[n].matches[1].header = <<value>>
  /\ \A h \in extra : h.matches[1].header = <<value>> => \E n \in ExactAt(rules, path, value) : rules[n] = h
  /\ PlainAt(rules, path) = {i}

LEMMA RulesFound ==
  ASSUME NEW r, GoodRoute(r), RouteFits(r), Matched(r), NEW i \in DOMAIN r.rules, NEW value,
         NEW rules, rules = CanaryRoute(r).rules, NEW path, path = r.rules[i].matches
  PROVE  /\ Found(rules, path, value, i, ToSet(HeaderRules(r.rules[i], r.sources[i])))
         /\ rules[i] = CanaryRule(r.rules[i], r.sources[i])
<1> DEFINE Extra(j) == ToSet(HeaderRules(r.rules[j], r.sources[j]))
<1>1. /\ IsList(rules)
      /\ \A j \in DOMAIN r.rules : j \in DOMAIN rules /\ rules[j] = CanaryRule(r.rules[j], r.sources[j])
      /\ \A n \in DOMAIN rules \ DOMAIN r.rules : \E j \in DOMAIN r.rules : rules[n] \in Extra(j)
      /\ \A j \in DOMAIN r.rules : \A h \in Extra(j) : \E n \in DOMAIN rules \ DOMAIN r.rules : rules[n] = h
  <2>1. Grown(r, rules)
    BY CanaryRules
  <2> QED
    BY <2>1 DEF Grown
<1>2. Len(rules) \in Nat /\ DOMAIN rules = 1..Len(rules)
  BY <1>1, ListShape
<1>3. \A j \in DOMAIN r.rules : \E c : r.rules[j].matches = HTTPMatch(c)
  BY DEF Matched
<1>4. \A j \in DOMAIN r.rules : rules[j].matches = r.rules[j].matches
  BY <1>1, MatchesKept DEF GoodRoute, GoodRule
<1>5. ASSUME NEW j \in DOMAIN r.rules, NEW h \in Extra(j)
      PROVE  /\ [h.matches[1] EXCEPT !.header = <<>>] = r.rules[j].matches[1]
             /\ h.matches[1].header # <<>>
  <2>1. PICK c : r.rules[j].matches = HTTPMatch(c)
    BY <1>3
  <2>2. PICK v, b : h = HeaderRule(r.rules[j], v, b)
    BY HeaderRulesAre
  <2>3. /\ [h.matches[1] EXCEPT !.header = <<>>] = HTTPMatch(c)[1]
        /\ h.matches[1].header = <<v>>
    BY <2>1, <2>2, HeaderMatch
  <2>4. <<v>> # <<>>
    OBVIOUS
  <2> QED
    BY <2>1, <2>3, <2>4
<1>6. \A j \in DOMAIN r.rules : r.rules[j].matches[1].header = <<>>
  <2>1. \A c : HTTPMatch(c)[1].header = <<>>
    BY DEF HTTPMatch
  <2> QED
    BY <1>3, <2>1
<1>7. ASSUME NEW j \in DOMAIN r.rules, r.rules[j].matches[1] = path[1] PROVE j = i
  <2>1. PICK c : r.rules[j].matches = HTTPMatch(c)
    BY <1>3
  <2>2. PICK d : path = HTTPMatch(d)
    BY <1>3
  <2>3. \A e : HTTPMatch(e) = <<HTTPMatch(e)[1]>>
    BY DEF HTTPMatch
  <2>4. r.rules[j].matches = path
    BY <1>7, <2>1, <2>2, <2>3
  <2> QED
    BY <2>4 DEF Matched
<1> HIDE DEF Extra
<1>8. ASSUME NEW n \in ExactAt(rules, path, value)
      PROVE  rules[n] \in Extra(i) /\ rules[n].matches[1].header = <<value>>
  <2>1. /\ n \in DOMAIN rules /\ [rules[n].matches[1] EXCEPT !.header = <<>>] = path[1]
        /\ rules[n].matches[1].header = <<value>>
    BY <1>2 DEF ExactAt
  <2>2. n \notin DOMAIN r.rules
    BY <1>4, <1>6, <2>1
  <2>3. PICK j \in DOMAIN r.rules : rules[n] \in Extra(j)
    BY <1>1, <2>1, <2>2
  <2>4. j = i
    BY <1>5, <1>7, <2>1, <2>3
  <2> QED
    BY <2>1, <2>3, <2>4
<1>9. ASSUME NEW h \in Extra(i), h.matches[1].header = <<value>>
      PROVE  \E n \in ExactAt(rules, path, value) : rules[n] = h
  <2>1. PICK n \in DOMAIN rules : rules[n] = h
    BY <1>1
  <2>2. n \in ExactAt(rules, path, value)
    BY <1>2, <1>5, <1>9, <2>1 DEF ExactAt
  <2> QED
    BY <2>1, <2>2
<1>10. PlainAt(rules, path) = {i}
  <2>1. i \in PlainAt(rules, path)
    BY <1>1, <1>2, <1>4 DEF PlainAt
  <2>2. ASSUME NEW n \in PlainAt(rules, path) PROVE n = i
    <3>1. n \in DOMAIN rules /\ rules[n].matches = path
      BY <1>2 DEF PlainAt
    <3>2. n \in DOMAIN r.rules
      <4> SUFFICES ASSUME n \notin DOMAIN r.rules PROVE FALSE
        OBVIOUS
      <4>1. PICK j \in DOMAIN r.rules : rules[n] \in Extra(j)
        BY <1>1, <3>1
      <4>2. path[1].header # <<>>
        BY <1>5, <3>1, <4>1
      <4> QED
        BY <1>6, <4>2
    <3> QED
      BY <1>4, <1>7, <3>1, <3>2
  <2> QED
    BY <2>1, <2>2
<1> QED
  BY <1>1, <1>2, <1>8, <1>9, <1>10 DEF Extra, ExactAt, Found

(* Where requests of a rule go after the feature.                          *)
Answer(rules, path, value) ==
  LET exact == ExactAt(rules, path, value)
      plain == PlainAt(rules, path)
  IN Shares(rules[FirstIn(IF exact # {} THEN exact ELSE plain)].backends)

(* Where the annotations send them.                                        *)
WantedOf(rule, sources, value) ==
  LET config == ConfigOf(sources)
      canary == rule.backends[CanaryIdx(sources)].svc
      stable == rule.backends[StableIdx(sources)].svc
      w      == IF config.weight \in 0..TotalWeight THEN config.weight
                ELSE IF config.weight = NoWeight THEN 0 ELSE TotalWeight
      named  == IF config.value = NoValue THEN "always" ELSE config.value
  IN IF config.header /\ value = named THEN {<<canary, TotalWeight>>}
     ELSE IF config.header /\ (config.weight = NoWeight \/ (value = "never" /\ config.value = NoValue))
     THEN {<<stable, TotalWeight>>}
     ELSE {<<canary, w>>, <<stable, TotalWeight - w>>}

(* The first and only one.                                                 *)
LEMMA FirstOfOne ==
  ASSUME NEW i
  PROVE  FirstIn({i}) = i
BY DEF FirstIn

(* The rule or nothing.                                                    *)
Perhaps(set, rule) == set \in {{}, {rule}}

(* A header value with a rule of its own goes where that rule sends it,    *)
(* and any other where the rule itself does.                               *)
LEMMA AnswersFound ==
  ASSUME NEW rules, NEW path, NEW value, NEW i, NEW extra, Found(rules, path, value, i, extra),
         NEW r1, NEW first, Perhaps(first, r1), NEW r2, NEW second, Perhaps(second, r2),
         extra = first \cup second,
         NEW named, r1.matches[1].header = <<named>>, r2.matches[1].header = <<"never">>,
         second # {} => named # "never"
  PROVE  /\ first # {} /\ value = named => Answer(rules, path, value) = Shares(r1.backends)
         /\ second # {} /\ value = "never" => Answer(rules, path, value) = Shares(r2.backends)
         /\ ~(first # {} /\ value = named) /\ ~(second # {} /\ value = "never") =>
              Answer(rules, path, value) = Shares(rules[i].backends)
<1> DEFINE exact == ExactAt(rules, path, value)
<1>1. /\ exact \subseteq 1..Len(rules) /\ Len(rules) \in Nat
      /\ \A n \in exact : rules[n] \in extra /\ rules[n].matches[1].header = <<value>>
      /\ \A h \in extra : h.matches[1].header = <<value>> => \E n \in exact : rules[n] = h
      /\ PlainAt(rules, path) = {i}
  BY DEF Found
<1>2. Answer(rules, path, value) = Shares(rules[FirstIn(IF exact # {} THEN exact ELSE {i})].backends)
  BY <1>1 DEF Answer
<1> HIDE DEF exact
<1>3. exact # {} => FirstIn(exact) \in exact
  BY <1>1, FirstHolds
<1>4. \A x, y : <<x>> = <<y>> => x = y
  OBVIOUS
<1>5. ASSUME NEW n \in exact
      PROVE  \/ rules[n] = r1 /\ first # {} /\ value = named
             \/ rules[n] = r2 /\ second # {} /\ value = "never"
  BY <1>1, <1>4 DEF Perhaps
<1>6. CASE exact = {}
  <2>1. Answer(rules, path, value) = Shares(rules[i].backends)
    BY <1>2, <1>6, FirstOfOne
  <2> QED
    BY <1>1, <1>6, <2>1 DEF Perhaps
<1>7. CASE exact # {}
  <2>1. Answer(rules, path, value) = Shares(rules[FirstIn(exact)].backends)
    BY <1>2, <1>7
  <2> QED
    BY <1>3, <1>5, <1>7, <2>1
<1> QED
  BY <1>6, <1>7

(* Every request of a rule with a canary goes where the annotations say.   *)
LEMMA RuleSplits ==
  ASSUME NEW r, GoodRoute(r), RouteFits(r), Matched(r), NEW i \in DOMAIN r.rules,
         NEW rule, rule = r.rules[i], NEW sources, sources = r.sources[i], Splits(rule, sources), NEW value,
         NEW rules, rules = CanaryRoute(r).rules
  PROVE  Answer(rules, rule.matches, value) = WantedOf(rule, sources, value)
<1> DEFINE config == ConfigOf(sources)
           named == IF config.value # NoValue THEN config.value ELSE "always"
           canary == rule.backends[CanaryIdx(sources)]
           stable == rule.backends[StableIdx(sources)]
           r1 == HeaderRule(rule, named, canary)
           r2 == HeaderRule(rule, "never", stable)
           first == IF config.header THEN {r1} ELSE {}
           second == IF config.header /\ config.value = NoValue THEN {r2} ELSE {}
           answer == Answer(rules, rule.matches, value)
<1>1. /\ Found(rules, rule.matches, value, i, ToSet(HeaderRules(rule, sources)))
      /\ rules[i] = CanaryRule(rule, sources)
  BY RulesFound
<1>2. HasBoth(sources) /\ (ByHeader(sources) <=> config.header)
  BY DEF ByHeader, Splits
<1>3. ToSet(HeaderRules(rule, sources)) = first \cup second
  <2>1. \A h : h \in ToSet(HeaderRules(rule, sources)) <=>
                 config.header /\ (h = r1 \/ (config.value = NoValue /\ h = r2))
    BY <1>2, HeaderRulesAre
  <2>2. \A h : h \in first \cup second <=> config.header /\ (h = r1 \/ (config.value = NoValue /\ h = r2))
    OBVIOUS
  <2> HIDE DEF first, second, r1, r2
  <2> QED
    BY <2>1, <2>2
<1>4. \A v, b : HeaderRule(rule, v, b).matches[1].header = <<v>>
  BY DEF HeaderRule
<1>5. r1.matches[1].header = <<named>>
  BY <1>4
<1>6. r2.matches[1].header = <<"never">>
  BY <1>4
<1>7. DOMAIN canary = BackendParts /\ DOMAIN stable = BackendParts
  BY TwoSources DEF Splits
<1>8. Shares(r1.backends) = {<<canary.svc, TotalWeight>>}
  BY <1>7, HeaderSplit
<1>9. Shares(r2.backends) = {<<stable.svc, TotalWeight>>}
  BY <1>7, HeaderSplit
<1>10. /\ first \in {{}, {r1}} /\ (first # {} <=> config.header)
       /\ second \in {{}, {r2}} /\ (second # {} <=> config.header /\ config.value = NoValue)
       /\ second # {} => named # "never"
  OBVIOUS
<1>11. WantedOf(rule, sources, value) =
         LET w == IF config.weight \in 0..TotalWeight THEN config.weight
                  ELSE IF config.weight = NoWeight THEN 0 ELSE TotalWeight
         IN IF config.header /\ value = named THEN {<<canary.svc, TotalWeight>>}
            ELSE IF config.header /\ (config.weight = NoWeight \/ (value = "never" /\ config.value = NoValue))
            THEN {<<stable.svc, TotalWeight>>}
            ELSE {<<canary.svc, w>>, <<stable.svc, TotalWeight - w>>}
  <2>1. named = IF config.value = NoValue THEN "always" ELSE config.value
    OBVIOUS
  <2> HIDE DEF named
  <2> QED
    BY <2>1 DEF WantedOf
<1> HIDE DEF first, second, r1, r2, named, canary, stable, config
<1>12. /\ first # {} /\ value = named => answer = Shares(r1.backends)
       /\ second # {} /\ value = "never" => answer = Shares(r2.backends)
       /\ ~(first # {} /\ value = named) /\ ~(second # {} /\ value = "never") =>
            answer = Shares(CanaryRule(rule, sources).backends)
  <2> DEFINE extra == first \cup second
             path == rule.matches
  <2>1. Found(rules, path, value, i, extra)
    BY <1>1, <1>3
  <2>2. /\ Perhaps(first, r1) /\ Perhaps(second, r2) /\ extra = first \cup second
        /\ second # {} => named # "never"
    BY <1>10 DEF Perhaps
  <2> HIDE DEF extra, path
  <2>3. /\ first # {} /\ value = named => Answer(rules, path, value) = Shares(r1.backends)
        /\ second # {} /\ value = "never" => Answer(rules, path, value) = Shares(r2.backends)
        /\ ~(first # {} /\ value = named) /\ ~(second # {} /\ value = "never") =>
             Answer(rules, path, value) = Shares(rules[i].backends)
    BY <1>5, <1>6, <2>1, <2>2, AnswersFound
  <2> QED
    BY <1>1, <2>3 DEF path
<1>13. CASE first # {} /\ value = named
  BY <1>8, <1>10, <1>11, <1>12, <1>13
<1>14. CASE ~(first # {} /\ value = named) /\ second # {} /\ value = "never"
  BY <1>9, <1>10, <1>11, <1>12, <1>14
<1>15. CASE ~(first # {} /\ value = named) /\ ~(second # {} /\ value = "never")
  <2>1. CASE config.header /\ config.weight = NoWeight
    <3>1. CanaryRule(rule, sources) = [rule EXCEPT !.backends = RemoveAt(@, CanaryIdx(sources))]
      BY <1>2, <2>1 DEF CanaryRule, HeaderOnly, config
    <3>2. Shares(CanaryRule(rule, sources).backends) = {<<stable.svc, TotalWeight>>}
      BY <3>1, StableSplit DEF stable
    <3> QED
      BY <1>10, <1>11, <1>12, <1>15, <2>1, <3>2
  <2>2. CASE ~(config.header /\ config.weight = NoWeight)
    <3> DEFINE w == CanaryWeight(config)
    <3>1. CanaryRule(rule, sources) = Weighted(rule, sources)
      BY <1>2, <2>2 DEF CanaryRule, HeaderOnly, config
    <3>2. Shares(Weighted(rule, sources).backends) = {<<canary.svc, w>>, <<stable.svc, TotalWeight - w>>}
      BY WeightedSplit DEF canary, stable, config
    <3>3. w = IF config.weight \in 0..TotalWeight THEN config.weight
              ELSE IF config.weight = NoWeight THEN 0 ELSE TotalWeight
      <4>1. config.weight \in Nat \cup {NoWeight} /\ TotalWeight \in Nat /\ NoWeight = -1
        BY CanaryAssumption DEF Splits, NoWeight, config
      <4> QED
        BY <4>1 DEF CanaryWeight
    <3> HIDE DEF w
    <3>4. WantedOf(rule, sources, value) = {<<canary.svc, w>>, <<stable.svc, TotalWeight - w>>}
      BY <1>10, <1>11, <1>15, <2>2, <3>3
    <3> QED
      BY <1>12, <1>15, <3>1, <3>2, <3>4
  <2> QED
    BY <2>1, <2>2
<1> QED
  BY <1>13, <1>14, <1>15

-----------------------------------------------------------------------------
(* A second rule group of a route's name.                                  *)

(* The sources that the canary feature makes of those of a route.          *)
LEMMA CanarySourcesGrow ==
  ASSUME NEW r, GoodRoute(r), RouteFits(r), NEW sources, sources = CanaryRoute(r).sources
  PROVE  \A i \in DOMAIN r.rules : \A h \in ToSet(HeaderSources(r.sources[i])) :
           \E n \in DOMAIN sources \ DOMAIN r.rules : sources[n] = h
<1> DEFINE n == 1..Len(r.rules)
           base == [i \in n |-> CanarySources(r.sources[i])]
           extra == [i \in n |-> HeaderSources(r.sources[i])]
           more == FlattenSeq(extra)
<1>1. DOMAIN r = RouteParts /\ IsList(r.rules) /\ DOMAIN r.rules = n
  BY ListShape DEF GoodRoute
<1>2. \A i \in n : IsList(HeaderSources(r.sources[i]))
  <2>1. \A i \in n : GoodRule(r.ns, r.rules[i], r.sources[i]) /\ Fits(r.rules[i], r.sources[i])
    BY <1>1 DEF GoodRoute, RouteFits
  <2> QED
    BY <2>1, HeaderRulesHold DEF Aligned
<1>3. DOMAIN base = n /\ DOMAIN extra = n /\ \A i \in n : extra[i] = HeaderSources(r.sources[i])
  OBVIOUS
<1>4. IsList(base) /\ IsList(extra)
  <2>1. ASSUME NEW f, f = [i \in n |-> f[i]] PROVE IsList(f)
    <3> DEFINE X == {f[i] : i \in n}
    <3>1. f \in [DOMAIN r.rules -> X]
      BY <1>1, <2>1
    <3> HIDE DEF X
    <3> QED
      BY <1>1, <3>1, MadeList
  <2> QED
    BY <2>1
<1>5. CanaryRoute(r).sources = base \o more
  BY <1>1 DEF CanaryRoute, RouteParts
<1> HIDE DEF base, extra, n
<1>6. IsList(more) /\ \A e : e \in ToSet(more) <=> \E i \in n : e \in ToSet(extra[i])
  BY <1>2, <1>3, <1>4, FlattenList
<1> HIDE DEF more
<1>7. \A e \in ToSet(more) : \E m \in DOMAIN sources \ DOMAIN base : sources[m] = e
  <2>1. sources = base \o more
    BY <1>5
  <2> QED
    BY <1>4, <1>6, <2>1, ConcatPlaces
<1> QED
  BY <1>1, <1>3, <1>6, <1>7

(* The canary stands before the stable source of a rule for its header.    *)
LEMMA BothInOrder ==
  ASSUME NEW sources, IsList(sources), HasBoth(sources),
         NEW both, both = <<sources[CanaryIdx(sources)], sources[StableIdx(sources)]>>
  PROVE  HasBoth(both) /\ StableIdx(both) = 2
<1> DEFINE c == CanaryIdx(sources)
           s == StableIdx(sources)
           C == {i \in 1..Len(sources) : Ann(sources[i].ing).canary}
           S == {i \in 1..Len(sources) : ~Ann(sources[i].ing).canary}
<1>1. Len(sources) \in Nat
  BY ListShape
<1>2. c = FirstIn(C) /\ s = FirstIn(S) /\ c # 0 /\ s # 0
  BY DEF CanaryIdx, StableIdx, HasBoth
<1>3. C \subseteq 1..Len(sources) /\ S \subseteq 1..Len(sources)
  OBVIOUS
<1>4. (\A i \in C : Ann(sources[i].ing).canary) /\ (\A i \in S : ~Ann(sources[i].ing).canary)
  OBVIOUS
<1> HIDE DEF C, S, c, s
<1>5. c \in C
  BY <1>1, <1>2, <1>3, FirstHolds DEF FirstIn
<1>6. s \in S
  BY <1>1, <1>2, <1>3, FirstHolds DEF FirstIn
<1>7. Len(both) = 2 /\ both[1] = sources[c] /\ both[2] = sources[s]
  BY DEF c, s
<1>8. Ann(both[1].ing).canary /\ ~Ann(both[2].ing).canary
  BY <1>4, <1>5, <1>6, <1>7
<1>9. {i \in 1..Len(both) : Ann(both[i].ing).canary} = {1}
  BY <1>7, <1>8
<1>10. {i \in 1..Len(both) : ~Ann(both[i].ing).canary} = {2}
  BY <1>7, <1>8
<1>11. CanaryIdx(both) = 1 /\ StableIdx(both) = 2
  BY <1>9, <1>10, FirstOfOne, Zenon DEF CanaryIdx, StableIdx
<1> QED
  BY <1>11 DEF HasBoth

(* A rule for a header value makes a second visit panic.                   *)
LEMMA HeadersPanic ==
  ASSUME NEW r, GoodRoute(r), RouteFits(r), NEW q, q = CanaryRoute(r), ~IndexPanics(q),
         NEW i \in DOMAIN r.rules
  PROVE  ~ByHeader(r.sources[i])
<1> SUFFICES ASSUME ByHeader(r.sources[i]) PROVE FALSE
  OBVIOUS
<1> DEFINE sources == r.sources[i]
           canary == sources[CanaryIdx(sources)]
           stable == sources[StableIdx(sources)]
           both == <<canary, stable>>
           rest == IF ConfigOf(sources).value # NoValue THEN <<>> ELSE <<<<stable>>>>
<1>1. IsList(sources) /\ HasBoth(sources)
  BY DEF ByHeader, GoodRoute
<1>2. both \in ToSet(HeaderSources(sources))
  <2> DEFINE one == <<both>>
  <2>1. HeaderSources(sources) = one \o rest
    BY DEF HeaderSources
  <2> DEFINE X == {both, <<stable>>}
  <2>2. \A x, y : <<x>> \in Seq({x, y}) /\ <<>> \in Seq({x, y}) /\ <<y>> \in Seq({x, y}) /\ ToSet(<<x>>) = {x}
    BY LiteralHolds
  <2>3. one \in Seq(X) /\ rest \in Seq(X) /\ ToSet(one) = {both}
    BY <2>2
  <2> HIDE DEF one, rest, both, X
  <2>4. ToSet(one \o rest) = ToSet(one) \cup ToSet(rest)
    BY <2>3, ConcatHolds
  <2> QED
    BY <2>1, <2>3, <2>4
<1>3. HasBoth(both) /\ StableIdx(both) = 2
  BY <1>1, BothInOrder
<1>4. PICK n \in DOMAIN q.sources \ DOMAIN r.rules : q.sources[n] = both
  BY <1>2, CanarySourcesGrow
<1>5. IsList(q.rules) /\ DOMAIN q.rules = DOMAIN q.sources
  BY CanaryAligned DEF Aligned
<1>6. n \in 1..Len(q.rules)
  BY <1>4, <1>5, ListShape
<1>7. Grown(r, q.rules)
  BY CanaryRules
<1>8. PICK j \in DOMAIN r.rules : q.rules[n] \in ToSet(HeaderRules(r.rules[j], r.sources[j]))
  BY <1>4, <1>5, <1>7 DEF Grown
<1>9. PICK v, b : q.rules[n] = HeaderRule(r.rules[j], v, b)
  BY <1>8, HeaderRulesAre
<1>10. Len(q.rules[n].backends) = 1
  BY <1>9 DEF HeaderRule
<1> HIDE DEF both
<1>11. HasBoth(q.sources[n]) /\ StableIdx(q.sources[n]) > Len(q.rules[n].backends)
  BY <1>3, <1>4, <1>10
<1> QED
  BY <1>6, <1>11 DEF IndexPanics

(* Weights that are set again stay.                                        *)
LEMMA WeightedTwice ==
  ASSUME NEW rule, NEW sources, DOMAIN rule = RuleParts, IsList(sources), HasBoth(sources), Fits(rule, sources),
         NEW once, once = Weighted(rule, sources)
  PROVE  Weighted(once, sources) = once
<1> DEFINE c == CanaryIdx(sources)
           s == StableIdx(sources)
           w == CanaryWeight(ConfigOf(sources))
           v == TotalWeight - w
           Set(bs) == [[bs EXCEPT ![c].weight = w] EXCEPT ![s].weight = v]
           old == rule.backends
           new == Set(old)
<1>1. c \in DOMAIN old /\ s \in DOMAIN old /\ c # s
  BY BothFound DEF Fits
<1>8. ASSUME NEW x, DOMAIN x = RuleParts PROVE Weighted(x, sources) = [x EXCEPT !.backends = Set(x.backends)]
  BY <1>8 DEF Weighted, RuleParts
<1>2. once = [rule EXCEPT !.backends = new]
  BY <1>8
<1>3. DOMAIN once = RuleParts /\ once.backends = new
  BY <1>2 DEF RuleParts
<1>4. Weighted(once, sources) = [once EXCEPT !.backends = Set(new)]
  BY <1>3, <1>8
<1>5. \A x, y : [[x EXCEPT !.weight = y] EXCEPT !.weight = y] = [x EXCEPT !.weight = y]
  OBVIOUS
<1> HIDE DEF c, s, w, v
<1>6. Set(new) = new
  <2>1. /\ DOMAIN new = DOMAIN old
        /\ new[c] = [old[c] EXCEPT !.weight = w] /\ new[s] = [old[s] EXCEPT !.weight = v]
    BY <1>1
  <2>2. DOMAIN Set(new) = DOMAIN new
    BY <2>1
  <2>3. Set(new)[c] = [new[c] EXCEPT !.weight = w] /\ Set(new)[s] = [new[s] EXCEPT !.weight = v]
    BY <1>1, <2>1
  <2>4. \A j \in DOMAIN new : j # c /\ j # s => Set(new)[j] = new[j]
    BY <1>1, <2>1
  <2>5. \A j \in DOMAIN new : Set(new)[j] = new[j]
    BY <1>5, <2>1, <2>3, <2>4, Zenon
  <2>6. new = [j \in DOMAIN new |-> new[j]] /\ Set(new) = [j \in DOMAIN Set(new) |-> Set(new)[j]]
    OBVIOUS
  <2> HIDE DEF Set, new
  <2> QED
    BY <2>2, <2>5, <2>6
<1> HIDE DEF Set, new
<1>7. [once EXCEPT !.backends = new] = once
  BY <1>2, <1>3 DEF RuleParts
<1> QED
  BY <1>4, <1>6, <1>7

(* And so does a rule without a canary by header.                          *)
LEMMA CanaryRuleTwice ==
  ASSUME NEW rule, NEW sources, DOMAIN rule = RuleParts, IsList(sources), Fits(rule, sources), ~ByHeader(sources),
         NEW once, once = CanaryRule(rule, sources)
  PROVE  CanaryRule(once, sources) = once
<1>1. CASE ~HasBoth(sources)
  BY <1>1 DEF CanaryRule
<1>2. CASE HasBoth(sources)
  <2>1. ~HeaderOnly(sources)
    BY DEF HeaderOnly
  <2>2. once = Weighted(rule, sources)
    BY <1>2, <2>1 DEF CanaryRule
  <2>3. CanaryRule(once, sources) = Weighted(once, sources)
    BY <1>2, <2>1 DEF CanaryRule
  <2> QED
    BY <1>2, <2>2, <2>3, WeightedTwice
<1> QED
  BY <1>1, <1>2

(* Without a canary by header, no rules are added.                         *)
LEMMA NoHeaders ==
  ASSUME NEW r, GoodRoute(r), \A i \in DOMAIN r.rules : ~ByHeader(r.sources[i])
  PROVE  /\ DOMAIN CanaryRoute(r) = RouteParts
         /\ \A x \in RouteParts \ {"rules", "sources"} : CanaryRoute(r)[x] = r[x]
         /\ CanaryRoute(r).rules = [i \in 1..Len(r.rules) |-> CanaryRule(r.rules[i], r.sources[i])]
         /\ CanaryRoute(r).sources = [i \in 1..Len(r.rules) |-> r.sources[i]]
<1> DEFINE n == 1..Len(r.rules)
           rules == [i \in n |-> CanaryRule(r.rules[i], r.sources[i])]
           sources == [i \in n |-> CanarySources(r.sources[i])]
           same == [i \in n |-> r.sources[i]]
           extra == [i \in n |-> HeaderRules(r.rules[i], r.sources[i])]
           more == [i \in n |-> HeaderSources(r.sources[i])]
<1>1. DOMAIN r = RouteParts /\ IsList(r.rules) /\ DOMAIN r.rules = n
  BY ListShape DEF GoodRoute
<1>2. DOMAIN CanaryRoute(r) = RouteParts /\ \A x \in RouteParts \ {"rules", "sources"} : CanaryRoute(r)[x] = r[x]
  BY <1>1 DEF CanaryRoute, RouteParts
<1>3. CanaryRoute(r).rules = rules \o FlattenSeq(extra)
  BY <1>1 DEF CanaryRoute, RouteParts
<1>4. CanaryRoute(r).sources = sources \o FlattenSeq(more)
  BY <1>1 DEF CanaryRoute, RouteParts
<1>5. \A i \in n : /\ HeaderRules(r.rules[i], r.sources[i]) = <<>> /\ HeaderSources(r.sources[i]) = <<>>
                   /\ CanarySources(r.sources[i]) = r.sources[i]
  BY <1>1 DEF HeaderRules, HeaderSources, CanarySources, HeaderOnly
<1>6. IsList(rules) /\ IsList(sources) /\ IsList(extra) /\ IsList(more)
  <2>1. ASSUME NEW f, f = [i \in n |-> f[i]] PROVE IsList(f)
    <3> DEFINE X == {f[i] : i \in n}
    <3>1. f \in [DOMAIN r.rules -> X]
      BY <1>1, <2>1
    <3> HIDE DEF X
    <3> QED
      BY <1>1, <3>1, MadeList
  <2> QED
    BY <2>1
<1>7. DOMAIN extra = n /\ DOMAIN more = n /\ \A i \in n : extra[i] = <<>> /\ more[i] = <<>>
  BY <1>5
<1>8. sources = same
  BY <1>5
<1> HIDE DEF n, rules, sources, extra, more, same
<1>9. rules \o FlattenSeq(extra) = rules
  <2>1. IsList(FlattenSeq(extra)) /\ ToSet(FlattenSeq(extra)) = {}
    BY <1>6, <1>7, FlattenNothing
  <2> QED
    BY <1>6, <2>1, ConcatNothing
<1>10. sources \o FlattenSeq(more) = sources
  <2>1. IsList(FlattenSeq(more)) /\ ToSet(FlattenSeq(more)) = {}
    BY <1>6, <1>7, FlattenNothing
  <2> QED
    BY <1>6, <2>1, ConcatNothing
<1>11. CanaryRoute(r).rules = rules /\ CanaryRoute(r).sources = same
  BY <1>3, <1>4, <1>8, <1>9, <1>10
<1> QED
  BY <1>2, <1>11 DEF n, rules, same

(* A visited route is the record of its parts.                             *)
LEMMA RouteIsRecord ==
  ASSUME NEW r
  PROVE  CanaryRoute(r) = [x \in DOMAIN CanaryRoute(r) |-> CanaryRoute(r)[x]]
BY DEF CanaryRoute

(* A second visit of a route panics or changes nothing.                    *)
LEMMA CanaryTwice ==
  ASSUME NEW r, GoodRoute(r), RouteFits(r), NEW q, q = CanaryRoute(r), ~IndexPanics(q)
  PROVE  CanaryRoute(q) = q
<1>1. GoodRoute(q)
  BY CanaryRouteHolds
<1>2. \A i \in DOMAIN r.rules : ~ByHeader(r.sources[i])
  BY HeadersPanic
<1>3. /\ DOMAIN q = RouteParts
      /\ q.rules = [i \in 1..Len(r.rules) |-> CanaryRule(r.rules[i], r.sources[i])]
      /\ q.sources = [i \in 1..Len(r.rules) |-> r.sources[i]]
  BY <1>2, NoHeaders
<1>4. DOMAIN q.rules = 1..Len(r.rules) /\ DOMAIN r.rules = 1..Len(r.rules) /\ DOMAIN q.rules = 1..Len(q.rules)
  BY <1>1, <1>3, ListShape DEF GoodRoute
<1>5. \A i \in DOMAIN q.rules : q.sources[i] = r.sources[i] /\ ~ByHeader(q.sources[i])
  BY <1>2, <1>3, <1>4
<1>6. \A i \in DOMAIN q.rules : CanaryRule(q.rules[i], q.sources[i]) = q.rules[i]
  <2> SUFFICES ASSUME NEW i \in DOMAIN q.rules PROVE CanaryRule(q.rules[i], q.sources[i]) = q.rules[i]
    OBVIOUS
  <2>1. q.rules[i] = CanaryRule(r.rules[i], r.sources[i]) /\ q.sources[i] = r.sources[i] /\ ~ByHeader(r.sources[i])
    BY <1>3, <1>4, <1>5
  <2>2. DOMAIN r.rules[i] = RuleParts /\ IsList(r.sources[i]) /\ Fits(r.rules[i], r.sources[i])
    BY <1>4 DEF GoodRoute, GoodRule, RouteFits
  <2> QED
    BY <2>1, <2>2, CanaryRuleTwice
<1>7. /\ DOMAIN CanaryRoute(q) = RouteParts
      /\ \A x \in RouteParts \ {"rules", "sources"} : CanaryRoute(q)[x] = q[x]
      /\ CanaryRoute(q).rules = [i \in 1..Len(q.rules) |-> CanaryRule(q.rules[i], q.sources[i])]
      /\ CanaryRoute(q).sources = [i \in 1..Len(q.rules) |-> q.sources[i]]
  BY <1>1, <1>5, NoHeaders
<1>8. CanaryRoute(q).rules = q.rules
  BY <1>3, <1>4, <1>6, <1>7
<1>9. CanaryRoute(q).sources = q.sources
  BY <1>3, <1>4, <1>5, <1>7
<1>10. \A x \in RouteParts : CanaryRoute(q)[x] = q[x]
  BY <1>7, <1>8, <1>9 DEF RouteParts
<1>11. q = [x \in DOMAIN q |-> q[x]]
  BY RouteIsRecord
<1>12. CanaryRoute(q) = [x \in DOMAIN CanaryRoute(q) |-> CanaryRoute(q)[x]]
  BY RouteIsRecord
<1> QED
  BY <1>3, <1>7, <1>10, <1>11, <1>12

-----------------------------------------------------------------------------
(* What the canaries do to the routes of ToIR.                             *)

(* A backend is made without a weight.                                     *)
LEMMA RefUnweighted ==
  ASSUME NEW ns, NEW backend
  PROVE  ToBackendRef(ns, backend).weight = NoWeight
<1> PICK ref : ref = ToBackendRef(ns, backend)
  OBVIOUS
<1>1. CASE backend.portName = NoName
  <2>1. ref = [svc |-> backend.svc, port |-> backend.port, weight |-> NoWeight]
    BY <1>1 DEF ToBackendRef
  <2> QED
    BY <2>1
<1>2. CASE backend.portName # NoName /\ <<ns, backend.svc, backend.portName>> \in DOMAIN ServicePorts
  <2>1. ref = [svc |-> backend.svc, weight |-> NoWeight,
               port |-> ServicePorts[<<ns, backend.svc, backend.portName>>]]
    BY <1>2 DEF ToBackendRef
  <2> QED
    BY <2>1
<1>3. CASE backend.portName # NoName /\ <<ns, backend.svc, backend.portName>> \notin DOMAIN ServicePorts
  <2>1. ref = NoRef
    BY <1>3 DEF ToBackendRef
  <2> QED
    BY <2>1 DEF NoRef, NoWeight
<1> QED
  BY <1>1, <1>2, <1>3

(* What canaries make of a route stays as long as the input does.          *)
LEMMA CanariesStay ==
  ASSUME input' = input
  PROVE  /\ \A r : CanaryRoute(r)' = CanaryRoute(r)
         /\ \A sources : CanaryErrors(sources)' = CanaryErrors(sources)
<1>1. \A id : Ann(id)' = Ann(id)
  BY DEF Ann
<1>2. \A s : /\ CanaryIdx(s)' = CanaryIdx(s)
             /\ StableIdx(s)' = StableIdx(s)
             /\ CanaryErrors(s)' = CanaryErrors(s)
  BY <1>1 DEF CanaryIdx, StableIdx, CanaryErrors
<1>3. \A s : ConfigOf(s)' = ConfigOf(s) /\ (HasBoth(s)' <=> HasBoth(s))
  BY <1>1, <1>2 DEF ConfigOf, HasBoth
<1>4. \A s : (ByHeader(s)' <=> ByHeader(s)) /\ (HeaderOnly(s)' <=> HeaderOnly(s))
  BY <1>3 DEF ByHeader, HeaderOnly
<1>5. \A rule, s : Weighted(rule, s)' = Weighted(rule, s)
  BY <1>2, <1>3 DEF Weighted
<1>6. \A rule, s : CanaryRule(rule, s)' = CanaryRule(rule, s)
  BY <1>2, <1>3, <1>4, <1>5 DEF CanaryRule
<1>7. \A rule, s : HeaderRules(rule, s)' = HeaderRules(rule, s)
  BY <1>2, <1>3, <1>4 DEF HeaderRules
<1>8. \A s : CanarySources(s)' = CanarySources(s)
  BY <1>2, <1>4 DEF CanarySources
<1>9. \A s : HeaderSources(s)' = HeaderSources(s)
  BY <1>2, <1>3, <1>4 DEF HeaderSources
<1>10. \A r : CanaryRoute(r)' = CanaryRoute(r)
  BY <1>6, <1>7, <1>8, <1>9 DEF CanaryRoute
<1> QED
  BY <1>2, <1>10

(* A source of a backend is an Ingress of the list.                        *)
LEMMA SourceListed ==
  ASSUME IInv, NEW ns, NEW b, NEW s, SourcedBy(ns, b, s)
  PROVE  Ann(s.ing).weight \in Nat \cup {NoWeight}
<1>1. input \in Inputs
  BY DEF IInv, FlowInv
<1>2. /\ ToSet(input.http) \cup ToSet(input.grpc) \subseteq ToSet(input.list)
      /\ \A ing \in ToSet(input.list) : ing.ann.weight \in Nat \cup {NoWeight}
  BY <1>1, CanaryAssumption
<1>3. \E ing \in ToSet(input.http) \cup ToSet(input.grpc) : <<ing.ns, ing.name>> = s.ing
  <2>1. CASE \E o \in Occurrences : o.ing = s.ing /\ o.path.backend = s.backend
    <3>1. PICK o \in Occurrences : o.ing = s.ing
      BY <2>1
    <3>2. PICK protocol \in {"http", "grpc"} : \E ing \in ToSet(input[protocol]) : \E rule \in ToSet(ing.rules) :
            \E p \in ToSet(rule.paths) : o = Occurrence(protocol, ing, rule, p)
      BY <3>1 DEF Occurrences
    <3>3. PICK ing \in ToSet(input[protocol]) : \E rule, p : o = Occurrence(protocol, ing, rule, p)
      BY <3>2
    <3>4. \A rule, p : Occurrence(protocol, ing, rule, p).ing = <<ing.ns, ing.name>>
      BY DEF Occurrence
    <3>5. ing \in ToSet(input.http) \cup ToSet(input.grpc)
      BY <3>2, <3>3
    <3> QED
      BY <3>1, <3>3, <3>4, <3>5
  <2>2. CASE \E ing \in Ingresses : <<ing.ns, ing.name>> = s.ing /\ ing.default = s.backend
    BY <2>2 DEF Ingresses
  <2> QED
    BY <2>1, <2>2 DEF SourcedBy
<1>4. \E ing \in ToSet(input.list) : <<ing.ns, ing.name>> = s.ing
  BY <1>2, <1>3
<1>5. (CHOOSE ing \in ToSet(input.list) : <<ing.ns, ing.name>> = s.ing) \in ToSet(input.list)
  BY <1>4
<1> QED
  BY <1>2, <1>5 DEF Ann

(* A route with a rule shared by two Ingresses is not that of a default    *)
(* backend, and this rule is as the lemmas above want it.                  *)
LEMMA SplitReady ==
  ASSUME IInv, PathsInv, MatchesInv, pc = "done", errors = {}, NEW k \in DOMAIN ir.http,
         NEW r, r = ir.http[k], NEW i \in DOMAIN r.rules,
         HasBoth(r.sources[i]), CanaryErrors(r.sources[i]) = {}
  PROVE  Matched(r) /\ Splits(r.rules[i], r.sources[i])
<1>1. ir.http = ByKey(httpRoutes) /\ IsList(httpRoutes) /\ Made.http = httpRoutes
  BY DEF IInv, FlowInv, RoutesInv, Made
<1>2. r \in ToSet(httpRoutes)
  BY <1>1, StoredRoutes
<1>3. Even(r) /\ AskedFor(r, "http")
  BY <1>1, <1>2 DEF PathsInv, MadeInv
<1>4. GoodRoute(r) /\ Untouched(r)
  BY StoredGood
<1>5. /\ DOMAIN r.rules[i] = RuleParts /\ IsList(r.rules[i].backends) /\ IsList(r.sources[i])
      /\ DOMAIN r.rules[i].backends = DOMAIN r.sources[i]
      /\ \A j \in DOMAIN r.rules[i].backends : SourcedBy(r.ns, r.rules[i].backends[j], r.sources[i][j])
  BY <1>4 DEF GoodRoute, GoodRule, Untouched
<1>6. Unweighted(r.rules[i])
  BY <1>3, RefUnweighted DEF AskedFor, Unweighted
<1>7. CanaryIdx(r.sources[i]) \in DOMAIN r.sources[i] /\ DOMAIN r.sources[i] = {1, 2}
  BY <1>5, BothFound, TwoSources
<1>8. ConfigOf(r.sources[i]).weight \in Nat \cup {NoWeight}
  BY <1>5, <1>7, SourceListed, Zenon DEF ConfigOf
<1>9. Splits(r.rules[i], r.sources[i])
  BY <1>5, <1>6, <1>8 DEF Splits, SourcedBy
<1>10. Matched(r)
  <2>1. Matched(r) \/ Lone(r)
    BY <1>2 DEF MatchesInv
  <2> QED
    BY <1>7, <2>1 DEF Lone
<1> QED
  BY <1>9, <1>10

(* While the canaries are worked on, the routes that were visited are what *)
(* the feature makes of those of ToIR, and the others are these; and as    *)
(* long as no error was found, none of the visited routes has one.         *)
CanaryInv ==
  stage = "canary" =>
    /\ pc = "done" /\ errors = {}
    /\ DOMAIN pir.http = DOMAIN ir.http
    /\ \A k \in DOMAIN ir.http :
         pir.http[k] = IF Visited(k) THEN CanaryRoute(ir.http[k]) ELSE ir.http[k]
    /\ failed = {} => \A k \in DOMAIN ir.http : Visited(k) =>
         \A i \in DOMAIN ir.http[k].sources : CanaryErrors(ir.http[k].sources[i]) = {}

(* The same of the rules of a route.                                       *)
LEMMA RouteSplits ==
  ASSUME NEW r, GoodRoute(r), RouteFits(r), Matched(r), NEW i \in DOMAIN r.rules,
         Splits(r.rules[i], r.sources[i]), NEW value
  PROVE  Answer(CanaryRoute(r).rules, r.rules[i].matches, value) = WantedOf(r.rules[i], r.sources[i], value)
<1> DEFINE rules == CanaryRoute(r).rules
           rule == r.rules[i]
           sources == r.sources[i]
<1>1. rules = CanaryRoute(r).rules /\ rule = r.rules[i] /\ sources = r.sources[i]
  OBVIOUS
<1>2. Splits(rule, sources)
  OBVIOUS
<1> HIDE DEF rules, rule, sources
<1>3. Answer(rules, rule.matches, value) = WantedOf(rule, sources, value)
  BY <1>1, <1>2, RuleSplits
<1> QED
  BY <1>3 DEF rules, rule, sources

(* Before any rule group is looked at, no route was visited.               *)
LEMMA StartSplits == IInv /\ PathsInv /\ StartFeatures => CanaryInv'
<1> SUFFICES ASSUME StartFeatures, stage' = "canary" PROVE CanaryInv'
  BY DEF CanaryInv
<1>1. errors = {} /\ pc = "done" /\ todo' = RuleGroups(input.list) /\ pir'.http = ir.http
  BY DEF StartFeatures
<1>2. pc' = pc /\ errors' = errors /\ input' = input /\ ir' = ir
  BY DEF StartFeatures, vars
<1>3. \A k : ~Visited(k)'
  BY <1>1, <1>2 DEF Visited
<1> QED
  BY <1>1, <1>2, <1>3 DEF CanaryInv

(* Nothing changes the routes while another part is at work.               *)
LEMMA SplitsRest ==
  ASSUME CanaryInv, UNCHANGED <<vars, nginxVars>>
  PROVE  CanaryInv'
<1>1. /\ input' = input /\ pc' = pc /\ errors' = errors /\ ir' = ir
      /\ pir' = pir /\ stage' = stage /\ todo' = todo /\ failed' = failed
  BY DEF vars, nginxVars
<1>2. /\ \A r : CanaryRoute(r)' = CanaryRoute(r)
      /\ \A sources : CanaryErrors(sources)' = CanaryErrors(sources)
  BY <1>1, CanariesStay
<1>3. \A k : Visited(k)' <=> Visited(k)
  BY <1>1 DEF Visited
<1> QED
  BY <1>1, <1>2, <1>3 DEF CanaryInv

(* A visit makes the split, whether it is the first of the route or not.   *)
LEMMA CanarySplits == IInv /\ PathsInv /\ NginxInv /\ CanaryInv /\ CanaryFeature => CanaryInv'
<1> SUFFICES ASSUME IInv, PathsInv, NginxInv, CanaryInv, CanaryFeature, stage' = "canary" PROVE CanaryInv'
  BY DEF CanaryInv
<1>1. PICK g \in todo :
        /\ todo' = todo \ {g}
        /\ failed' = failed \cup CanaryFailures(pir, g)
        /\ IF GroupRoute(g) \in DOMAIN pir.http /\ IndexPanics(pir.http[GroupRoute(g)])
           THEN stage' = "panic" /\ UNCHANGED pir
           ELSE pir' = Canary(pir, g) /\ UNCHANGED stage
  BY DEF CanaryFeature
<1> PICK k : k = GroupRoute(g)
  OBVIOUS
<1>2. stage = "canary" /\ input' = input /\ pc' = pc /\ errors' = errors /\ ir' = ir
  BY DEF CanaryFeature, vars
<1>3. /\ pc = "done" /\ errors = {} /\ DOMAIN pir.http = DOMAIN ir.http
      /\ \A x \in DOMAIN ir.http :
           pir.http[x] = IF Visited(x) THEN CanaryRoute(ir.http[x]) ELSE ir.http[x]
      /\ failed = {} => \A x \in DOMAIN ir.http : Visited(x) =>
           \A i \in DOMAIN ir.http[x].sources : CanaryErrors(ir.http[x].sources[i]) = {}
  BY <1>2 DEF CanaryInv
<1>4. /\ \A r : CanaryRoute(r)' = CanaryRoute(r)
      /\ \A sources : CanaryErrors(sources)' = CanaryErrors(sources)
  BY <1>2, CanariesStay
<1>5. ~(k \in DOMAIN pir.http /\ IndexPanics(pir.http[k])) /\ pir' = Canary(pir, g)
  BY <1>1
<1>6. /\ DOMAIN pir'.http = DOMAIN pir.http
      /\ \A x \in DOMAIN pir.http : pir'.http[x] = IF x = k THEN CanaryRoute(pir.http[x]) ELSE pir.http[x]
  BY <1>2, <1>5 DEF Canary, NginxInv
<1>7. todo \subseteq RuleGroups(input.list)
  BY <1>2 DEF NginxInv
<1>8. \A x : Visited(x)' <=> (Visited(x) \/ x = k)
  BY <1>1, <1>2, <1>7 DEF Visited
<1>9. ASSUME NEW x \in DOMAIN ir.http
      PROVE  pir'.http[x] = IF Visited(x) \/ x = k THEN CanaryRoute(ir.http[x]) ELSE ir.http[x]
  <2>1. CASE x # k
    BY <1>3, <1>6, <2>1
  <2>2. CASE x = k /\ ~Visited(x)
    BY <1>3, <1>6, <2>2
  <2>3. CASE x = k /\ Visited(x)
    <3> PICK r : r = ir.http[x]
      OBVIOUS
    <3> PICK q : q = pir.http[x]
      OBVIOUS
    <3>1. q = CanaryRoute(r) /\ ~IndexPanics(q) /\ pir'.http[x] = CanaryRoute(q)
      BY <1>3, <1>5, <1>6, <2>3
    <3>2. GoodRoute(r) /\ Untouched(r)
      BY <1>3, StoredGood
    <3>3. RouteFits(r)
      BY <3>2, UntouchedFits, NoIndexPanics
    <3>4. CanaryRoute(q) = q
      BY <3>1, <3>2, <3>3, CanaryTwice
    <3> QED
      BY <2>3, <3>1, <3>4
  <2> QED
    BY <2>1, <2>2, <2>3
<1>10. ASSUME failed' = {}, NEW x \in DOMAIN ir.http, Visited(x) \/ x = k, NEW i \in DOMAIN ir.http[x].sources
       PROVE  CanaryErrors(ir.http[x].sources[i]) = {}
  <2>1. failed = {} /\ CanaryFailures(pir, g) = {}
    BY <1>1, <1>10
  <2>2. CASE Visited(x)
    BY <1>3, <1>10, <2>1, <2>2
  <2>3. CASE x = k /\ ~Visited(x)
    <3>1. ir.http[x].sources[i] \in ToSet(pir.http[k].sources) /\ k \in DOMAIN pir.http
      BY <1>3, <2>3, InToSet
    <3>2. \A s \in ToSet(pir.http[k].sources) : CanaryErrors(s) = {}
      BY <2>1, <3>1 DEF CanaryFailures
    <3> QED
      BY <3>1, <3>2
  <2> QED
    BY <1>10, <2>2, <2>3
<1> QED
  BY <1>2, <1>3, <1>4, <1>6, <1>8, <1>9, <1>10 DEF CanaryInv

(* No step of convert gives a route a split that is not its own.           *)
LEMMA SplitsStep ==
  ASSUME IInv, PathsInv, NginxInv, CanaryInv, [NginxNext]_<<vars, nginxVars>>
  PROVE  CanaryInv'
<1>1. CASE Next /\ UNCHANGED nginxVars
  <2>1. pc # "done"
    BY <1>1 DEF Next, AddIngresses, ConvertGroup, ConvertDefaults, BuildGateway, Return
  <2>2. stage' # "canary"
    BY <1>1, <2>1 DEF CanaryInv, nginxVars
  <2> QED
    BY <2>2 DEF CanaryInv
<1>2. CASE UNCHANGED <<vars, nginxVars>>
  BY <1>2, SplitsRest
<1>3. CASE StartFeatures
  BY <1>3, StartSplits
<1>4. CASE CanaryFeature
  BY <1>4, CanarySplits
<1>5. CASE CreateBackendTLSPolicies
  BY <1>5, StagesGoOn DEF CreateBackendTLSPolicies, Feature, CanaryInv
<1>6. CASE RedirectFeature \/ HeaderModifierFeature \/ RegexFeature \/ SSLPassthroughFeature \/ AppRootFeature
  BY <1>6, StagesGoOn
     DEF RedirectFeature, HeaderModifierFeature, RegexFeature, SSLPassthroughFeature, AppRootFeature,
         Feature, CanaryInv
<1>7. CASE BackendTLSFeature \/ SessionAffinityFeature
  BY <1>7, StagesGoOn DEF BackendTLSFeature, SessionAffinityFeature, Feature, CanaryInv
<1>8. CASE PassthroughPanics
  BY <1>8 DEF PassthroughPanics, CanaryInv
<1> QED
  BY <1>1, <1>2, <1>3, <1>4, <1>5, <1>6, <1>7, <1>8 DEF NginxNext

-----------------------------------------------------------------------------
(* Where the paths of the main Ingresses go.                               *)

(* The rule matches the path of o, of whatever type.                       *)
At(o, rule) == \E type : rule.matches = HTTPMatch(<<type, o.path.path>>)

(* All sources of a rule but canaries are the Ingress of o.                *)
Sole(o, sources) == \A j \in DOMAIN sources : sources[j].ing = o.ing \/ Ann(sources[j].ing).canary

(* The rule sends to the backend of o, for the Ingress of o.               *)
Waits(o, rule, sources) ==
  LET ref == ToBackendRef(o.ns, o.path.backend) IN
  /\ At(o, rule) /\ Sole(o, sources)
  /\ ref.svc = o.path.backend.svc
  /\ \E j \in DOMAIN rule.backends :
       /\ j \in DOMAIN sources /\ sources[j].ing = o.ing
       /\ rule.backends[j].svc = ref.svc /\ rule.backends[j].port = ref.port

(* The rule redirects the path of o.                                       *)
Moved(o, rule) == At(o, rule) /\ <<"redirect", "url">> \in ToSet(rule.filters)

(* What the redirect feature leaves of a rule, or will.                    *)
Holds(o, rule, sources, redirected) ==
  IF redirected /\ Ann(o.ing).redirect = "valid" THEN Moved(o, rule) ELSE Waits(o, rule, sources)

(* All sources of the route are Ingresses of its host and gateway.         *)
HostSourced(r) ==
  \A s \in SourcesOf(r) : \E q \in Occurrences :
    q.ing = s.ing /\ q.ns = r.ns /\ q.class = r.parent /\ q.host = r.host /\ q.protocol = "http"

(* The route has a rule for o.                                             *)
Carries(o, r, redirected) ==
  /\ r.ns = o.ns /\ r.host = o.host /\ r.parent = o.class
  /\ HostSourced(r)
  /\ \E i \in DOMAIN r.rules : i \in DOMAIN r.sources /\ Holds(o, r.rules[i], r.sources[i], redirected)

(* The Ingress of o speaks for a rule that waits for it.                   *)
LEMMA SpeaksAlone ==
  ASSUME NEW o, ~Ann(o.ing).canary, NEW sources, IsList(sources), Sole(o, sources),
         NEW j \in DOMAIN sources, sources[j].ing = o.ing
  PROVE  NonCanary(sources) = {o.ing}
<1> DEFINE S == {x \in 1..Len(sources) : ~Ann(sources[x].ing).canary}
<1>1. Len(sources) \in Nat /\ DOMAIN sources = 1..Len(sources)
  BY ListShape
<1>2. S \subseteq 1..Len(sources) /\ S # {}
  BY <1>1
<1>3. \A x \in S : sources[x].ing = o.ing
  BY <1>1 DEF Sole
<1>4. NonCanary(sources) = IF FirstIn(S) # 0 THEN {sources[FirstIn(S)].ing}
                           ELSE {sources[x].ing : x \in 1..Len(sources) \cap {1}}
  BY DEF NonCanary
<1> HIDE DEF S
<1>5. FirstIn(S) \in S
  BY <1>1, <1>2, FirstHolds
<1>6. FirstIn(S) # 0
  BY <1>1, <1>2, <1>5
<1> QED
  BY <1>3, <1>4, <1>5, <1>6

(* So it decides whether the rule redirects.                               *)
LEMMA SpeaksForRule ==
  ASSUME NEW o, ~Ann(o.ing).canary, NEW r, GoodRoute(r), NEW i \in DOMAIN r.sources,
         NEW rule, Waits(o, rule, r.sources[i])
  PROVE  AsksRedirect(r, i) <=> Ann(o.ing).redirect = "valid"
<1>1. IsList(r.sources) /\ IsList(r.sources[i]) /\ Sole(o, r.sources[i])
  BY DEF GoodRoute, Waits
<1>2. PICK j \in DOMAIN r.sources[i] : r.sources[i][j].ing = o.ing
  BY DEF Waits
<1>3. NonCanary(r.sources[i]) = {o.ing}
  BY <1>1, <1>2, SpeaksAlone
<1>4. i <= Len(r.sources)
  BY <1>1, ListShape
<1> QED
  BY <1>3, <1>4 DEF AsksRedirect, Speaks

(* A rule that keeps its match and the Services behind it.                 *)
LEMMA WaitsOn ==
  ASSUME NEW o, NEW rule, NEW sources, Waits(o, rule, sources),
         NEW new, new.matches = rule.matches, DOMAIN new.backends = DOMAIN rule.backends,
         \A j \in DOMAIN rule.backends :
           new.backends[j].svc = rule.backends[j].svc /\ new.backends[j].port = rule.backends[j].port
  PROVE  Waits(o, new, sources)
BY DEF Waits, At

(* Weights change nothing of that.                                         *)
LEMMA WaitsWeighted ==
  ASSUME NEW o, NEW ns, NEW rule, NEW sources, GoodRule(ns, rule, sources), Waits(o, rule, sources)
  PROVE  Waits(o, Weighted(rule, sources), sources)
<1> PICK c : c = CanaryIdx(sources)
  OBVIOUS
<1> PICK s : s = StableIdx(sources)
  OBVIOUS
<1> PICK w : w = CanaryWeight(ConfigOf(sources))
  OBVIOUS
<1> PICK v : v = TotalWeight - w
  OBVIOUS
<1> PICK old : old = rule.backends
  OBVIOUS
<1> DEFINE new == [[old EXCEPT ![c].weight = w] EXCEPT ![s].weight = v]
           made == [rule EXCEPT !.backends = new]
<1>1. DOMAIN rule = RuleParts /\ \A j \in DOMAIN old : DOMAIN old[j] = BackendParts
  BY DEF GoodRule, SourcedBy
<1>2. Weighted(rule, sources) = made
  <2>1. DOMAIN rule = RuleParts
    BY <1>1
  <2> QED
    BY <2>1 DEF Weighted, RuleParts
<1>3. DOMAIN new = DOMAIN old
  OBVIOUS
<1>4. ASSUME NEW j \in DOMAIN old PROVE new[j].svc = old[j].svc /\ new[j].port = old[j].port
  <2> DEFINE first == [old EXCEPT ![c].weight = w]
  <2>1. DOMAIN first = DOMAIN old /\ \A i \in DOMAIN old :
          first[i] = IF i = c THEN [old[i] EXCEPT !.weight = w] ELSE old[i]
    OBVIOUS
  <2>2. new[j] = IF j = s THEN [first[j] EXCEPT !.weight = v] ELSE first[j]
    BY <2>1
  <2> HIDE DEF first, new
  <2>3. DOMAIN first[j] = BackendParts /\ first[j].svc = old[j].svc /\ first[j].port = old[j].port
    BY <1>1, <2>1 DEF BackendParts
  <2> QED
    BY <2>2, <2>3 DEF BackendParts
<1> HIDE DEF new
<1>5. made.matches = rule.matches /\ made.backends = new
  BY <1>1 DEF RuleParts
<1> HIDE DEF made
<1>6. Waits(o, made, sources)
  BY <1>3, <1>4, <1>5, WaitsOn
<1> QED
  BY <1>2, <1>6

(* The canary leaves, and the Ingress of o is none.                        *)
LEMMA WaitsWithout ==
  ASSUME NEW o, ~Ann(o.ing).canary, NEW ns, NEW rule, NEW sources, GoodRule(ns, rule, sources),
         HasBoth(sources), Fits(rule, sources), Waits(o, rule, sources),
         NEW c, c = CanaryIdx(sources)
  PROVE  Waits(o, [rule EXCEPT !.backends = RemoveAt(@, c)], RemoveAt(sources, c))
<1> PICK old : old = rule.backends
  OBVIOUS
<1> PICK new : new = RemoveAt(old, c)
  OBVIOUS
<1> PICK rest : rest = RemoveAt(sources, c)
  OBVIOUS
<1> DEFINE made == [rule EXCEPT !.backends = new]
<1>1. /\ DOMAIN rule = RuleParts /\ IsList(old) /\ IsList(sources)
      /\ \A j \in DOMAIN old : j \in DOMAIN sources
  BY DEF GoodRule
<1>2. c \in DOMAIN old /\ c \in DOMAIN sources
  BY <1>1, BothFound DEF Fits
<1>3. /\ Len(old) \in Nat /\ DOMAIN old = 1..Len(old)
      /\ Len(sources) \in Nat /\ DOMAIN sources = 1..Len(sources)
  BY <1>1, ListShape
<1>4. /\ IsList(new) /\ DOMAIN new = 1..Len(old) - 1
      /\ \A i \in DOMAIN new : new[i] = IF i < c THEN old[i] ELSE old[i + 1]
  BY <1>1, <1>2, RemoveAtHolds
<1>5. /\ IsList(rest) /\ DOMAIN rest = 1..Len(sources) - 1
      /\ \A i \in DOMAIN rest : rest[i] = IF i < c THEN sources[i] ELSE sources[i + 1]
  BY <1>1, <1>2, RemoveAtHolds
<1>6. Ann(sources[c].ing).canary
  <2> DEFINE S == {i \in 1..Len(sources) : Ann(sources[i].ing).canary}
  <2>1. c = FirstIn(S) /\ c # 0
    BY DEF CanaryIdx, HasBoth
  <2>2. S \subseteq 1..Len(sources) /\ S # {}
    BY <2>1 DEF FirstIn
  <2>3. \A i \in S : Ann(sources[i].ing).canary
    OBVIOUS
  <2> HIDE DEF S
  <2>4. FirstIn(S) \in S
    BY <1>3, <2>2, FirstHolds
  <2> QED
    BY <2>1, <2>3, <2>4
<1> PICK ref : ref = ToBackendRef(o.ns, o.path.backend)
  OBVIOUS
<1>7. /\ At(o, rule) /\ Sole(o, sources) /\ ref.svc = o.path.backend.svc
      /\ \E j \in DOMAIN old : sources[j].ing = o.ing /\ old[j].svc = ref.svc /\ old[j].port = ref.port
  BY DEF Waits
<1>8. PICK j \in DOMAIN old : sources[j].ing = o.ing /\ old[j].svc = ref.svc /\ old[j].port = ref.port
  BY <1>7
<1>9. j # c
  BY <1>6, <1>8
<1>10. \E m \in DOMAIN new : m \in DOMAIN rest /\ new[m] = old[j] /\ rest[m] = sources[j]
  <2>1. j \in DOMAIN sources
    BY <1>1
  <2>2. CASE j < c
    <3>1. j \in DOMAIN new /\ j \in DOMAIN rest
      BY <1>2, <1>3, <1>4, <1>5, <2>1, <2>2
    <3> QED
      BY <1>4, <1>5, <2>2, <3>1
  <2>3. CASE ~(j < c)
    <3>1. j - 1 \in DOMAIN new /\ j - 1 \in DOMAIN rest /\ ~(j - 1 < c) /\ (j - 1) + 1 = j
      BY <1>2, <1>3, <1>4, <1>5, <1>9, <2>1, <2>3
    <3> QED
      BY <1>4, <1>5, <3>1
  <2> QED
    BY <2>2, <2>3
<1>11. Sole(o, rest)
  <2>1. ASSUME NEW m \in DOMAIN rest PROVE \E i \in DOMAIN sources : rest[m] = sources[i]
    <3>1. m \in DOMAIN sources /\ m + 1 \in DOMAIN sources
      BY <1>3, <1>5
    <3> QED
      BY <1>5, <3>1
  <2> QED
    BY <1>7, <2>1 DEF Sole
<1>12. made.matches = rule.matches /\ made.backends = new
  BY <1>1 DEF RuleParts
<1>13. [rule EXCEPT !.backends = RemoveAt(@, c)] = made
  BY <1>1 DEF RuleParts
<1> HIDE DEF made
<1>14. Waits(o, made, rest)
  <2>1. At(o, made)
    BY <1>7, <1>12 DEF At
  <2>2. PICK m \in DOMAIN new : m \in DOMAIN rest /\ new[m] = old[j] /\ rest[m] = sources[j]
    BY <1>10
  <2>3. rest[m].ing = o.ing /\ new[m].svc = ref.svc /\ new[m].port = ref.port
    BY <1>8, <2>2
  <2> QED
    BY <1>7, <1>11, <1>12, <2>1, <2>2, <2>3 DEF Waits
<1> QED
  BY <1>13, <1>14

(* The canary feature leaves a rule to the Ingress that has its path.      *)
LEMMA CanaryRuleWaits ==
  ASSUME NEW o, ~Ann(o.ing).canary, NEW ns, NEW rule, NEW sources, GoodRule(ns, rule, sources),
         Fits(rule, sources), Waits(o, rule, sources)
  PROVE  Waits(o, CanaryRule(rule, sources), CanarySources(sources))
<1>1. CASE ~HasBoth(sources)
  BY <1>1 DEF CanaryRule, CanarySources, HeaderOnly, ByHeader
<1>2. CASE HasBoth(sources) /\ HeaderOnly(sources)
  BY <1>2, WaitsWithout DEF CanaryRule, CanarySources
<1>3. CASE HasBoth(sources) /\ ~HeaderOnly(sources)
  BY <1>3, WaitsWeighted DEF CanaryRule, CanarySources
<1> QED
  BY <1>1, <1>2, <1>3

-----------------------------------------------------------------------------
(* The features, route by route.                                           *)

(* Two routes of one name, for one host and gateway.                       *)
SameHead(r, q) == q.ns = r.ns /\ q.name = r.name /\ q.host = r.host /\ q.parent = r.parent

(* A route with other rules for the same sources.                          *)
LEMMA HeadKept ==
  ASSUME NEW r, GoodRoute(r), NEW f, f = [i \in 1..Len(r.rules) |-> f[i]],
         NEW q, q = [r EXCEPT !.rules = f]
  PROVE  SameHead(r, q) /\ q.sources = r.sources /\ q.rules = f /\ DOMAIN f = DOMAIN r.rules
<1>1. DOMAIN r = RouteParts /\ DOMAIN r.rules = 1..Len(r.rules)
  BY ListShape DEF GoodRoute
<1>2. DOMAIN f = 1..Len(r.rules)
  OBVIOUS
<1> QED
  BY <1>1, <1>2 DEF RouteParts, SameHead

(* A rule for o is left where it was.                                      *)
LEMMA CarriesOn ==
  ASSUME NEW o, NEW r, NEW q, SameHead(r, q), q.sources = r.sources, DOMAIN q.rules = DOMAIN r.rules,
         NEW a \in BOOLEAN, NEW b \in BOOLEAN, Carries(o, r, a),
         \A i \in DOMAIN r.rules : i \in DOMAIN r.sources /\ Holds(o, r.rules[i], r.sources[i], a) =>
           Holds(o, q.rules[i], r.sources[i], b)
  PROVE  Carries(o, q, b)
<1>1. SourcesOf(q) = SourcesOf(r)
  BY DEF SourcesOf
<1>2. HostSourced(q)
  BY <1>1 DEF Carries, HostSourced, SameHead
<1> QED
  BY <1>2 DEF Carries, SameHead

(* canaryFeature: no source is new.                                        *)
LEMMA CanarySourced ==
  ASSUME NEW r, GoodRoute(r), RouteFits(r), NEW q, q = CanaryRoute(r)
  PROVE  /\ SameHead(r, q)
         /\ \A i \in DOMAIN r.rules : i \in DOMAIN q.sources /\ q.sources[i] = CanarySources(r.sources[i])
         /\ SourcesOf(q) \subseteq SourcesOf(r)
<1> DEFINE n == 1..Len(r.rules)
           first == [i \in n |-> CanarySources(r.sources[i])]
           more == [i \in n |-> HeaderSources(r.sources[i])]
<1>1. DOMAIN r = RouteParts /\ IsList(r.rules) /\ DOMAIN r.rules = n
  BY ListShape DEF GoodRoute
<1>2. \A i \in n : i \in DOMAIN r.sources /\ IsList(r.sources[i])
  BY <1>1 DEF GoodRoute
<1>3. /\ DOMAIN first = n /\ DOMAIN more = n
      /\ \A i \in n : first[i] = CanarySources(r.sources[i]) /\ more[i] = HeaderSources(r.sources[i])
  OBVIOUS
<1>4. q.sources = first \o FlattenSeq(more) /\ SameHead(r, q)
  BY <1>1 DEF CanaryRoute, RouteParts, SameHead
<1>5. IsList(first) /\ IsList(more)
  <2>1. ASSUME NEW f, f = [i \in n |-> f[i]] PROVE IsList(f)
    <3> DEFINE X == {f[i] : i \in n}
    <3>1. f \in [DOMAIN r.rules -> X]
      BY <1>1, <2>1
    <3> HIDE DEF X
    <3> QED
      BY <1>1, <3>1, MadeList
  <2> QED
    BY <2>1
<1> HIDE DEF first, more, n
<1>6. ASSUME NEW s, IsList(s), NEW e, e \in ToSet(CanarySources(s)) PROVE e \in ToSet(s)
  <2>1. CASE ~HeaderOnly(s)
    BY <1>6, <2>1 DEF CanarySources
  <2>2. CASE HeaderOnly(s)
    <3> PICK c : c = CanaryIdx(s)
      OBVIOUS
    <3> PICK t : t = RemoveAt(s, c)
      OBVIOUS
    <3>1. c \in DOMAIN s /\ Len(s) \in Nat /\ DOMAIN s = 1..Len(s)
      BY <1>6, <2>2, BothFound, ListShape DEF HeaderOnly, ByHeader
    <3>2. /\ DOMAIN t = 1 .. Len(s) - 1
          /\ \A i \in DOMAIN t : t[i] = IF i < c THEN s[i] ELSE s[i + 1]
      BY <1>6, <3>1, RemoveAtHolds
    <3>3. e \in ToSet(t)
      BY <1>6, <2>2 DEF CanarySources
    <3>4. PICK i \in DOMAIN t : t[i] = e
      BY <3>3, InToSet
    <3>5. i \in DOMAIN s /\ i + 1 \in DOMAIN s
      BY <3>1, <3>2
    <3> QED
      BY <3>2, <3>4, <3>5, InToSet
  <2> QED
    BY <2>1, <2>2
<1>7. ASSUME NEW s, IsList(s), NEW h \in ToSet(HeaderSources(s)), NEW e \in ToSet(h) PROVE e \in ToSet(s)
  <2> DEFINE canary == s[CanaryIdx(s)]
             stable == s[StableIdx(s)]
  <2>1. ByHeader(s)
    BY <1>7, EmptyList DEF HeaderSources
  <2>2. CanaryIdx(s) \in DOMAIN s /\ StableIdx(s) \in DOMAIN s
    BY <1>7, <2>1, BothFound DEF ByHeader
  <2>3. canary \in ToSet(s) /\ stable \in ToSet(s)
    BY <2>2, InToSet
  <2>4. h = <<canary, stable>> \/ h = <<stable>>
    <3>1. \/ HeaderSources(s) = <<<<canary, stable>>>> \o <<>>
          \/ HeaderSources(s) = <<<<canary, stable>>>> \o <<<<stable>>>>
      BY <2>1 DEF HeaderSources
    <3> HIDE DEF canary, stable
    <3>2. HeaderSources(s) = <<<<canary, stable>>>> \/ HeaderSources(s) = <<<<canary, stable>>, <<stable>>>>
      BY <3>1
    <3>3. \A a, b : ToSet(<<a>>) = {a} /\ ToSet(<<a, b>>) = {a, b}
      BY DEF ToSet
    <3> QED
      BY <1>7, <3>2, <3>3
  <2> HIDE DEF canary, stable
  <2>5. ToSet(<<canary, stable>>) = {canary, stable} /\ ToSet(<<stable>>) = {stable}
    BY DEF ToSet
  <2> QED
    BY <1>7, <2>3, <2>4, <2>5
<1>8. \A i \in DOMAIN more : IsList(more[i])
  <2>1. \A i \in n : GoodRule(r.ns, r.rules[i], r.sources[i]) /\ Fits(r.rules[i], r.sources[i])
    BY <1>1 DEF GoodRoute, RouteFits
  <2> QED
    BY <1>3, <2>1, HeaderRulesHold DEF Aligned
<1> PICK flat : flat = FlattenSeq(more)
  OBVIOUS
<1>9. IsList(flat) /\ \A h : h \in ToSet(flat) <=> \E i \in DOMAIN more : h \in ToSet(more[i])
  BY <1>5, <1>8, FlattenList
<1> PICK all : all = first \o flat
  OBVIOUS
<1>10. /\ \A i \in DOMAIN first : i \in DOMAIN all /\ all[i] = first[i]
       /\ \A x \in DOMAIN all \ DOMAIN first : all[x] \in ToSet(flat)
  <2>1. all = first \o flat
    OBVIOUS
  <2> QED
    BY <1>5, <1>9, <2>1, ConcatPlaces
<1>11. \A i \in n : \A e \in ToSet(r.sources[i]) : e \in SourcesOf(r)
  BY <1>2, InToSet DEF SourcesOf
<1>12. ASSUME NEW e \in SourcesOf(q) PROVE e \in SourcesOf(r)
  <2>1. PICK h \in ToSet(all) : e \in ToSet(h)
    BY <1>4 DEF SourcesOf
  <2>2. PICK x \in DOMAIN all : all[x] = h
    BY InToSet
  <2>3. CASE x \in DOMAIN first
    BY <1>2, <1>3, <1>6, <1>10, <1>11, <2>1, <2>2, <2>3
  <2>4. CASE x \notin DOMAIN first
    <3>1. PICK i \in DOMAIN more : h \in ToSet(more[i])
      BY <1>9, <1>10, <2>2, <2>4
    <3> QED
      BY <1>2, <1>3, <1>7, <1>11, <2>1, <3>1
  <2> QED
    BY <2>3, <2>4
<1> QED
  BY <1>1, <1>3, <1>4, <1>10, <1>12

(* The canary feature leaves a rule for o.                                 *)
LEMMA CanaryCarries ==
  ASSUME NEW o, ~Ann(o.ing).canary, NEW r, GoodRoute(r), RouteFits(r), Carries(o, r, FALSE),
         NEW q, q = CanaryRoute(r)
  PROVE  Carries(o, q, FALSE)
<1>1. PICK i \in DOMAIN r.rules : i \in DOMAIN r.sources /\ Waits(o, r.rules[i], r.sources[i])
  BY DEF Carries, Holds
<1>2. GoodRule(r.ns, r.rules[i], r.sources[i]) /\ Fits(r.rules[i], r.sources[i])
  BY DEF GoodRoute, RouteFits
<1>3. Waits(o, CanaryRule(r.rules[i], r.sources[i]), CanarySources(r.sources[i]))
  BY <1>1, <1>2, CanaryRuleWaits
<1>4. /\ SameHead(r, q)
      /\ i \in DOMAIN q.sources /\ q.sources[i] = CanarySources(r.sources[i])
      /\ SourcesOf(q) \subseteq SourcesOf(r)
  BY CanarySourced
<1> PICK rules : rules = CanaryRoute(r).rules
  OBVIOUS
<1>5. Grown(r, rules)
  BY CanaryRules
<1>6. i \in DOMAIN q.rules /\ q.rules[i] = CanaryRule(r.rules[i], r.sources[i])
  BY <1>5 DEF Grown
<1>7. HostSourced(q)
  BY <1>4 DEF Carries, HostSourced, SameHead
<1> QED
  BY <1>3, <1>4, <1>6, <1>7 DEF Carries, Holds, SameHead

(* redirectFeature: a rule that waits for o moves if o asks for it.        *)
LEMMA RedirectCarries ==
  ASSUME NEW o, ~Ann(o.ing).canary, NEW r, GoodRoute(r), Carries(o, r, FALSE),
         NEW q, q = RedirectRoute(r)
  PROVE  SameHead(r, q) /\ Carries(o, q, TRUE)
<1> DEFINE New(i) == Redirecting(r.rules[i], <<"redirect", "url">>)
           f == [i \in 1..Len(r.rules) |-> IF AsksRedirect(r, i) THEN New(i) ELSE r.rules[i]]
<1>1. DOMAIN r.rules = 1..Len(r.rules) /\ DOMAIN r = RouteParts
  BY ListShape DEF GoodRoute
<1>2. q = [r EXCEPT !.rules = f]
  BY <1>1 DEF RedirectRoute, RouteParts
<1>3. f = [i \in 1..Len(r.rules) |-> f[i]]
      /\ \A i \in DOMAIN r.rules : f[i] = IF AsksRedirect(r, i) THEN New(i) ELSE r.rules[i]
  BY <1>1
<1> HIDE DEF f
<1>4. SameHead(r, q) /\ q.sources = r.sources /\ q.rules = f /\ DOMAIN f = DOMAIN r.rules
  BY <1>2, <1>3, HeadKept
<1>5. ASSUME NEW i \in DOMAIN r.rules, i \in DOMAIN r.sources, Holds(o, r.rules[i], r.sources[i], FALSE)
      PROVE  Holds(o, q.rules[i], r.sources[i], TRUE)
  <2> PICK rule : rule = r.rules[i]
    OBVIOUS
  <2>1. Waits(o, rule, r.sources[i])
    BY <1>5 DEF Holds
  <2>2. AsksRedirect(r, i) <=> Ann(o.ing).redirect = "valid"
    BY <1>5, <2>1, SpeaksForRule
  <2>3. CASE Ann(o.ing).redirect = "valid"
    <3> PICK new : new = New(i)
      OBVIOUS
    <3>1. q.rules[i] = new
      BY <1>3, <1>4, <2>2, <2>3
    <3>2. DOMAIN rule = RuleParts /\ IsList(rule.filters)
      BY DEF GoodRoute, GoodRule
    <3>3. new.matches = rule.matches /\ new.filters = Append(rule.filters, <<"redirect", "url">>)
      BY <3>2 DEF Redirecting, RuleParts
    <3> PICK n : n = Len(rule.filters) + 1
      OBVIOUS
    <3>4. n \in DOMAIN new.filters /\ new.filters[n] = <<"redirect", "url">>
      BY <3>2, <3>3, OneMore DEF OneLonger
    <3>5. <<"redirect", "url">> \in ToSet(new.filters)
      BY <3>4, InToSet
    <3>6. Moved(o, new)
      BY <2>1, <3>3, <3>5 DEF Moved, Waits, At
    <3> QED
      BY <2>3, <3>1, <3>6 DEF Holds
  <2>4. CASE Ann(o.ing).redirect # "valid"
    <3>1. q.rules[i] = rule
      BY <1>3, <1>4, <2>2, <2>4
    <3> QED
      BY <2>1, <2>4, <3>1 DEF Holds
  <2> QED
    BY <2>3, <2>4
<1>6. DOMAIN q.rules = DOMAIN r.rules /\ TRUE \in BOOLEAN /\ FALSE \in BOOLEAN
  BY <1>4
<1> QED
  BY <1>4, <1>5, <1>6, CarriesOn

(* A rule with the filters it had, and perhaps more.                       *)
LEMMA HoldsOn ==
  ASSUME NEW o, NEW rule, NEW sources, Holds(o, rule, sources, TRUE),
         NEW new, At(o, rule) => At(o, new), new.backends = rule.backends,
         ToSet(rule.filters) \subseteq ToSet(new.filters)
  PROVE  Holds(o, new, sources, TRUE)
BY DEF Holds, Waits, Moved

(* headerModifierFeature                                                   *)
LEMMA HeadersCarry ==
  ASSUME NEW o, NEW r, GoodRoute(r), Carries(o, r, TRUE), NEW q, q = HeaderModifierRoute(r)
  PROVE  SameHead(r, q) /\ Carries(o, q, TRUE)
<1> DEFINE New(i) == SettingHeaders(r.rules[i])
           f == [i \in 1..Len(r.rules) |-> IF AsksHeaders(r, i) THEN New(i) ELSE r.rules[i]]
<1>1. DOMAIN r.rules = 1..Len(r.rules) /\ DOMAIN r = RouteParts
  BY ListShape DEF GoodRoute
<1>2. q = [r EXCEPT !.rules = f]
  BY <1>1 DEF HeaderModifierRoute, RouteParts
<1>3. f = [i \in 1..Len(r.rules) |-> f[i]]
      /\ \A i \in DOMAIN r.rules : f[i] = New(i) \/ f[i] = r.rules[i]
  BY <1>1
<1> HIDE DEF f
<1>4. SameHead(r, q) /\ q.sources = r.sources /\ q.rules = f /\ DOMAIN f = DOMAIN r.rules
  BY <1>2, <1>3, HeadKept
<1>5. ASSUME NEW i \in DOMAIN r.rules, Holds(o, r.rules[i], r.sources[i], TRUE)
      PROVE  Holds(o, q.rules[i], r.sources[i], TRUE)
  <2> PICK rule : rule = r.rules[i]
    OBVIOUS
  <2> PICK new : new = New(i)
    OBVIOUS
  <2>1. DOMAIN rule = RuleParts /\ IsList(rule.filters)
    BY DEF GoodRoute, GoodRule
  <2>2. /\ new.matches = rule.matches /\ new.backends = rule.backends
        /\ new.filters = Append(rule.filters, <<"headers", "set">>)
    BY <2>1 DEF SettingHeaders, RuleParts
  <2>3. ToSet(rule.filters) \subseteq ToSet(new.filters)
    <3> PICK n : n = Len(rule.filters)
      OBVIOUS
    <3>1. /\ DOMAIN new.filters = 1..n + 1 /\ n \in Nat
          /\ \A x \in DOMAIN rule.filters : new.filters[x] = rule.filters[x]
      BY <2>1, <2>2, OneMore DEF OneLonger
    <3>2. DOMAIN rule.filters = 1..n
      BY <2>1, ListShape
    <3>3. \A x \in DOMAIN rule.filters : x \in DOMAIN new.filters
      BY <3>1, <3>2
    <3> QED
      BY <3>1, <3>3, InToSet
  <2>4. Holds(o, new, r.sources[i], TRUE)
    BY <1>5, <2>2, <2>3, HoldsOn DEF At
  <2> QED
    BY <1>3, <1>4, <1>5, <2>4
<1>6. DOMAIN q.rules = DOMAIN r.rules /\ TRUE \in BOOLEAN
  BY <1>4
<1> QED
  BY <1>4, <1>5, <1>6, CarriesOn

(* regexFeature                                                            *)
LEMMA RegexCarries ==
  ASSUME NEW o, NEW r, GoodRoute(r), Carries(o, r, TRUE), NEW q, q = RegexRoute(r)
  PROVE  SameHead(r, q) /\ Carries(o, q, TRUE)
<1> DEFINE f == [i \in 1..Len(r.rules) |-> RegexRule(r.rules[i])]
<1>1. DOMAIN r.rules = 1..Len(r.rules) /\ DOMAIN r = RouteParts
  BY ListShape DEF GoodRoute
<1>2. q = r \/ q = [r EXCEPT !.rules = f]
  BY <1>1 DEF RegexRoute, RouteParts
<1>3. f = [i \in 1..Len(r.rules) |-> f[i]] /\ \A i \in DOMAIN r.rules : f[i] = RegexRule(r.rules[i])
  BY <1>1
<1> HIDE DEF f
<1>4. ASSUME NEW i \in DOMAIN r.rules, Holds(o, r.rules[i], r.sources[i], TRUE)
      PROVE  Holds(o, f[i], r.sources[i], TRUE)
  <2> PICK rule : rule = r.rules[i]
    OBVIOUS
  <2> PICK new : new = RegexRule(rule)
    OBVIOUS
  <2>1. DOMAIN rule = RuleParts
    BY DEF GoodRoute, GoodRule
  <2>2. /\ new.matches = RegexMatches(rule.matches) /\ new.backends = rule.backends
        /\ new.filters = rule.filters
    BY <2>1 DEF RegexRule, RuleParts
  <2>3. ASSUME NEW type, rule.matches = HTTPMatch(<<type, o.path.path>>)
        PROVE  new.matches = HTTPMatch(<<"Regex", o.path.path>>)
    <3>1. RegexMatches(HTTPMatch(<<type, o.path.path>>)) = HTTPMatch(<<"Regex", o.path.path>>)
      <4> DEFINE m == HTTPMatch(<<type, o.path.path>>)
      <4>1. m = <<[type |-> type, path |-> o.path.path, header |-> <<>>]>>
        BY DEF HTTPMatch
      <4>2. Len(m) = 1 /\ m[1] = [type |-> type, path |-> o.path.path, header |-> <<>>]
        BY <4>1
      <4> HIDE DEF m
      <4>3. RegexMatches(m) = [j \in 1..1 |-> [m[j] EXCEPT !.type = "Regex"]]
        BY <4>2 DEF RegexMatches
      <4>4. [m[1] EXCEPT !.type = "Regex"] = [type |-> "Regex", path |-> o.path.path, header |-> <<>>]
        BY <4>2
      <4>5. RegexMatches(m) = <<[type |-> "Regex", path |-> o.path.path, header |-> <<>>]>>
        BY <4>3, <4>4
      <4> QED
        BY <4>5 DEF m, HTTPMatch
    <3> QED
      BY <2>2, <2>3, <3>1
  <2>4. Holds(o, new, r.sources[i], TRUE)
    <3>1. At(o, rule) => At(o, new)
      BY <2>3 DEF At
    <3> QED
      BY <1>4, <2>2, <3>1, HoldsOn
  <2> QED
    BY <1>3, <2>4
<1>5. CASE q = [r EXCEPT !.rules = f]
  <2>1. SameHead(r, q) /\ q.sources = r.sources /\ q.rules = f /\ DOMAIN f = DOMAIN r.rules
    BY <1>3, <1>5, HeadKept
  <2>2. DOMAIN q.rules = DOMAIN r.rules /\ TRUE \in BOOLEAN
    BY <2>1
  <2> QED
    BY <1>4, <2>1, <2>2, CarriesOn
<1>6. CASE q = r
  BY <1>6 DEF SameHead
<1> QED
  BY <1>2, <1>5, <1>6

(* appRootFeature: a rule redirects the root from now on, or is as it was. *)
Rooted(rule, new) ==
  /\ new.matches = rule.matches /\ ToSet(rule.filters) \subseteq ToSet(new.filters)
  /\ new.backends = rule.backends \/ <<"redirect", "root">> \in ToSet(new.filters)

(* No rule is lost.                                                        *)
LEMMA AppRootKeeps ==
  ASSUME NEW r, GoodRoute(r), NEW q, q = AppRootRoute(r)
  PROVE  SameHead(r, q) /\ \A rule \in ToSet(r.rules) : \E new \in ToSet(q.rules) : Rooted(rule, new)
<1> DEFINE S == {i \in 1..Len(r.rules) : AsksAppRoot(r, i)}
           filter == <<"redirect", "root">>
           rule == [matches |-> <<[type |-> "Exact", path |-> <<>>, header |-> <<>>]>>,
                    filters |-> <<filter>>, backends |-> <<>>]
           joined == [r EXCEPT !.rules = Append(@, rule), !.sources = Append(@, <<>>)]
           changed == [r EXCEPT !.rules[FirstIn(S)] = Redirecting(@, filter)]
<1>1. DOMAIN r = RouteParts /\ IsList(r.rules) /\ DOMAIN r.rules = 1..Len(r.rules) /\ Len(r.rules) \in Nat
  BY ListShape DEF GoodRoute
<1>2. \/ q = r
      \/ q = changed
      \/ q = joined
  BY DEF AppRootRoute
<1>3. \A x : Rooted(x, x)
  BY DEF Rooted
<1>4. CASE q = r
  BY <1>3, <1>4 DEF SameHead
<1>5. CASE q = joined
  <2> PICK rules : rules = Append(r.rules, rule)
    OBVIOUS
  <2>1. SameHead(r, joined) /\ joined.rules = rules
    BY <1>1 DEF RouteParts, SameHead
  <2> HIDE DEF joined, rule
  <2>2. SameHead(r, q) /\ q.rules = rules
    BY <1>5, <2>1
  <2>3. OneLonger(rules, r.rules, rule)
    BY <1>1, OneMore
  <2>4. \A i \in DOMAIN r.rules : i \in DOMAIN rules /\ rules[i] = r.rules[i]
    BY <1>1, <2>3 DEF OneLonger
  <2>5. ASSUME NEW x \in ToSet(r.rules) PROVE x \in ToSet(rules)
    <3>1. PICK i \in DOMAIN r.rules : r.rules[i] = x
      BY InToSet
    <3>2. i \in DOMAIN rules /\ rules[i] = x
      BY <2>4, <3>1
    <3> QED
      BY <3>2, InToSet
  <2> QED
    BY <1>3, <2>2, <2>5
<1>6. CASE q = changed
  <2> PICK a : a = FirstIn(S)
    OBVIOUS
  <2> PICK new : new = Redirecting(r.rules[a], filter)
    OBVIOUS
  <2> DEFINE f == [i \in 1..Len(r.rules) |-> IF i = a THEN new ELSE r.rules[i]]
  <2>1. changed = [r EXCEPT !.rules = f]
    <3>1. changed = [r EXCEPT !.rules = [r.rules EXCEPT ![a] = new]]
      BY <1>1 DEF RouteParts
    <3>2. [r.rules EXCEPT ![a] = new] = f
      BY <1>1
    <3> QED
      BY <3>1, <3>2
  <2>2. f = [i \in 1..Len(r.rules) |-> f[i]]
        /\ \A i \in DOMAIN r.rules : f[i] = IF i = a THEN new ELSE r.rules[i]
    BY <1>1
  <2> HIDE DEF f, changed
  <2>3. q = [r EXCEPT !.rules = f]
    BY <1>6, <2>1
  <2>4. SameHead(r, q) /\ q.rules = f /\ DOMAIN f = DOMAIN r.rules
    BY <2>2, <2>3, HeadKept
  <2>5. ASSUME NEW i \in DOMAIN r.rules PROVE Rooted(r.rules[i], f[i])
    <3>1. CASE i # a
      BY <1>3, <2>2, <3>1
    <3>2. CASE i = a
      <4> PICK old : old = r.rules[a]
        OBVIOUS
      <4>1. DOMAIN old = RuleParts /\ IsList(old.filters)
        BY <3>2 DEF GoodRoute, GoodRule
      <4>2. new.matches = old.matches /\ new.filters = Append(old.filters, filter)
        BY <4>1 DEF Redirecting, RuleParts
      <4> PICK fs : fs = old.filters
        OBVIOUS
      <4> PICK gs : gs = new.filters
        OBVIOUS
      <4> HIDE DEF filter
      <4>3. OneLonger(gs, fs, filter)
        BY <4>1, <4>2, OneMore
      <4>4. DOMAIN fs = 1..Len(fs)
        BY <4>1, ListShape
      <4>5. /\ \A x \in DOMAIN fs : x \in DOMAIN gs /\ gs[x] = fs[x]
            /\ Len(fs) + 1 \in DOMAIN gs /\ gs[Len(fs) + 1] = filter
        <5>1. /\ Len(fs) \in Nat /\ DOMAIN gs = 1..Len(fs) + 1 /\ gs[Len(fs) + 1] = filter
              /\ \A x \in DOMAIN fs : gs[x] = fs[x]
          BY <4>3 DEF OneLonger
        <5>2. Len(fs) + 1 \in 1..Len(fs) + 1 /\ \A x \in 1..Len(fs) : x \in 1..Len(fs) + 1
          BY <5>1
        <5> QED
          BY <4>4, <5>1, <5>2
      <4>6. ToSet(fs) \subseteq ToSet(gs) /\ filter \in ToSet(gs)
        <5>1. ASSUME NEW e \in ToSet(fs) PROVE e \in ToSet(gs)
          <6>1. PICK x \in DOMAIN fs : fs[x] = e
            BY InToSet
          <6>2. x \in DOMAIN gs /\ gs[x] = e
            BY <4>5, <6>1
          <6> QED
            BY <6>2, InToSet
        <5>2. filter \in ToSet(gs)
          BY <4>5, InToSet
        <5> QED
          BY <5>1, <5>2
      <4>7. Rooted(old, new)
        BY <4>2, <4>6 DEF Rooted, filter
      <4> QED
        BY <2>2, <3>2, <4>7
    <3> QED
      BY <3>1, <3>2
  <2>6. ASSUME NEW x \in ToSet(r.rules) PROVE \E y \in ToSet(q.rules) : Rooted(x, y)
    <3>1. PICK i \in DOMAIN r.rules : r.rules[i] = x
      BY InToSet
    <3>2. f[i] \in ToSet(q.rules)
      BY <2>4, InToSet
    <3> QED
      BY <2>5, <3>1, <3>2
  <2> QED
    BY <2>4, <2>6
<1> HIDE DEF joined, changed
<1> QED
  BY <1>2, <1>4, <1>5, <1>6

(* stripPassthroughRules: a backend of another Ingress stays.              *)
LEMMA StripKeeps ==
  ASSUME NEW r, GoodRoute(r), NEW i \in DOMAIN r.rules, NEW j \in DOMAIN r.rules[i].backends,
         ~IsPassthrough(r.sources[i][j]), NEW q, q = Strip(r)
  PROVE  /\ SameHead(r, q)
         /\ \E rule \in ToSet(q.rules) :
              rule.matches = r.rules[i].matches /\ r.rules[i].backends[j] \in ToSet(rule.backends)
<1> DEFINE stays(x) == {y \in DOMAIN r.rules[x].backends : HasSource(r, x, y) => ~IsPassthrough(r.sources[x][y])}
           kept(x) == Keep(Positions(r.rules[x].backends), stays(x))
           full == {x \in DOMAIN r.rules : kept(x) # <<>>}
           rest == Keep(Positions(r.rules), full)
           sourced(x) == Keep(kept(x), {y \in stays(x) : HasSource(r, x, y)})
           rules == [n \in DOMAIN rest |-> WithBackends(r.rules[rest[n]], kept(rest[n]))]
           sources == [n \in DOMAIN rest |->
                         [m \in DOMAIN sourced(rest[n]) |-> r.sources[rest[n]][sourced(rest[n])[m]]]]
           new == [r EXCEPT !.rules = rules, !.sources = sources]
<1>1. DOMAIN r = RouteParts /\ IsList(r.rules) /\ IsList(r.rules[i].backends) /\ DOMAIN r.rules[i] = RuleParts
  BY Zenon DEF GoodRoute, GoodRule
<1>2. q = new
  BY Zenon DEF Strip
<1>3. SameHead(r, new) /\ new.rules = rules
  BY <1>1, Zenon DEF RouteParts, SameHead
<1> HIDE DEF new
<1>4. DOMAIN rules = DOMAIN rest
      /\ \A n \in DOMAIN rest : rules[n] = WithBackends(r.rules[rest[n]], kept(rest[n]))
  BY Zenon
<1> HIDE DEF sources, sourced, rules
<1>5. j \in stays(i) /\ stays(i) \subseteq DOMAIN r.rules[i].backends
  OBVIOUS
<1>6. full \subseteq DOMAIN r.rules /\ \A x \in DOMAIN r.rules : kept(x) # <<>> => x \in full
  OBVIOUS
<1> PICK bs : bs = r.rules[i].backends
  OBVIOUS
<1> PICK k : k = kept(i)
  OBVIOUS
<1>7. k = Keep(Positions(bs), stays(i))
  OBVIOUS
<1> HIDE DEF stays, kept, full
<1>8. IsList(k) /\ ToSet(k) = stays(i) /\ (k = <<>> <=> stays(i) = {})
  BY <1>1, <1>5, <1>7, PositionsKept
<1>9. i \in full
  BY <1>5, <1>6, <1>8
<1>10. IsList(rest) /\ ToSet(rest) = full
  BY <1>1, <1>6, PositionsKept
<1> HIDE DEF rest
<1>11. PICK n \in DOMAIN rest : rest[n] = i
  BY <1>9, <1>10, InToSet
<1>12. PICK m \in DOMAIN k : k[m] = j
  BY <1>5, <1>8, InToSet
<1> PICK rule : rule = WithBackends(r.rules[i], k)
  OBVIOUS
<1>13. rules[n] = rule
  BY <1>4, <1>11
<1>14. rule.matches = r.rules[i].matches /\ rule.backends = [x \in DOMAIN k |-> bs[k[x]]]
  BY <1>1 DEF WithBackends, RuleParts
<1>15. m \in DOMAIN rule.backends /\ rule.backends[m] = bs[j]
  BY <1>12, <1>14
<1>16. bs[j] \in ToSet(rule.backends)
  BY <1>15, InToSet
<1>17. rule \in ToSet(q.rules)
  BY <1>2, <1>3, <1>4, <1>11, <1>13, InToSet
<1> QED
  BY <1>2, <1>3, <1>14, <1>16, <1>17

-----------------------------------------------------------------------------
(* The listeners of ssl-passthrough.                                       *)

(* An order of a finite set visits all of it.                              *)
LEMMA OrderVisits ==
  ASSUME NEW S, IsFiniteSet(S), NEW order \in SetToSeqs(S)
  PROVE  /\ order \in Seq(S)
         /\ \A x \in S : \E i \in 1..Len(order) : order[i] = x
<1> PICK n : n = Cardinality(S)
  OBVIOUS
<1>1. n \in Nat
  BY FS_CardinalityType
<1>2. order \in [1..n -> S] /\ \A i, j \in 1..n : i # j => order[i] # order[j]
  BY DEF SetToSeqs
<1>3. order \in Injection(1..n, S)
  BY <1>2 DEF Injection, IsInjective
<1>4. IsFiniteSet(1..n) /\ Cardinality(1..n) = n
  <2>1. 1 \in Int /\ n \in Int
    BY <1>1
  <2>2. IsFiniteSet(1..n) /\ Cardinality(1..n) = IF 1 > n THEN 0 ELSE n - 1 + 1
    BY <2>1, FS_Interval
  <2> QED
    BY <1>1, <2>2
<1>5. order \in Surjection(1..n, S)
  BY <1>3, <1>4, FS_Injection
<1>6. order \in Seq(S) /\ Len(order) = n
  BY <1>1, <1>2
<1>7. \A x \in S : \E i \in 1..n : order[i] = x
  BY <1>5 DEF Surjection
<1> QED
  BY <1>6, <1>7

(* The loop over the routes, in the order in which they come.              *)
LEMMA TunnelsLoop ==
  ASSUME NEW p, NEW X, NEW s \in Seq(X)
  PROVE  \E f : /\ WithPassthroughListeners(p, s) = f[Len(s)]
                /\ f[0] = p.gateways
                /\ \A i \in 1 .. Len(s) : f[i] = WithPassthroughListener(f[i - 1], p.http[s[i]])
<1> DEFINE Step(f, i) == IF i = 0 THEN p.gateways ELSE WithPassthroughListener(f[i - 1], p.http[s[i]])
           Body(f, m) == [i \in 0 .. m |-> Step(f, i)]
           T == {m \in Nat : \E f : f = Body(f, m)}
<1>1. \A f, g, i : (i # 0 => f[i - 1] = g[i - 1]) => Step(f, i) = Step(g, i)
  OBVIOUS
<1>2. \A f : Step(f, 0) = p.gateways
  OBVIOUS
<1> HIDE DEF Step
<1>3. 0 \in T
  <2> DEFINE f == [i \in 0 .. 0 |-> p.gateways]
  <2>1. f = Body(f, 0)
    BY <1>2
  <2> QED
    BY <2>1
<1>4. ASSUME NEW m \in Nat, m \in T PROVE m + 1 \in T
  <2>1. PICK f : f = Body(f, m)
    BY <1>4
  <2>2. \A i \in 0 .. m : f[i] = Step(f, i)
    <3>1. \A i \in 0 .. m : Body(f, m)[i] = Step(f, i)
      OBVIOUS
    <3> HIDE DEF Body
    <3> QED
      BY <2>1, <3>1
  <2> DEFINE g == [i \in 0 .. m + 1 |-> IF i = m + 1 THEN Step(f, i) ELSE f[i]]
  <2>3. \A i \in 0 .. m + 1 : g[i] = Step(g, i)
    <3> SUFFICES ASSUME NEW i \in 0 .. m + 1 PROVE g[i] = Step(g, i)
      OBVIOUS
    <3>1. g[i] = Step(f, i)
      BY <2>2
    <3>2. i # 0 => f[i - 1] = g[i - 1]
      OBVIOUS
    <3> QED
      BY <1>1, <3>1, <3>2
  <2>4. g = Body(g, m + 1) /\ m + 1 \in Nat
    BY <2>3
  <2> QED
    BY <2>4
<1> HIDE DEF T
<1>5. \E f : f = Body(f, Len(s))
  <2>1. Len(s) \in T
    BY <1>3, <1>4, Induction
  <2> QED
    BY <2>1 DEF T
<1> DEFINE f == CHOOSE f : f = Body(f, Len(s))
<1>6. f = Body(f, Len(s))
  BY <1>5
<1>7. WithPassthroughListeners(p, s) = f[Len(s)]
  BY DEF WithPassthroughListeners, Step
<1> HIDE DEF f
<1>8. \A i \in 0 .. Len(s) : f[i] = Step(f, i)
  <2>1. \A i \in 0 .. Len(s) : Body(f, Len(s))[i] = Step(f, i)
    OBVIOUS
  <2> HIDE DEF Body
  <2> QED
    BY <1>6, <2>1
<1>9. f[0] = p.gateways /\ \A i \in 1 .. Len(s) : f[i] = WithPassthroughListener(f[i - 1], p.http[s[i]])
  BY <1>8 DEF Step
<1> QED
  BY <1>7, <1>9

(* No listener of ToIR has the name of one for TLS passthrough.            *)
LEMMA NoSectionName ==
  ASSUME NEW h, NamedHost(h), NEW l, Proper(l), NamedHost(l.host)
  PROVE  l.name # TLSSection(h)
<1> DEFINE n == NameFromHost(h)
           m == NameFromHost(l.host)
<1>1. IsList(n) /\ IsList(m)
  BY DEF NamedHost
<1>2. PICK d : d # "passthrough" /\ l.name = ListenerName(l.host, d)
  BY DEF Proper
<1>3. l.name = <<d>> \/ l.name = Append(m, d)
  BY <1>2 DEF ListenerName
<1>4. TLSSection(h) = n \o <<"tls", "passthrough">>
  BY DEF TLSSection
<1> HIDE DEF n, m
<1>5. n \o <<"tls", "passthrough">> = Append(Append(n, "tls"), "passthrough") /\ IsList(Append(n, "tls"))
  <2> DEFINE X == ToSet(n) \cup {"tls", "passthrough"}
  <2>1. n \in Seq(X) /\ "tls" \in X /\ "passthrough" \in X
    BY <1>1, ListShape
  <2> HIDE DEF X
  <2>2. n \o <<"tls", "passthrough">> = Append(Append(n, "tls"), "passthrough")
    BY <2>1
  <2>3. Append(n, "tls") \in Seq(X)
    BY <2>1
  <2> QED
    BY <2>2, <2>3, SeqIsList
<1>6. <<d>> = Append(<<>>, d) /\ IsList(<<>>)
  BY EmptyList
<1>7. ASSUME NEW s, IsList(s), Append(s, d) = Append(Append(n, "tls"), "passthrough") PROVE FALSE
  BY <1>2, <1>5, <1>7, LastWord
<1> QED
  BY <1>1, <1>3, <1>4, <1>5, <1>6, <1>7

(* The listeners of ToIR, and those of TLS passthrough.                    *)
Mixed(gws) ==
  \A gw \in DOMAIN gws :
    /\ IsList(gws[gw])
    /\ \A l \in ToSet(gws[gw]) : (Proper(l) /\ NamedHost(l.host)) \/ l.mode = "Passthrough"

(* The route has a listener to tunnel through, if it needs one.            *)
HasTunnel(gws, r) ==
  r.host # NoHost /\ <<r.ns, r.parent>> \in DOMAIN gws =>
    \E l \in ToSet(gws[<<r.ns, r.parent>>]) : l.name = TLSSection(r.host) /\ l.mode = "Passthrough"

(* What Append gives, in terms of IsList.                                  *)
LEMMA ListAppended ==
  ASSUME NEW s, IsList(s), NEW e
  PROVE  IsList(Append(s, e)) /\ ToSet(Append(s, e)) = ToSet(s) \cup {e}
<1> DEFINE X == ToSet(s) \cup {e}
<1>1. s \in Seq(ToSet(s))
  BY ListShape
<1>2. s \in Seq(X) /\ e \in X
  BY <1>1
<1> HIDE DEF X
<1>3. Append(s, e) \in Seq(X) /\ ToSet(Append(s, e)) = ToSet(s) \cup {e}
  BY <1>2, AppendHolds
<1> QED
  BY <1>3, SeqIsList

(* One route.                                                              *)
LEMMA TunnelBuilt ==
  ASSUME NEW gws, Mixed(gws), NEW r, NamedHost(r.host), NEW new, new = WithPassthroughListener(gws, r)
  PROVE  /\ Mixed(new) /\ HasTunnel(new, r)
         /\ \A x : HasTunnel(gws, x) => HasTunnel(new, x)
<1> DEFINE gw == <<r.ns, r.parent>>
           found == \E l \in ToSet(gws[gw]) : l.name = TLSSection(r.host)
           tunnel == [name |-> TLSSection(r.host), host |-> r.host, port |-> 443,
                      certs |-> {}, mode |-> "Passthrough"]
<1>1. tunnel.name = TLSSection(r.host) /\ tunnel.mode = "Passthrough"
  OBVIOUS
<1>2. new = IF gw \notin DOMAIN gws \/ r.host = NoHost \/ found THEN gws
            ELSE [gws EXCEPT ![gw] = Append(gws[gw], tunnel)]
  BY DEF WithPassthroughListener
<1> HIDE DEF tunnel
<1>3. CASE gw \notin DOMAIN gws \/ r.host = NoHost \/ found
  <2>1. HasTunnel(gws, r)
    <3> SUFFICES ASSUME r.host # NoHost, gw \in DOMAIN gws
                 PROVE  \E l \in ToSet(gws[gw]) : l.name = TLSSection(r.host) /\ l.mode = "Passthrough"
      BY DEF HasTunnel
    <3>1. PICK l \in ToSet(gws[gw]) : l.name = TLSSection(r.host)
      BY <1>3
    <3>2. l.mode = "Passthrough"
      BY <3>1, NoSectionName DEF Mixed
    <3> QED
      BY <3>1, <3>2
  <2> QED
    BY <1>2, <1>3, <2>1
<1>4. CASE ~(gw \notin DOMAIN gws \/ r.host = NoHost \/ found)
  <2> PICK ls : ls = gws[gw]
    OBVIOUS
  <2> PICK more : more = Append(ls, tunnel)
    OBVIOUS
  <2>1. DOMAIN new = DOMAIN gws /\ new[gw] = more /\ \A x \in DOMAIN gws \ {gw} : new[x] = gws[x]
    BY <1>2, <1>4
  <2>2. IsList(more) /\ ToSet(more) = ToSet(ls) \cup {tunnel}
    <3>1. IsList(ls)
      BY <1>4 DEF Mixed
    <3> QED
      BY <3>1, ListAppended
  <2> HIDE DEF gw
  <2>3. Mixed(new)
    <3> SUFFICES ASSUME NEW x \in DOMAIN gws
                 PROVE  /\ IsList(new[x])
                        /\ \A l \in ToSet(new[x]) : (Proper(l) /\ NamedHost(l.host)) \/ l.mode = "Passthrough"
      BY <2>1 DEF Mixed
    <3>1. CASE x = gw
      BY <1>1, <2>1, <2>2, <3>1 DEF Mixed
    <3>2. CASE x # gw
      BY <2>1, <3>2 DEF Mixed
    <3> QED
      BY <3>1, <3>2
  <2>4. HasTunnel(new, r)
    BY <1>1, <2>1, <2>2 DEF HasTunnel, gw
  <2>5. ASSUME NEW x, HasTunnel(gws, x) PROVE HasTunnel(new, x)
    <3> SUFFICES ASSUME x.host # NoHost, <<x.ns, x.parent>> \in DOMAIN gws
                 PROVE  \E l \in ToSet(new[<<x.ns, x.parent>>]) :
                          l.name = TLSSection(x.host) /\ l.mode = "Passthrough"
      BY <2>1 DEF HasTunnel
    <3>1. PICK l \in ToSet(gws[<<x.ns, x.parent>>]) : l.name = TLSSection(x.host) /\ l.mode = "Passthrough"
      BY <2>5 DEF HasTunnel
    <3>2. l \in ToSet(new[<<x.ns, x.parent>>])
      BY <2>1, <2>2, <3>1
    <3> QED
      BY <3>1, <3>2
  <2> QED
    BY <2>3, <2>4, <2>5
<1> QED
  BY <1>3, <1>4

(* All of them, in any order.                                              *)
LEMMA TunnelsBuilt ==
  ASSUME NEW p, Mixed(p.gateways), NEW S, \A k \in S : NamedHost(p.http[k].host), NEW order \in Seq(S)
  PROVE  \A i \in 1..Len(order) : HasTunnel(WithPassthroughListeners(p, order), p.http[order[i]])
<1>1. PICK f : /\ WithPassthroughListeners(p, order) = f[Len(order)]
               /\ f[0] = p.gateways
               /\ \A i \in 1 .. Len(order) : f[i] = WithPassthroughListener(f[i - 1], p.http[order[i]])
  BY TunnelsLoop
<1> PICK n \in Nat : n = Len(order)
  OBVIOUS
<1> DEFINE Ready(i) == Mixed(f[i]) /\ \A j \in 1..i : HasTunnel(f[i], p.http[order[j]])
           T == {i \in 0..n : Ready(i)}
<1>2. Ready(0)
  BY <1>1
<1>3. ASSUME NEW i \in 0..n - 1, Ready(i) PROVE Ready(i + 1)
  <2> PICK old : old = f[i]
    OBVIOUS
  <2> PICK new : new = f[i + 1]
    OBVIOUS
  <2> PICK r : r = p.http[order[i + 1]]
    OBVIOUS
  <2>1. i + 1 \in 1..n /\ (i + 1) - 1 = i /\ order[i + 1] \in S
    OBVIOUS
  <2>2. new = WithPassthroughListener(old, r) /\ NamedHost(r.host)
    BY <1>1, <2>1
  <2>3. Mixed(old) /\ \A j \in 1..i : HasTunnel(old, p.http[order[j]])
    BY <1>3
  <2>4. /\ Mixed(new) /\ HasTunnel(new, r)
        /\ \A x : HasTunnel(old, x) => HasTunnel(new, x)
    BY <2>2, <2>3, TunnelBuilt
  <2>5. \A j \in 1..i + 1 : j \in 1..i \/ j = i + 1
    OBVIOUS
  <2> QED
    BY <2>3, <2>4, <2>5
<1> HIDE DEF Ready
<1>4. 0 \in T /\ \A i \in 0..n - 1 : i \in T => i + 1 \in T
  BY <1>2, <1>3
<1> HIDE DEF T
<1>5. n \in T
  <2>1. 0..n \subseteq T
    BY <1>4, BoundedInduction
  <2> QED
    BY <2>1
<1>6. Ready(n)
  BY <1>5 DEF T
<1> QED
  BY <1>1, <1>6 DEF Ready

-----------------------------------------------------------------------------
(* The paths of main Ingresses that the features keep track of.            *)
Tracked(o) == o.protocol = "http" /\ OnlyMain(o) /\ Unambiguous(o.ns)

(* What has become of one.                                                 *)
Accounted(o) ==
  CASE Ann(o.ing).redirect = "valid" -> SharedWithPassthrough(o) \/ Redirected(o)
    [] Ann(o.ing).redirect # "valid" /\ Ann(o.ing).passthrough -> Tunnelled(o)
    [] OTHER -> Backed(o)

AfterRedirect == {"headers", "regex", "backendTLS", "affinity", "sslPassthrough"}

(* Routes are where their names say, and there is an end to them.          *)
NamedBy(routes) ==
  /\ IsFiniteSet(DOMAIN routes)
  /\ \A k \in DOMAIN routes : Key(routes[k]) = k /\ IsList(routes[k].name) /\ NamedHost(routes[k].host)

(* Some route has a rule for each of the paths.                            *)
AllCarried(redirected) ==
  \A o \in Occurrences : Tracked(o) => \E k \in DOMAIN pir.http : Carries(o, pir.http[k], redirected)

(* The invariant: until ssl-passthrough each path has a rule, first with   *)
(* its backend, then with it or a redirect; then it is accounted for.      *)
FlowsInv ==
  /\ stage # "backendProtocol"
  /\ stage # "common" => pc = "done"
  /\ stage \in {"canary", "redirect"} \cup AfterRedirect => NamedBy(pir.http) /\ Mixed(pir.gateways)
  /\ stage = "redirect" => AllCarried(FALSE)
  /\ stage \in AfterRedirect => AllCarried(TRUE)
  /\ stage \in {"appRoot", "converted"} => \A o \in Occurrences : Tracked(o) => Accounted(o)

(* featureParsers, one after the other.                                    *)
LEMMA StagesAre ==
  /\ StageAfter("backendProtocol") = "redirect" /\ StageAfter("redirect") = "headers"
  /\ StageAfter("headers") = "regex" /\ StageAfter("regex") = "backendTLS"
  /\ StageAfter("backendTLS") = "affinity" /\ StageAfter("affinity") = "sslPassthrough"
  /\ StageAfter("sslPassthrough") = "appRoot" /\ StageAfter("appRoot") = "converted"
<1>1. Len(FeatureOrder) = 8
  BY DEF FeatureOrder
<1>2. ASSUME NEW n \in 1..8 PROVE StageAfter(FeatureOrder[n]) = IF n = 8 THEN "converted" ELSE FeatureOrder[n + 1]
  <2> DEFINE S == {m \in 1..Len(FeatureOrder) : FeatureOrder[m] = FeatureOrder[n]}
  <2>1. S = {n}
    BY <1>1 DEF FeatureOrder
  <2>2. StageAfter(FeatureOrder[n]) = IF FirstIn(S) = 8 THEN "converted" ELSE FeatureOrder[FirstIn(S) + 1]
    BY <1>1 DEF StageAfter
  <2> HIDE DEF S
  <2>3. FirstIn(S) = n
    BY <2>1, FirstOfOne
  <2> QED
    BY <2>2, <2>3
<1>3. /\ FeatureOrder[1] = "backendProtocol" /\ FeatureOrder[2] = "redirect" /\ FeatureOrder[3] = "headers"
      /\ FeatureOrder[4] = "regex" /\ FeatureOrder[5] = "backendTLS" /\ FeatureOrder[6] = "affinity"
      /\ FeatureOrder[7] = "sslPassthrough" /\ FeatureOrder[8] = "appRoot"
  BY DEF FeatureOrder
<1> QED
  BY <1>2, <1>3

(* The features read what ToIR has read and made.                          *)
LEMMA FlowsStay ==
  ASSUME UNCHANGED vars
  PROVE  /\ Occurrences' = Occurrences
         /\ \A id : Ann(id)' = Ann(id)
         /\ \A o : Tracked(o)' <=> Tracked(o)
         /\ \A o, r, b : Carries(o, r, b)' <=> Carries(o, r, b)
<1>1. input' = input /\ httpRoutes' = httpRoutes /\ grpcRoutes' = grpcRoutes
  BY DEF vars
<1>2. Occurrences' = Occurrences /\ \A id : Ann(id)' = Ann(id)
  BY <1>1, OccurrencesStay, GoodStays
<1>3. \A o : OnlyMain(o)' <=> OnlyMain(o)
  BY <1>2 DEF OnlyMain, SameRule
<1>4. \A ns : Unambiguous(ns)' <=> Unambiguous(ns)
  <2>1. Made' = Made
    BY <1>1 DEF Made
  <2> QED
    BY <2>1 DEF Unambiguous, Key
<1>5. \A o : Tracked(o)' <=> Tracked(o)
  BY <1>3, <1>4 DEF Tracked
<1>6. \A o, rule, sources : Waits(o, rule, sources)' <=> Waits(o, rule, sources)
  <2>1. \A o, sources : Sole(o, sources)' <=> Sole(o, sources)
    BY <1>2 DEF Sole
  <2>2. \A o, rule : At(o, rule)' <=> At(o, rule)
    BY DEF At
  <2> QED
    BY <2>1, <2>2 DEF Waits, ToBackendRef
<1>7. \A o, rule, sources, b : Holds(o, rule, sources, b)' <=> Holds(o, rule, sources, b)
  BY <1>2, <1>6 DEF Holds, Moved, At
<1>8. \A r : HostSourced(r)' <=> HostSourced(r)
  BY <1>2 DEF HostSourced, SourcesOf
<1>9. \A o, r, b : Carries(o, r, b)' <=> Carries(o, r, b)
  BY <1>7, <1>8 DEF Carries
<1> QED
  BY <1>2, <1>5, <1>9

(* Paths are carried on when each route does.                              *)
LEMMA CarriedStay ==
  ASSUME UNCHANGED vars, NEW a \in BOOLEAN, NEW b \in BOOLEAN, AllCarried(a), DOMAIN pir'.http = DOMAIN pir.http,
         \A o \in Occurrences : Tracked(o) => \A k \in DOMAIN pir.http :
           Carries(o, pir.http[k], a) => Carries(o, pir'.http[k], b)
  PROVE  AllCarried(b)'
<1> SUFFICES ASSUME NEW o \in Occurrences', Tracked(o)'
             PROVE  (\E k \in DOMAIN pir.http : Carries(o, pir.http[k], b))'
  BY DEF AllCarried
<1>1. o \in Occurrences /\ Tracked(o)
  BY FlowsStay
<1>2. PICK k \in DOMAIN pir.http : Carries(o, pir.http[k], a)
  BY <1>1 DEF AllCarried
<1>3. k \in DOMAIN pir'.http /\ Carries(o, pir'.http[k], b)
  BY <1>1, <1>2
<1>4. Carries(o, pir.http[k], b)'
  BY <1>3, FlowsStay
<1> QED
  BY <1>3, <1>4

(* Routes keep their names.                                                *)
LEMMA NamesStay ==
  ASSUME NEW old, NamedBy(old), NEW new, DOMAIN new = DOMAIN old,
         \A k \in DOMAIN old : SameHead(old[k], new[k])
  PROVE  NamedBy(new)
BY DEF NamedBy, SameHead, Key

(* Each feature leaves the head of a route alone.                          *)
LEMMA HeadsKept ==
  ASSUME NEW r, GoodRoute(r)
  PROVE  /\ SameHead(r, CanaryRoute(r)) /\ SameHead(r, RedirectRoute(r))
         /\ SameHead(r, HeaderModifierRoute(r)) /\ SameHead(r, RegexRoute(r))
<1>1. DOMAIN r = RouteParts
  BY DEF GoodRoute
<1>2. SameHead(r, CanaryRoute(r))
  BY <1>1 DEF CanaryRoute, RouteParts, SameHead
<1>3. SameHead(r, RedirectRoute(r))
  BY <1>1 DEF RedirectRoute, RouteParts, SameHead
<1>4. SameHead(r, HeaderModifierRoute(r))
  BY <1>1 DEF HeaderModifierRoute, RouteParts, SameHead
<1>5. SameHead(r, RegexRoute(r))
  BY <1>1 DEF RegexRoute, RouteParts, SameHead
<1> QED
  BY <1>2, <1>3, <1>4, <1>5
(* A list has finitely many elements.                                      *)
LEMMA ListFinite ==
  ASSUME NEW s, IsList(s)
  PROVE  IsFiniteSet(ToSet(s))
<1> PICK n \in Nat : n = Len(s)
  BY ListShape
<1>1. DOMAIN s = 1..n /\ s \in Seq(ToSet(s))
  BY ListShape
<1>2. s \in [1..n -> ToSet(s)]
  BY <1>1
<1>3. \A e \in ToSet(s) : \E i \in 1..n : s[i] = e
  BY <1>1, InToSet
<1>4. s \in Surjection(1..n, ToSet(s))
  BY <1>2, <1>3 DEF Surjection
<1>5. IsFiniteSet(1..n)
  <2>1. 1 \in Int /\ n \in Int
    OBVIOUS
  <2> QED
    BY <2>1, FS_Interval
<1> QED
  BY <1>4, <1>5, FS_Surjection

(* Routes are stored under their names.                                    *)
LEMMA StoredByName ==
  ASSUME NEW routes, IsList(routes)
  PROVE  /\ IsFiniteSet(DOMAIN ByKey(routes))
         /\ \A k \in DOMAIN ByKey(routes) : Key(ByKey(routes)[k]) = k
<1> DEFINE keys == [i \in DOMAIN routes |-> Key(routes[i])]
           X == {Key(routes[i]) : i \in DOMAIN routes}
<1>1. keys \in [DOMAIN routes -> X]
  OBVIOUS
<1>2. ByKey(routes) = [k \in ToSet(keys) |-> routes[LastOf(keys, k)]]
  BY DEF ByKey
<1>3. DOMAIN keys = DOMAIN routes /\ \A i \in DOMAIN routes : keys[i] = Key(routes[i])
  OBVIOUS
<1> HIDE DEF keys, X
<1>4. IsList(keys)
  BY <1>1, MadeList
<1>5. \A k \in ToSet(keys) : LastOf(keys, k) \in DOMAIN keys /\ keys[LastOf(keys, k)] = k
  BY <1>4, LastStays
<1>6. IsFiniteSet(ToSet(keys))
  BY <1>4, ListFinite
<1> QED
  BY <1>2, <1>3, <1>5, <1>6

(* What the features start from.                                           *)
LEMMA StoredNamed ==
  ASSUME IInv, ShapesInv, pc = "done", errors = {}
  PROVE  NamedBy(ir.http) /\ Mixed(ir.gateways)
<1>1. ir.http = ByKey(httpRoutes) /\ ir.gateways = gateways /\ IsList(httpRoutes)
  BY DEF IInv, FlowInv, RoutesInv
<1>2. \A k \in DOMAIN ir.http : IsList(ir.http[k].name) /\ NamedHost(ir.http[k].host)
  BY <1>1, StoredRoutes DEF ShapesInv, RouteShape
<1>3. IsFiniteSet(DOMAIN ir.http) /\ \A k \in DOMAIN ir.http : Key(ir.http[k]) = k
  BY <1>1, StoredByName
<1>4. Mixed(ir.gateways)
  BY <1>1 DEF ShapesInv, AllProper, Mixed
<1> QED
  BY <1>2, <1>3, <1>4 DEF NamedBy

(* ToIR gives every path a rule: one that other main Ingresses do not      *)
(* share, with the path's backend, in a route of its host and gateway.     *)
LEMMA ServedCarries ==
  ASSUME IInv, PathsInv, ShapesInv, pc = "done", errors = {}, NEW o \in Occurrences, Tracked(o)
  PROVE  \E k \in DOMAIN ir.http : Carries(o, ir.http[k], FALSE)
<1>1. /\ DOMAIN groups = {} /\ ir.http = ByKey(httpRoutes) /\ IsList(httpRoutes) /\ Made.http = httpRoutes
  BY DEF IInv, FlowInv, RoutesInv, Made
<1>2. o.protocol = "http" /\ OnlyMain(o) /\ Unambiguous(o.ns)
  BY DEF Tracked
<1>3. PICK r \in ToSet(httpRoutes) : ~Refused(o) /\ Serves(r, o)
  BY <1>1, <1>2 DEF PathsInv, KeptInv, Kept
<1>4. r.ns = o.ns /\ r.host = o.host /\ r.parent = o.class
  BY <1>3 DEF Serves
<1>5. \A i, j \in DOMAIN httpRoutes : httpRoutes[j] = r /\ Key(httpRoutes[i]) = Key(r) => i = j
  <2>1. DOMAIN httpRoutes = 1..Len(httpRoutes)
    BY <1>1, ListShape
  <2>2. \A i : Key(httpRoutes[i]) = Key(r) => httpRoutes[i].ns = r.ns
    BY DEF Key
  <2> QED
    BY <1>1, <1>2, <1>4, <2>1, <2>2 DEF Unambiguous
<1>6. Key(r) \in DOMAIN ir.http /\ ir.http[Key(r)] = r
  BY <1>1, <1>5, AloneIsStored
<1>7. Even(r) /\ AskedFor(r, "http")
  BY <1>1 DEF PathsInv, MadeInv
<1> PICK ref : ref = ToBackendRef(o.ns, o.path.backend)
  OBVIOUS
<1>8. PICK i \in DOMAIN r.rules :
        /\ r.rules[i].matches = MatchOf(o)
        /\ \E j \in DOMAIN r.rules[i].backends :
             /\ r.rules[i].backends[j] = ref
             /\ r.sources[i][j] = [ing |-> o.ing, backend |-> o.path.backend, default |-> FALSE]
  BY <1>3 DEF Serves
<1>9. PICK j \in DOMAIN r.rules[i].backends :
             /\ r.rules[i].backends[j] = ref
             /\ r.sources[i][j] = [ing |-> o.ing, backend |-> o.path.backend, default |-> FALSE]
  BY <1>8
<1>10. DOMAIN r.rules[i].backends = DOMAIN r.sources[i] /\ i \in DOMAIN r.sources
  BY <1>7 DEF Even
<1>11. ~r.sources[i][j].default /\ r.sources[i][j].ing = o.ing
  BY <1>9
<1>12. Ruled(r)
  <2>1. ~AllDefault(r)
    <3>1. DOMAIN r.sources = 1..Len(r.sources) /\ DOMAIN r.sources[i] = 1..Len(r.sources[i])
      BY <1>7, <1>10, ListShape DEF Even
    <3> QED
      BY <1>10, <1>11, <3>1 DEF AllDefault
  <2> QED
    BY <2>1 DEF ShapesInv, RouteShape
<1>13. ASSUME NEW x \in DOMAIN r.sources, NEW y \in DOMAIN r.sources[x]
       PROVE  \E q \in Occurrences :
                /\ q.ing = r.sources[x][y].ing /\ q.ns = r.ns /\ q.class = r.parent /\ q.host = r.host
                /\ q.protocol = "http" /\ r.rules[x].matches = MatchOf(q)
  <2>1. x \in DOMAIN r.rules /\ y \in DOMAIN r.rules[x].backends /\ ~r.sources[x][y].default
    BY <1>7, <1>12 DEF Ruled, Even
  <2> QED
    BY <1>7, <2>1 DEF AskedFor
<1>14. HostSourced(r)
  <2> SUFFICES ASSUME NEW s \in SourcesOf(r)
               PROVE  \E q \in Occurrences :
                        q.ing = s.ing /\ q.ns = r.ns /\ q.class = r.parent /\ q.host = r.host /\ q.protocol = "http"
    BY DEF HostSourced
  <2>1. PICK l \in ToSet(r.sources) : s \in ToSet(l)
    BY DEF SourcesOf
  <2>2. PICK x \in DOMAIN r.sources : r.sources[x] = l
    BY <2>1, InToSet
  <2>3. PICK y \in DOMAIN l : l[y] = s
    BY <2>1, InToSet
  <2> QED
    BY <1>13, <2>2, <2>3
<1>15. MatchOf(o) = HTTPMatch(<<o.path.type, o.path.path>>)
  BY <1>2 DEF MatchOf, MatchKey
<1>16. Sole(o, r.sources[i])
  <2> SUFFICES ASSUME NEW y \in DOMAIN r.sources[i], r.sources[i][y].ing # o.ing
               PROVE  Ann(r.sources[i][y].ing).canary
    BY DEF Sole
  <2>1. PICK q \in Occurrences :
                /\ q.ing = r.sources[i][y].ing /\ q.ns = r.ns /\ q.class = r.parent /\ q.host = r.host
                /\ q.protocol = "http" /\ r.rules[i].matches = MatchOf(q)
    BY <1>10, <1>13
  <2>2. MatchOf(q) = HTTPMatch(<<q.path.type, q.path.path>>)
    BY <2>1 DEF MatchOf, MatchKey
  <2>3. HTTPMatch(<<q.path.type, q.path.path>>) = HTTPMatch(<<o.path.type, o.path.path>>)
    BY <1>8, <1>15, <2>1, <2>2
  <2>4. q.path.type = o.path.type /\ q.path.path = o.path.path
    BY <2>3 DEF HTTPMatch
  <2>5. SameRule(o, q)
    BY <1>2, <1>4, <2>1, <2>4 DEF SameRule
  <2> QED
    BY <1>2, <2>1, <2>5 DEF OnlyMain
<1>17. ref.svc = o.path.backend.svc
  BY <1>3 DEF Refused, ToBackendRef
<1>18. At(o, r.rules[i])
  BY <1>8, <1>15 DEF At
<1>19. Waits(o, r.rules[i], r.sources[i])
  BY <1>9, <1>10, <1>11, <1>16, <1>17, <1>18 DEF Waits
<1>20. Carries(o, r, FALSE)
  BY <1>4, <1>10, <1>14, <1>19 DEF Carries, Holds
<1> QED
  BY <1>6, <1>20
(* What the features need of the state, whichever of them is next.         *)
LEMMA RoutesNamed ==
  ASSUME NamedBy(pir'.http), Mixed(pir'.gateways)
  PROVE  (NamedBy(pir.http) /\ Mixed(pir.gateways))'
<1>1. NamedBy(pir.http)'
  BY DEF NamedBy, NamedHost, IsList, Key, NameFromHost
<1>2. Mixed(pir.gateways)'
  BY DEF Mixed, Proper, NamedHost
<1> QED
  BY <1>1, <1>2

(* ToIR, and errors of it.                                                 *)
LEMMA StartFlows == IInv /\ ShapesInv /\ FlowsInv /\ StartFeatures => FlowsInv'
<1> SUFFICES ASSUME IInv, ShapesInv, FlowsInv, StartFeatures PROVE FlowsInv'
  OBVIOUS
<1>1. pc' = "done"
  BY DEF StartFeatures, vars
<1>2. CASE errors # {}
  BY <1>1, <1>2 DEF StartFeatures, FlowsInv, AfterRedirect
<1>3. CASE errors = {}
  <2>1. pc = "done" /\ stage' = "canary" /\ pir'.http = ir.http /\ pir'.gateways = ir.gateways
    BY <1>3 DEF StartFeatures
  <2>2. NamedBy(pir'.http) /\ Mixed(pir'.gateways)
    BY <1>3, <2>1, StoredNamed
  <2>3. (NamedBy(pir.http) /\ Mixed(pir.gateways))'
    BY <2>2, RoutesNamed
  <2> QED
    BY <1>1, <2>1, <2>3 DEF FlowsInv, AfterRedirect
<1> QED
  BY <1>2, <1>3

(* The canary feature.                                                     *)
LEMMA CanaryFlows == NginxInv /\ FlowsInv /\ CanaryFeature => FlowsInv'
<1> SUFFICES ASSUME NginxInv, FlowsInv, CanaryFeature PROVE FlowsInv'
  OBVIOUS
<1>1. pc' = pc /\ stage = "canary" /\ pc = "done" /\ NamedBy(pir.http) /\ Mixed(pir.gateways)
  BY DEF CanaryFeature, vars, FlowsInv
<1>2. PICK g \in todo :
        IF GroupRoute(g) \in DOMAIN pir.http /\ IndexPanics(pir.http[GroupRoute(g)])
        THEN stage' = "panic" /\ UNCHANGED pir
        ELSE pir' = Canary(pir, g) /\ UNCHANGED stage
  BY DEF CanaryFeature
<1>3. CASE stage' = "panic"
  BY <1>1, <1>3 DEF FlowsInv, AfterRedirect
<1>4. CASE stage' = stage /\ pir' = Canary(pir, g)
  <2>1. /\ DOMAIN pir'.http = DOMAIN pir.http /\ pir'.gateways = pir.gateways
        /\ \A x \in DOMAIN pir.http : pir'.http[x] = CanaryRoute(pir.http[x]) \/ pir'.http[x] = pir.http[x]
    BY <1>4 DEF Canary, NginxInv
  <2>2. \A x \in DOMAIN pir.http : SameHead(pir.http[x], pir'.http[x])
    <3>1. \A r : SameHead(r, r)
      BY DEF SameHead
    <3> QED
      BY <2>1, <3>1, HeadsKept DEF NginxInv
  <2>3. NamedBy(pir'.http) /\ Mixed(pir'.gateways)
    BY <1>1, <2>1, <2>2, NamesStay
  <2>4. (NamedBy(pir.http) /\ Mixed(pir.gateways))'
    BY <2>3, RoutesNamed
  <2> QED
    BY <1>1, <1>4, <2>4 DEF FlowsInv, AfterRedirect
<1> QED
  BY <1>1, <1>2, <1>3, <1>4

(* After it, the rules still have the backends of the main Ingresses.      *)
LEMMA PoliciesFlow ==
  IInv /\ PathsInv /\ ShapesInv /\ CanaryInv /\ FlowsInv /\ CreateBackendTLSPolicies => FlowsInv'
<1> SUFFICES ASSUME IInv, PathsInv, ShapesInv, CanaryInv, FlowsInv, CreateBackendTLSPolicies PROVE FlowsInv'
  OBVIOUS
<1>1. UNCHANGED vars /\ pir' = pir /\ stage' = "redirect" /\ stage = "canary"
  BY StagesAre DEF CreateBackendTLSPolicies, Feature, Reached, FlowsInv
<1>2. pc' = "done" /\ NamedBy(pir'.http) /\ Mixed(pir'.gateways)
  BY <1>1 DEF FlowsInv, vars
<1>3. (NamedBy(pir.http) /\ Mixed(pir.gateways))'
  BY <1>2, RoutesNamed
<1>4. /\ pc = "done" /\ errors = {} /\ DOMAIN pir.http = DOMAIN ir.http
      /\ \A k \in DOMAIN ir.http : pir.http[k] = IF Visited(k) THEN CanaryRoute(ir.http[k]) ELSE ir.http[k]
  BY <1>1 DEF CanaryInv
<1>5. AllCarried(FALSE)
  <2> SUFFICES ASSUME NEW o \in Occurrences, Tracked(o)
               PROVE  \E k \in DOMAIN pir.http : Carries(o, pir.http[k], FALSE)
    BY DEF AllCarried
  <2>1. PICK k \in DOMAIN ir.http : Carries(o, ir.http[k], FALSE)
    BY <1>4, ServedCarries
  <2> PICK r : r = ir.http[k]
    OBVIOUS
  <2> PICK q : q = CanaryRoute(r)
    OBVIOUS
  <2>2. GoodRoute(r) /\ Untouched(r)
    BY <1>4, StoredGood
  <2>3. RouteFits(r)
    BY <2>2, UntouchedFits, NoIndexPanics
  <2>4. ~Ann(o.ing).canary
    BY DEF Tracked, OnlyMain
  <2>5. Carries(o, q, FALSE)
    BY <2>1, <2>2, <2>3, <2>4, CanaryCarries
  <2> QED
    BY <1>4, <2>1, <2>5
<1>6. AllCarried(FALSE)'
  BY <1>1, <1>5, CarriedStay
<1> QED
  BY <1>1, <1>2, <1>3, <1>6 DEF FlowsInv, AfterRedirect

(* What a feature after the redirects has to show.                         *)
LEMMA FeatureFlows ==
  ASSUME FlowsInv, UNCHANGED vars, stage \in {"redirect"} \cup AfterRedirect, stage' \in AfterRedirect,
         NEW a \in BOOLEAN, AllCarried(a),
         DOMAIN pir'.http = DOMAIN pir.http, pir'.gateways = pir.gateways,
         \A k \in DOMAIN pir.http : SameHead(pir.http[k], pir'.http[k]),
         \A o \in Occurrences : Tracked(o) => \A k \in DOMAIN pir.http :
           Carries(o, pir.http[k], a) => Carries(o, pir'.http[k], TRUE)
  PROVE  FlowsInv'
<1>1. pc' = "done" /\ NamedBy(pir.http) /\ Mixed(pir.gateways)
  BY DEF FlowsInv, vars, AfterRedirect
<1>2. NamedBy(pir'.http) /\ Mixed(pir'.gateways)
  BY <1>1, NamesStay
<1>3. (NamedBy(pir.http) /\ Mixed(pir.gateways))'
  BY <1>2, RoutesNamed
<1>4. AllCarried(TRUE)'
  BY CarriedStay
<1> QED
  BY <1>1, <1>3, <1>4 DEF FlowsInv, AfterRedirect

(* The redirect feature.                                                   *)
LEMMA RedirectFlows == NginxInv /\ FlowsInv /\ RedirectFeature => FlowsInv'
<1> SUFFICES ASSUME NginxInv, FlowsInv, RedirectFeature PROVE FlowsInv'
  OBVIOUS
<1>1. UNCHANGED vars /\ stage = "redirect" /\ stage' = "headers" /\ pir' = Redirect(pir)
  BY StagesAre DEF RedirectFeature, Feature, Reached, FeatureOrder
<1>2. DOMAIN pir = PirParts /\ \A k \in DOMAIN pir.http : GoodRoute(pir.http[k])
  BY DEF NginxInv, PirParts
<1>3. /\ DOMAIN pir'.http = DOMAIN pir.http /\ pir'.gateways = pir.gateways
      /\ \A k \in DOMAIN pir.http : pir'.http[k] = RedirectRoute(pir.http[k])
  BY <1>1, <1>2 DEF Redirect, PirParts
<1>4. AllCarried(FALSE)
  BY <1>1 DEF FlowsInv
<1>5. \A k \in DOMAIN pir.http : SameHead(pir.http[k], pir'.http[k])
  BY <1>2, <1>3, HeadsKept
<1>6. ASSUME NEW o \in Occurrences, Tracked(o), NEW k \in DOMAIN pir.http, Carries(o, pir.http[k], FALSE)
      PROVE  Carries(o, pir'.http[k], TRUE)
  <2>1. ~Ann(o.ing).canary
    BY <1>6 DEF Tracked, OnlyMain
  <2> QED
    BY <1>2, <1>3, <1>6, <2>1, RedirectCarries
<1>7. stage \in {"redirect"} \cup AfterRedirect /\ stage' \in AfterRedirect
  BY <1>1 DEF AfterRedirect
<1> QED
  BY <1>1, <1>3, <1>4, <1>5, <1>6, <1>7, FeatureFlows

(* The headers feature.                                                    *)
LEMMA HeadersFlow == NginxInv /\ FlowsInv /\ HeaderModifierFeature => FlowsInv'
<1> SUFFICES ASSUME NginxInv, FlowsInv, HeaderModifierFeature PROVE FlowsInv'
  OBVIOUS
<1>1. UNCHANGED vars /\ stage = "headers" /\ stage' = "regex" /\ pir' = HeaderModifier(pir)
  BY StagesAre DEF HeaderModifierFeature, Feature, Reached, FeatureOrder
<1>2. DOMAIN pir = PirParts /\ \A k \in DOMAIN pir.http : GoodRoute(pir.http[k])
  BY DEF NginxInv, PirParts
<1>3. /\ DOMAIN pir'.http = DOMAIN pir.http /\ pir'.gateways = pir.gateways
      /\ \A k \in DOMAIN pir.http : pir'.http[k] = HeaderModifierRoute(pir.http[k])
  BY <1>1, <1>2 DEF HeaderModifier, PirParts
<1>4. stage \in {"redirect"} \cup AfterRedirect /\ stage' \in AfterRedirect /\ AllCarried(TRUE)
  BY <1>1 DEF FlowsInv, AfterRedirect
<1>5. \A k \in DOMAIN pir.http : SameHead(pir.http[k], pir'.http[k])
  BY <1>2, <1>3, HeadsKept
<1>6. \A o, k : k \in DOMAIN pir.http /\ Carries(o, pir.http[k], TRUE) => Carries(o, pir'.http[k], TRUE)
  BY <1>2, <1>3, HeadersCarry
<1> QED
  BY <1>1, <1>3, <1>4, <1>5, <1>6, FeatureFlows

(* The regex feature.                                                      *)
LEMMA RegexFlows == NginxInv /\ FlowsInv /\ RegexFeature => FlowsInv'
<1> SUFFICES ASSUME NginxInv, FlowsInv, RegexFeature PROVE FlowsInv'
  OBVIOUS
<1>1. UNCHANGED vars /\ stage = "regex" /\ stage' = "backendTLS" /\ pir' = Regex(pir)
  BY StagesAre DEF RegexFeature, Feature, Reached, FeatureOrder
<1>2. DOMAIN pir = PirParts /\ \A k \in DOMAIN pir.http : GoodRoute(pir.http[k])
  BY DEF NginxInv, PirParts
<1>3. /\ DOMAIN pir'.http = DOMAIN pir.http /\ pir'.gateways = pir.gateways
      /\ \A k \in DOMAIN pir.http : pir'.http[k] = RegexRoute(pir.http[k])
  BY <1>1, <1>2 DEF Regex, PirParts
<1>4. stage \in {"redirect"} \cup AfterRedirect /\ stage' \in AfterRedirect /\ AllCarried(TRUE)
  BY <1>1 DEF FlowsInv, AfterRedirect
<1>5. \A k \in DOMAIN pir.http : SameHead(pir.http[k], pir'.http[k])
  BY <1>2, <1>3, HeadsKept
<1>6. \A o, k : k \in DOMAIN pir.http /\ Carries(o, pir.http[k], TRUE) => Carries(o, pir'.http[k], TRUE)
  BY <1>2, <1>3, RegexCarries
<1> QED
  BY <1>1, <1>3, <1>4, <1>5, <1>6, FeatureFlows

(* The features that change no route.                                      *)
LEMMA OthersFlow == NginxInv /\ FlowsInv /\ (BackendTLSFeature \/ SessionAffinityFeature) => FlowsInv'
<1> SUFFICES ASSUME NginxInv, FlowsInv, BackendTLSFeature \/ SessionAffinityFeature PROVE FlowsInv'
  OBVIOUS
<1>1. /\ UNCHANGED vars /\ stage \in {"backendTLS", "affinity"} /\ stage' \in {"affinity", "sslPassthrough"}
      /\ pir' = BackendTLS(pir) \/ \E order : pir' = SessionAffinity(pir, order)
  BY StagesAre DEF BackendTLSFeature, SessionAffinityFeature, Feature, Reached, FeatureOrder
<1>2. DOMAIN pir = PirParts
  BY DEF NginxInv, PirParts
<1>3. pir'.http = pir.http /\ pir'.gateways = pir.gateways
  BY <1>1, <1>2 DEF BackendTLS, SessionAffinity, PirParts
<1>4. stage \in {"redirect"} \cup AfterRedirect /\ stage' \in AfterRedirect /\ AllCarried(TRUE)
  BY <1>1 DEF FlowsInv, AfterRedirect
<1>5. \A k \in DOMAIN pir.http : SameHead(pir.http[k], pir'.http[k])
  BY <1>3 DEF SameHead
<1> QED
  BY <1>1, <1>3, <1>4, <1>5, FeatureFlows
(* A rule that matches the path of o, whatever its type is.                *)
LEMMA AtItsPath ==
  ASSUME NEW o, NEW rule, At(o, rule)
  PROVE  AtPath(rule, o)
<1>1. PICK type : rule.matches = HTTPMatch(<<type, o.path.path>>)
  BY DEF At
<1> PICK m : m = [type |-> type, path |-> o.path.path, header |-> <<>>]
  OBVIOUS
<1>2. rule.matches = <<m>>
  BY <1>1 DEF HTTPMatch
<1>3. ToSet(<<m>>) = {m}
  BY DEF ToSet
<1> QED
  BY <1>2, <1>3 DEF AtPath

(* Names of TLS routes differ as those of the HTTP routes do.              *)
LEMMA TLSKeys ==
  ASSUME NEW r, IsList(r.name), NEW q, IsList(q.name), Key(TLSRoute(r)) = Key(TLSRoute(q))
  PROVE  Key(r) = Key(q)
<1>1. ASSUME NEW n, IsList(n)
      PROVE  /\ n \o <<"tls", "passthrough">> = Append(Append(n, "tls"), "passthrough")
             /\ IsList(Append(n, "tls"))
  <2> DEFINE X == ToSet(n) \cup {"tls", "passthrough"}
  <2>1. n \in Seq(X) /\ "tls" \in X /\ "passthrough" \in X
    BY <1>1, ListShape
  <2> HIDE DEF X
  <2>2. n \o <<"tls", "passthrough">> = Append(Append(n, "tls"), "passthrough")
    BY <2>1
  <2>3. Append(n, "tls") \in Seq(X)
    BY <2>1
  <2> QED
    BY <2>2, <2>3, SeqIsList
<1>2. r.ns = q.ns /\ r.name \o <<"tls", "passthrough">> = q.name \o <<"tls", "passthrough">>
  BY DEF Key, TLSRoute
<1>3. Append(r.name, "tls") = Append(q.name, "tls")
  <2>1. Append(Append(r.name, "tls"), "passthrough") = Append(Append(q.name, "tls"), "passthrough")
    BY <1>1, <1>2
  <2> QED
    BY <1>1, <2>1, LastWord
<1>4. r.name = q.name
  BY <1>3, LastWord
<1> QED
  BY <1>2, <1>4 DEF Key

(* What ssl-passthrough leaves of the routes.                              *)
Passed(p) == {k \in DOMAIN p.http : PassedThrough(p.http[k])}

LEMMA PassthroughGives ==
  ASSUME DOMAIN pir = PirParts, NEW order, NEW new, new = Passthrough(pir, order)
  PROVE  /\ new.gateways = WithPassthroughListeners(pir, order)
         /\ \A k \in DOMAIN pir.http : k \notin Passed(pir) =>
              k \in DOMAIN new.http /\ new.http[k] = pir.http[k]
         /\ \A k \in Passed(pir) : (\E s \in SourcesOf(pir.http[k]) : ~IsPassthrough(s)) =>
              k \in DOMAIN new.http /\ new.http[k] = Strip(pir.http[k])
         /\ \A k \in Passed(pir) :
              /\ Key(TLSRoute(pir.http[k])) \in DOMAIN new.tls
              /\ \E x \in Passed(pir) : /\ Key(TLSRoute(pir.http[x])) = Key(TLSRoute(pir.http[k]))
                                        /\ new.tls[Key(TLSRoute(pir.http[k]))] = TLSRoute(pir.http[x])
<1> DEFINE passed == Passed(pir)
           gone == {k \in passed : \A s \in SourcesOf(pir.http[k]) : IsPassthrough(s)}
           Name(x) == Key(TLSRoute(pir.http[x]))
           tls == [k \in DOMAIN pir.tls \cup {Name(x) : x \in passed} |->
                     IF \E x \in passed : Name(x) = k
                     THEN TLSRoute(pir.http[CHOOSE x \in passed : Name(x) = k])
                     ELSE pir.tls[k]]
           http == [k \in DOMAIN pir.http \ gone |-> IF k \in passed THEN Strip(pir.http[k]) ELSE pir.http[k]]
<1>1. new.gateways = WithPassthroughListeners(pir, order) /\ new.tls = tls /\ new.http = http
  BY DEF Passthrough, PirParts, Passed
<1>2. /\ DOMAIN http = DOMAIN pir.http \ gone
      /\ \A k \in DOMAIN pir.http \ gone : http[k] = IF k \in passed THEN Strip(pir.http[k]) ELSE pir.http[k]
  OBVIOUS
<1>3. passed \subseteq DOMAIN pir.http /\ gone \subseteq passed
      /\ \A k \in passed : k \in gone => \A s \in SourcesOf(pir.http[k]) : IsPassthrough(s)
  BY DEF Passed
<1>4. ASSUME NEW k \in passed
      PROVE  /\ Name(k) \in DOMAIN tls
             /\ \E x \in passed : Name(x) = Name(k) /\ tls[Name(k)] = TLSRoute(pir.http[x])
  <2> PICK n : n = Name(k)
    OBVIOUS
  <2> DEFINE x == CHOOSE x \in passed : Name(x) = n
  <2>1. n \in DOMAIN tls /\ tls[n] = TLSRoute(pir.http[x])
    OBVIOUS
  <2>2. x \in passed /\ Name(x) = n
    OBVIOUS
  <2> QED
    BY <2>1, <2>2
<1> HIDE DEF tls, http, gone, passed, Name
<1> QED
  BY <1>1, <1>2, <1>3, <1>4 DEF passed, Name
(* Rules of o after a step.                                                *)
LEMMA InItsRoute ==
  ASSUME NEW o, NEW k \in DOMAIN pir'.http, NEW q, q = pir'.http[k],
         q.ns = o.ns, q.host = o.host, q.parent = o.class, NEW rule \in ToSet(q.rules)
  PROVE  rule \in RouteRules(o)'
<1>1. k \in {x \in DOMAIN pir.http : /\ pir.http[x].ns = o.ns /\ pir.http[x].host = o.host
                                     /\ pir.http[x].parent = o.class}'
  OBVIOUS
<1>2. rule \in ToSet(pir.http[k].rules)'
  BY DEF ToSet
<1> QED
  BY <1>1, <1>2 DEF RouteRules

(* A path that ssl-passthrough finds in a route is accounted for.          *)
LEMMA PassthroughAccounts ==
  ASSUME NginxInv, NamedBy(pir.http), Mixed(pir.gateways), UNCHANGED vars,
         NEW order \in SetToSeqs(Passed(pir)), pir' = Passthrough(pir, order),
         NEW o \in Occurrences, Tracked(o), NEW k \in DOMAIN pir.http, Carries(o, pir.http[k], TRUE)
  PROVE  Accounted(o)'
<1> PICK r : r = pir.http[k]
  OBVIOUS
<1>1. GoodRoute(r) /\ DOMAIN pir = PirParts
  BY DEF NginxInv, PirParts
<1>2. r.ns = o.ns /\ r.host = o.host /\ r.parent = o.class /\ HostSourced(r)
  BY DEF Carries
<1>3. PICK i \in DOMAIN r.rules : i \in DOMAIN r.sources /\ Holds(o, r.rules[i], r.sources[i], TRUE)
  BY DEF Carries
<1> PICK rule : rule = r.rules[i]
  OBVIOUS
<1> PICK sources : sources = r.sources[i]
  OBVIOUS
<1>4. /\ At(o, rule) /\ AtPath(rule, o)
      /\ Ann(o.ing).redirect = "valid" => Moved(o, rule)
      /\ Ann(o.ing).redirect # "valid" => Waits(o, rule, sources)
  <2>1. /\ Ann(o.ing).redirect = "valid" => Moved(o, rule)
        /\ Ann(o.ing).redirect # "valid" => Waits(o, rule, sources)
    BY <1>3 DEF Holds
  <2>2. At(o, rule)
    BY <2>1 DEF Moved, Waits
  <2> QED
    BY <2>1, <2>2, AtItsPath
<1>5. Occurrences' = Occurrences /\ \A id : Ann(id)' = Ann(id)
  BY FlowsStay
<1>6. /\ pir'.gateways = WithPassthroughListeners(pir, order)
      /\ \A x \in DOMAIN pir.http : x \notin Passed(pir) =>
           x \in DOMAIN pir'.http /\ pir'.http[x] = pir.http[x]
      /\ \A x \in Passed(pir) : (\E s \in SourcesOf(pir.http[x]) : ~IsPassthrough(s)) =>
           x \in DOMAIN pir'.http /\ pir'.http[x] = Strip(pir.http[x])
      /\ \A x \in Passed(pir) :
           /\ Key(TLSRoute(pir.http[x])) \in DOMAIN pir'.tls
           /\ \E y \in Passed(pir) : /\ Key(TLSRoute(pir.http[y])) = Key(TLSRoute(pir.http[x]))
                                     /\ pir'.tls[Key(TLSRoute(pir.http[x]))] = TLSRoute(pir.http[y])
  BY <1>1, PassthroughGives
<1>7. \A x : AtPath(x, o)' <=> AtPath(x, o)
  BY DEF AtPath
<1>8. rule \in ToSet(r.rules)
  BY <1>3, InToSet
<1>9. k \notin Passed(pir) => rule \in RouteRules(o)'
  BY <1>2, <1>6, <1>8, InItsRoute
<1>10. ASSUME k \in Passed(pir) PROVE SharedWithPassthrough(o)'
  <2>1. PICK s \in SourcesOf(r) : Ann(s.ing).passthrough
    BY <1>10 DEF Passed, PassedThrough, IsPassthrough
  <2>2. PICK q \in Occurrences :
          q.ing = s.ing /\ q.ns = r.ns /\ q.class = r.parent /\ q.host = r.host /\ q.protocol = "http"
    BY <1>2, <2>1 DEF HostSourced
  <2>3. o.protocol = "http"
    BY DEF Tracked
  <2> QED
    BY <1>2, <1>5, <2>1, <2>2, <2>3 DEF SharedWithPassthrough
<1>11. CASE Ann(o.ing).redirect = "valid"
  <2>1. ASSUME k \notin Passed(pir) PROVE Redirected(o)'
    BY <1>4, <1>7, <1>9, <1>11, <2>1 DEF Redirected, Moved
  <2> QED
    BY <1>5, <1>10, <1>11, <2>1 DEF Accounted
<1> PICK ref : ref = ToBackendRef(o.ns, o.path.backend)
  OBVIOUS
<1>12. ASSUME Ann(o.ing).redirect # "valid"
       PROVE  /\ ref.svc = o.path.backend.svc
              /\ \E j \in DOMAIN rule.backends :
                   /\ j \in DOMAIN sources /\ sources[j].ing = o.ing
                   /\ rule.backends[j].svc = ref.svc /\ rule.backends[j].port = ref.port
  BY <1>4, <1>12 DEF Waits
<1>13. /\ \A j \in DOMAIN sources : sources[j] \in SourcesOf(r)
       /\ \A j \in DOMAIN rule.backends : j \in DOMAIN sources => HasSource(r, i, j)
       /\ i \in 1..Len(r.rules) /\ \A j \in DOMAIN rule.backends : j \in 1..Len(rule.backends)
  <2>1. sources \in ToSet(r.sources)
    BY <1>3, InToSet
  <2>2. \A j \in DOMAIN sources : sources[j] \in ToSet(sources)
    BY InToSet
  <2>3. IsList(r.rules) /\ IsList(r.sources) /\ IsList(sources) /\ IsList(rule.backends)
    BY <1>1, <1>3 DEF GoodRoute, GoodRule
  <2>4. /\ DOMAIN r.rules = 1..Len(r.rules) /\ DOMAIN r.sources = 1..Len(r.sources)
        /\ DOMAIN sources = 1..Len(sources) /\ DOMAIN rule.backends = 1..Len(rule.backends)
    BY <2>3, ListShape
  <2>5. /\ Len(r.sources) \in Nat /\ Len(sources) \in Nat
    BY <2>3, ListShape
  <2>6. \A j \in DOMAIN sources : sources[j] \in SourcesOf(r)
    BY <2>1, <2>2 DEF SourcesOf
  <2>7. \A j \in DOMAIN rule.backends : j \in DOMAIN sources => HasSource(r, i, j)
    BY <1>3, <2>4, <2>5 DEF HasSource
  <2> QED
    BY <2>4, <2>6, <2>7
<1>14. CASE Ann(o.ing).redirect # "valid" /\ Ann(o.ing).passthrough
  <2>1. PICK j \in DOMAIN rule.backends :
          /\ j \in DOMAIN sources /\ sources[j].ing = o.ing
          /\ rule.backends[j].svc = ref.svc /\ rule.backends[j].port = ref.port
    BY <1>12, <1>14
  <2>2. ref.svc = o.path.backend.svc
    BY <1>12, <1>14
  <2>3. IsPassthrough(sources[j]) /\ HasSource(r, i, j) /\ sources[j] \in SourcesOf(r)
    BY <1>13, <1>14, <2>1 DEF IsPassthrough
  <2>4. k \in Passed(pir)
    BY <2>3 DEF Passed, PassedThrough
  <2> PICK t : t = TLSRoute(r)
    OBVIOUS
  <2>5. Key(t) \in DOMAIN pir'.tls /\ pir'.tls[Key(t)] = t
    <3>1. PICK y \in Passed(pir) : /\ Key(TLSRoute(pir.http[y])) = Key(t)
                                   /\ pir'.tls[Key(t)] = TLSRoute(pir.http[y])
      BY <1>6, <2>4
    <3>2. y \in DOMAIN pir.http /\ IsList(r.name) /\ IsList(pir.http[y].name)
      BY DEF Passed, NamedBy
    <3>3. Key(r) = Key(pir.http[y])
      BY <3>1, <3>2, TLSKeys
    <3>4. y = k
      BY <3>2, <3>3 DEF NamedBy
    <3> QED
      BY <1>6, <2>4, <3>1, <3>4
  <2>6. t.ns = o.ns /\ t.host = o.host /\ t.parent = o.class /\ t.backends = TLSBackends(r)
        /\ (o.host # NoHost => t.section = TLSSection(o.host))
    BY <1>2 DEF TLSRoute
  <2>7. [svc |-> o.path.backend.svc, port |-> ref.port] \in TLSBackends(r)
    <3> PICK b : b = rule.backends[j]
      OBVIOUS
    <3>1. j \in {n \in 1..Len(r.rules[i].backends) : HasSource(r, i, n) => IsPassthrough(r.sources[i][n])}
      BY <1>13, <2>3
    <3>2. [svc |-> r.rules[i].backends[j].svc, port |-> r.rules[i].backends[j].port] \in TLSBackends(r)
      BY <1>13, <3>1 DEF TLSBackends
    <3> QED
      BY <2>1, <2>2, <3>2
  <2>8. HasTunnel(pir'.gateways, r)
    <3>1. IsFiniteSet(Passed(pir))
      <4>1. IsFiniteSet(DOMAIN pir.http) /\ Passed(pir) \in SUBSET (DOMAIN pir.http)
        BY DEF NamedBy, Passed
      <4> QED
        BY <4>1, FS_Subset
    <3>2. order \in Seq(Passed(pir)) /\ \A x \in Passed(pir) : \E n \in 1..Len(order) : order[n] = x
      BY <3>1, OrderVisits
    <3>3. \A x \in Passed(pir) : NamedHost(pir.http[x].host)
      BY DEF NamedBy, Passed
    <3>4. \A n \in 1..Len(order) : HasTunnel(WithPassthroughListeners(pir, order), pir.http[order[n]])
      BY <3>2, <3>3, TunnelsBuilt
    <3>5. PICK n \in 1..Len(order) : order[n] = k
      BY <2>4, <3>2
    <3>6. HasTunnel(WithPassthroughListeners(pir, order), pir.http[order[n]])
      BY <3>4
    <3> QED
      BY <1>6, <3>5, <3>6
  <2>9. Tunnelled(o)'
    <3>1. ToBackendRef(o.ns, o.path.backend)' = ref
      BY DEF ToBackendRef
    <3>2. o.host # NoHost /\ <<o.ns, o.class>> \in DOMAIN pir'.gateways =>
            \E l \in ToSet(pir'.gateways[<<o.ns, o.class>>]) : l.name = t.section /\ l.mode = "Passthrough"
      BY <1>2, <2>6, <2>8 DEF HasTunnel
    <3>3. \A s : ToSet(s)' = ToSet(s)
      BY DEF ToSet
    <3> QED
      BY <2>5, <2>6, <2>7, <3>1, <3>2, <3>3 DEF Tunnelled
  <2> QED
    BY <1>5, <1>14, <2>9 DEF Accounted
<1>15. CASE Ann(o.ing).redirect # "valid" /\ ~Ann(o.ing).passthrough
  <2>1. PICK j \in DOMAIN rule.backends :
          /\ j \in DOMAIN sources /\ sources[j].ing = o.ing
          /\ rule.backends[j].svc = ref.svc /\ rule.backends[j].port = ref.port
    BY <1>12, <1>15
  <2>2. ~IsPassthrough(sources[j]) /\ sources[j] \in SourcesOf(r)
    BY <1>13, <1>15, <2>1 DEF IsPassthrough
  <2>3. \E new \in RouteRules(o)' : new.matches = rule.matches /\ rule.backends[j] \in ToSet(new.backends)
    <3>1. CASE k \notin Passed(pir)
      <4>1. rule.backends[j] \in ToSet(rule.backends)
        BY InToSet
      <4> QED
        BY <1>9, <3>1, <4>1
    <3>2. CASE k \in Passed(pir)
      <4> PICK q : q = Strip(r)
        OBVIOUS
      <4>1. k \in DOMAIN pir'.http /\ pir'.http[k] = q
        BY <1>6, <2>2, <3>2
      <4>2. /\ SameHead(r, q)
            /\ \E new \in ToSet(q.rules) :
                 new.matches = r.rules[i].matches /\ r.rules[i].backends[j] \in ToSet(new.backends)
        BY <1>1, <1>3, <2>1, <2>2, StripKeeps
      <4>3. PICK new \in ToSet(q.rules) : new.matches = rule.matches /\ rule.backends[j] \in ToSet(new.backends)
        BY <4>2
      <4>4. new \in RouteRules(o)'
        BY <1>2, <4>1, <4>2, InItsRoute DEF SameHead
      <4> QED
        BY <4>3, <4>4
    <3> QED
      BY <3>1, <3>2
  <2>4. PICK new \in RouteRules(o)' : new.matches = rule.matches /\ rule.backends[j] \in ToSet(new.backends)
    BY <2>3
  <2>5. AtPath(new, o)
    BY <1>4, <2>4 DEF AtPath
  <2>6. Backed(o)'
    <3>1. ToBackendRef(o.ns, o.path.backend)' = ref
      BY DEF ToBackendRef
    <3>2. \A s : ToSet(s)' = ToSet(s)
      BY DEF ToSet
    <3> QED
      BY <1>7, <2>1, <2>4, <2>5, <3>1, <3>2 DEF Backed
  <2> QED
    BY <1>5, <1>15, <2>6 DEF Accounted
<1> QED
  BY <1>11, <1>14, <1>15

(* The ssl-passthrough feature.                                            *)
LEMMA PassthroughFlows == NginxInv /\ FlowsInv /\ SSLPassthroughFeature => FlowsInv'
<1> SUFFICES ASSUME NginxInv, FlowsInv, SSLPassthroughFeature PROVE FlowsInv'
  OBVIOUS
<1>1. PICK order \in SetToSeqs({k \in DOMAIN pir.http : PassedThrough(pir.http[k])}) :
        Feature("sslPassthrough", Passthrough(pir, order))
  BY DEF SSLPassthroughFeature
<1>2. /\ UNCHANGED vars /\ stage = "sslPassthrough" /\ stage' = "appRoot"
      /\ pir' = Passthrough(pir, order) /\ order \in SetToSeqs(Passed(pir))
  BY <1>1, StagesAre DEF Feature, Reached, FeatureOrder, Passed
<1>3. AllCarried(TRUE) /\ NamedBy(pir.http) /\ Mixed(pir.gateways) /\ pc' = "done"
  BY <1>2 DEF FlowsInv, AfterRedirect, vars
<1>4. ASSUME NEW o \in Occurrences', Tracked(o)' PROVE Accounted(o)'
  <2>1. o \in Occurrences /\ Tracked(o)
    BY <1>2, <1>4, FlowsStay
  <2>2. PICK k \in DOMAIN pir.http : Carries(o, pir.http[k], TRUE)
    BY <1>3, <2>1 DEF AllCarried
  <2> QED
    BY <1>2, <1>3, <2>1, <2>2, PassthroughAccounts
<1> QED
  BY <1>2, <1>3, <1>4 DEF FlowsInv, AfterRedirect
(* The app-root feature.                                                   *)
LEMMA AppRootFlows == NginxInv /\ FlowsInv /\ AppRootFeature => FlowsInv'
<1> SUFFICES ASSUME NginxInv, FlowsInv, AppRootFeature PROVE FlowsInv'
  OBVIOUS
<1>1. UNCHANGED vars /\ stage = "appRoot" /\ stage' = "converted" /\ pir' = AppRoot(pir)
  BY StagesAre DEF AppRootFeature, Feature, Reached, FeatureOrder
<1>2. DOMAIN pir = PirParts /\ \A k \in DOMAIN pir.http : GoodRoute(pir.http[k])
  BY DEF NginxInv, PirParts
<1>3. /\ DOMAIN pir'.http = DOMAIN pir.http /\ pir'.gateways = pir.gateways /\ pir'.tls = pir.tls
      /\ \A k \in DOMAIN pir.http : pir'.http[k] = AppRootRoute(pir.http[k])
  BY <1>1, <1>2 DEF AppRoot, PirParts
<1>4. pc' = "done" /\ \A o \in Occurrences : Tracked(o) => Accounted(o)
  BY <1>1 DEF FlowsInv, vars
<1>5. Occurrences' = Occurrences /\ (\A id : Ann(id)' = Ann(id)) /\ \A o : Tracked(o)' <=> Tracked(o)
  BY <1>1, FlowsStay
<1>6. ASSUME NEW o, NEW rule \in RouteRules(o) PROVE \E new \in RouteRules(o)' : Rooted(rule, new)
  <2>1. PICK k \in DOMAIN pir.http :
          /\ pir.http[k].ns = o.ns /\ pir.http[k].host = o.host /\ pir.http[k].parent = o.class
          /\ rule \in ToSet(pir.http[k].rules)
    BY <1>6 DEF RouteRules
  <2> PICK r : r = pir.http[k]
    OBVIOUS
  <2> PICK q : q = AppRootRoute(r)
    OBVIOUS
  <2>2. SameHead(r, q) /\ \A x \in ToSet(r.rules) : \E new \in ToSet(q.rules) : Rooted(x, new)
    BY <1>2, AppRootKeeps
  <2>3. PICK new \in ToSet(q.rules) : Rooted(rule, new)
    BY <2>1, <2>2
  <2>4. k \in DOMAIN pir'.http /\ q = pir'.http[k]
    BY <1>3
  <2>5. new \in RouteRules(o)'
    BY <2>1, <2>2, <2>4, InItsRoute DEF SameHead
  <2> QED
    BY <2>3, <2>5
<1>7. ASSUME NEW o \in Occurrences', Tracked(o)' PROVE Accounted(o)'
  <2>1. Accounted(o)
    BY <1>4, <1>5, <1>7
  <2>2. \A x, new : Rooted(x, new) /\ AtPath(x, o) => AtPath(new, o)'
    BY DEF Rooted, AtPath
  <2>3. Redirected(o) => Redirected(o)'
    BY <1>6, <2>2 DEF Redirected, Rooted
  <2>4. Backed(o) => Backed(o)'
    <3> SUFFICES ASSUME Backed(o) PROVE Backed(o)'
      OBVIOUS
    <3> PICK ref : ref = ToBackendRef(o.ns, o.path.backend)
      OBVIOUS
    <3>1. PICK rule \in RouteRules(o) : AtPath(rule, o) /\
            (\/ \E b \in ToSet(rule.backends) : b.svc = ref.svc /\ b.port = ref.port
             \/ <<"redirect", "root">> \in ToSet(rule.filters))
      BY DEF Backed
    <3>2. PICK new \in RouteRules(o)' : Rooted(rule, new)
      BY <1>6
    <3>3. \/ \E b \in ToSet(new.backends) : b.svc = ref.svc /\ b.port = ref.port
          \/ <<"redirect", "root">> \in ToSet(new.filters)
      BY <3>1, <3>2 DEF Rooted
    <3>4. AtPath(new, o)'
      BY <2>2, <3>1, <3>2
    <3>5. ToBackendRef(o.ns, o.path.backend)' = ref
      BY DEF ToBackendRef
    <3>6. \A s : ToSet(s)' = ToSet(s)
      BY DEF ToSet
    <3> QED
      BY <3>2, <3>3, <3>4, <3>5, <3>6 DEF Backed
  <2>5. Tunnelled(o) => Tunnelled(o)'
    <3>1. ToBackendRef(o.ns, o.path.backend)' = ToBackendRef(o.ns, o.path.backend)
      BY DEF ToBackendRef
    <3>2. \A s : ToSet(s)' = ToSet(s)
      BY DEF ToSet
    <3> QED
      BY <1>3, <3>1, <3>2 DEF Tunnelled
  <2>6. SharedWithPassthrough(o) => SharedWithPassthrough(o)'
    BY <1>5 DEF SharedWithPassthrough
  <2> QED
    BY <1>5, <2>1, <2>3, <2>4, <2>5, <2>6 DEF Accounted
<1> QED
  BY <1>1, <1>4, <1>7 DEF FlowsInv, AfterRedirect

(* Nothing is lost while nothing is done.                                  *)
LEMMA FlowsRest ==
  ASSUME FlowsInv, UNCHANGED <<vars, nginxVars>>
  PROVE  FlowsInv'
<1>1. UNCHANGED vars /\ pir' = pir /\ stage' = stage /\ pc' = pc
  BY DEF vars, nginxVars
<1>2. Occurrences' = Occurrences /\ (\A id : Ann(id)' = Ann(id)) /\ \A o : Tracked(o)' <=> Tracked(o)
  BY <1>1, FlowsStay
<1>3. NamedBy(pir.http) /\ Mixed(pir.gateways) => (NamedBy(pir.http) /\ Mixed(pir.gateways))'
  BY <1>1, RoutesNamed
<1>4. \A a \in BOOLEAN : AllCarried(a) => AllCarried(a)'
  BY <1>1, CarriedStay
<1>5. ASSUME NEW o, Accounted(o) PROVE Accounted(o)'
  <2>1. RouteRules(o)' = RouteRules(o)
    BY <1>1 DEF RouteRules
  <2>2. Redirected(o) => Redirected(o)'
    BY <2>1 DEF Redirected, AtPath
  <2>3. Backed(o) => Backed(o)'
    BY <2>1 DEF Backed, AtPath, ToBackendRef
  <2>4. Tunnelled(o) => Tunnelled(o)'
    BY <1>1 DEF Tunnelled, ToBackendRef
  <2>5. SharedWithPassthrough(o) => SharedWithPassthrough(o)'
    BY <1>2 DEF SharedWithPassthrough
  <2> QED
    BY <1>2, <1>5, <2>2, <2>3, <2>4, <2>5 DEF Accounted
<1>6. AllCarried(FALSE) => AllCarried(FALSE)'
  BY <1>4
<1>7. AllCarried(TRUE) => AllCarried(TRUE)'
  BY <1>4
<1>8. (\A o \in Occurrences : Tracked(o) => Accounted(o)) => (\A o \in Occurrences : Tracked(o) => Accounted(o))'
  BY <1>2, <1>5
<1> QED
  BY <1>1, <1>3, <1>6, <1>7, <1>8 DEF FlowsInv

(* No step of convert loses a path.                                        *)
LEMMA FlowsStep ==
  ASSUME IInv, PathsInv, ShapesInv, NginxInv, CanaryInv, FlowsInv, [NginxNext]_<<vars, nginxVars>>
  PROVE  FlowsInv'
<1>1. CASE Next /\ UNCHANGED nginxVars
  <2>1. pc # "done"
    BY <1>1 DEF Next, AddIngresses, ConvertGroup, ConvertDefaults, BuildGateway, Return
  <2>2. stage' = "common"
    BY <1>1, <2>1 DEF FlowsInv, nginxVars
  <2> QED
    BY <2>2 DEF FlowsInv, AfterRedirect
<1>2. CASE UNCHANGED <<vars, nginxVars>>
  BY <1>2, FlowsRest
<1>3. CASE StartFeatures
  BY <1>3, StartFlows
<1>4. CASE CanaryFeature
  BY <1>4, CanaryFlows
<1>5. CASE CreateBackendTLSPolicies
  BY <1>5, PoliciesFlow
<1>6. CASE RedirectFeature
  BY <1>6, RedirectFlows
<1>7. CASE HeaderModifierFeature
  BY <1>7, HeadersFlow
<1>8. CASE RegexFeature
  BY <1>8, RegexFlows
<1>9. CASE BackendTLSFeature \/ SessionAffinityFeature
  BY <1>9, OthersFlow
<1>10. CASE SSLPassthroughFeature
  BY <1>10, PassthroughFlows
<1>11. CASE PassthroughPanics
  BY <1>11, StagesAre DEF PassthroughPanics, Reached, FeatureOrder, FlowsInv, AfterRedirect, vars
<1>12. CASE AppRootFeature
  BY <1>12, AppRootFlows
<1> QED
  BY <1>1, <1>2, <1>3, <1>4, <1>5, <1>6, <1>7, <1>8, <1>9, <1>10, <1>11, <1>12 DEF NginxNext

-----------------------------------------------------------------------------
(* Steps of the three parts.                                               *)

(* ToIR reads its input.                                                   *)
LEMMA InputRead == Next => input' = input
BY DEF Next, AddIngresses, ConvertGroup, ConvertDefaults, BuildGateway, Return

=============================================================================
