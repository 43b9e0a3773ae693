------------------------------ MODULE Features ------------------------------
(***************************************************************************)
(* The features of the Traefik, Cilium and APISIX providers: what they     *)
(* change, by the annotations of the Ingresses, in the IR that ToIR        *)
(* returned.  A feature visits the groups of GetRuleGroups, and in a group *)
(* the rules of its Ingresses one after another.                           *)
(*                                                                         *)
(* An input names its provider and has the annotations of each Ingress,    *)
(* as far as the provider reads them.  The route and the gateway of a      *)
(* group are always there: ToIR made them, or failed.                      *)
(***************************************************************************)
EXTENDS IngressAggregator

VARIABLE out   \* the IR the features work on

NoSection == <<>>

(* The IR of ToIR: routes attach to all listeners of their gateway.        *)
Plain(i) ==
  [http     |-> [k \in DOMAIN i.http |-> i.http[k] @@ [section |-> NoSection]],
   grpc     |-> i.grpc,
   gateways |-> [g \in DOMAIN i.gateways |->
                   [n \in 1..Len(i.gateways[g]) |->
                      i.gateways[g][n] @@ [protocol |-> IF i.gateways[g][n].port = 443 THEN "HTTPS" ELSE "HTTP"]]],
   backendTLS |-> {}, sslPolicies |-> <<>>, services |-> <<>>, policies |-> {}]

(* Providers keep Ingresses in a map and list them in its order.           *)
InMapOrder(inputs) ==
  UNION {{[i EXCEPT !.http = list] : list \in SetToSeqs(ToSet(i.http))} : i \in inputs}

(* GetRuleGroups                                                           *)
RuleGroups == Grouped(RulesOf(input.http, "http"))

IngressOf(id) == CHOOSE ing \in ToSet(input.http) : <<ing.ns, ing.name>> = id

Annotations(id) == input.annotations[id]

RouteKey(k) == <<k.ns, RouteName(RuleGroups[k].name, k.host)>>

HTTPSRedirect == <<"RequestRedirect", "https">>

WithFilter(rule, f) == [rule EXCEPT !.filters = Append(@, f)]

WithListener(o, gw, l) == [o EXCEPT !.gateways[gw] = Append(@, l)]

WithoutListener(o, gw, name) ==
  [o EXCEPT !.gateways[gw] = SelectSeq(@, LAMBDA l : l.name # name)]

HasListener(o, gw, name, protocol) ==
  \E l \in ToSet(o.gateways[gw]) : l.name = name /\ l.protocol = protocol

HasHTTPS(o, gw) == \E l \in ToSet(o.gateways[gw]) : l.protocol = "HTTPS"

-----------------------------------------------------------------------------
(* Traefik.  An Ingress has router.tls or not, and its entry points; none  *)
(* if the annotation is missing.                                           *)

SecureOnly(a) == "websecure" \in a.entrypoints /\ "web" \notin a.entrypoints

PlainOnly(a) == "web" \in a.entrypoints /\ "websecure" \notin a.entrypoints

(* router.tls asks for an HTTPS listener with a secret yet to be made.     *)
RouterTLS(o, k, rule) ==
  LET name == ListenerName(k.host, "https")
      gw == GatewayKey(k) IN
  IF /\ Annotations(rule.ing).tls /\ IngressOf(rule.ing).tls = <<>>
     /\ \A l \in ToSet(o.gateways[gw]) : l.name # name
  THEN WithListener(o, gw, [name |-> name, host |-> k.host, port |-> 443, certs |-> {"placeholder"},
                            mode |-> "Terminate", protocol |-> "HTTPS"])
  ELSE o

(* Any HTTPS listener of the gateway keeps the HTTP listener of the host.  *)
RouterEntrypoints(o, k, rule) ==
  LET a == Annotations(rule.ing)
      gw == GatewayKey(k) IN
  CASE SecureOnly(a) /\ ~HasHTTPS(o, gw) -> WithoutListener(o, gw, ListenerName(k.host, "http"))
    [] PlainOnly(a) -> WithoutListener(o, gw, ListenerName(k.host, "https"))
    [] OTHER -> o

RedirectRoute(k, key) ==
  [ns |-> k.ns, name |-> key[2], parent |-> k.class, host |-> k.host,
   rules |-> <<[matches |-> <<>>, filters |-> <<HTTPSRedirect>>, backends |-> <<>>]>>,
   sources |-> <<>>, section |-> ListenerName(k.host, "http")]

(* The HTTP listener, if it is still there, gets a route of its own that   *)
(* redirects, and the route of the group moves to the HTTPS listener.      *)
ForceHTTPS(o, k, rule) ==
  LET key == <<k.ns, Append(RouteKey(k)[2], "http")>> IN
  IF /\ SecureOnly(Annotations(rule.ing))
     /\ HasListener(o, GatewayKey(k), ListenerName(k.host, "http"), "HTTP")
  THEN [o EXCEPT !.http = (key :> RedirectRoute(k, key)) @@
          [@ EXCEPT ![RouteKey(k)].section = IF @ = NoSection THEN ListenerName(k.host, "https") ELSE @]]
  ELSE o

-----------------------------------------------------------------------------
(* Cilium and APISIX: every rule of the route redirects if an Ingress of   *)
(* the host asks for it.  Cilium takes the backends away.                  *)

CiliumForceHTTPS(o, k, rule) ==
  IF Annotations(rule.ing).https
  THEN [o EXCEPT !.http[RouteKey(k)].rules =
          [i \in 1..Len(@) |-> [WithFilter(@[i], HTTPSRedirect) EXCEPT !.backends = <<>>]]]
  ELSE o

HTTPToHTTPS(o, k, rule) ==
  IF Annotations(rule.ing).https
  THEN [o EXCEPT !.http[RouteKey(k)].rules = [i \in 1..Len(@) |-> WithFilter(@[i], HTTPSRedirect)]]
  ELSE o
=============================================================================
