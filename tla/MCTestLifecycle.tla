--------------------------- MODULE MCTestLifecycle ---------------------------
(***************************************************************************)
(* Instances of TestLifecycle for TLC: two tests that share the CRDs and   *)
(* Kong.                                                                   *)
(***************************************************************************)
EXTENDS TestLifecycle, TLC

CONSTANTS a, b

(* Kong is provider and implementation of one test, and the implementation *)
(* that another test of e2e/implementation_test.go uses with ingress-nginx. *)
MCNeeds == a :> <<"kong", "kong">> @@ b :> <<"ingress-nginx", "kong">>

MCSteps == a :> <<"ingress_forwarders">> @@ b :> <<"ingresses">>
=============================================================================
