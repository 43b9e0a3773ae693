---------------------------- MODULE MCPortForward ----------------------------
(***************************************************************************)
(* Instances of PortForward for TLC: a test that forwards two ports of its *)
(* ingress controller and of its gateway, and a test with two controllers, *)
(* on fewer slots than they need together.                                 *)
(***************************************************************************)
EXTENDS PortForward, TLC

CONSTANTS a, b

MCServices == a :> <<1, 1>> @@ b :> <<2, 1>>

(* A test can hold, or have lost, all the slots it needs but one while it  *)
(* waits for that one (a set-up that fails has lost fewer than it needs).  *)
(* With more slots than that, somebody always has all it needs.            *)
Hoard(t) == Needs(t, 1) + Needs(t, 2) - 1

ASSUME EnoughSlots == Hoard(a) + Hoard(b) < Slots
=============================================================================
