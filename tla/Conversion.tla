----------------------------- MODULE Conversion -----------------------------
(***************************************************************************)
(* What one call of "ingress2gateway print" promises its user: a sound     *)
(* request is answered by every resource it asks for and nothing else, an  *)
(* unsound one fails before anything is printed.  How the resources are    *)
(* read, and in which order the providers are asked, is not visible here.  *)
(***************************************************************************)
VARIABLES
  sound,     \* whether the request and its objects are in order; never changes
  wanted,    \* the resources the request asks for; never changes
  outcome,   \* how far the call is
  printed    \* the resources on the output

Init ==
  /\ sound \in BOOLEAN
  /\ outcome = "open"
  /\ printed = {}

(* The call ends in an error, with an empty output.                        *)
Fail ==
  /\ outcome = "open"
  /\ ~sound
  /\ outcome' = "failed"
  /\ UNCHANGED printed

(* From here on nothing can fail.                                          *)
Begin ==
  /\ outcome = "open"
  /\ sound
  /\ outcome' = "printing"
  /\ UNCHANGED printed

Deliver ==
  /\ outcome = "printing"
  /\ printed \subseteq printed'
  /\ printed' \subseteq wanted
  /\ UNCHANGED outcome

End ==
  /\ outcome = "printing"
  /\ printed = wanted
  /\ outcome' = "done"
  /\ UNCHANGED printed

Next ==
  /\ Fail \/ Begin \/ Deliver \/ End
  /\ UNCHANGED <<sound, wanted>>

vars == <<sound, wanted, outcome, printed>>

Spec == Init /\ [][Next]_vars
=============================================================================
