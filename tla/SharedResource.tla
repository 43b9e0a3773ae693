--------------------------- MODULE SharedResource ---------------------------
(***************************************************************************)
(* What the e2e ResourceManager promises the tests that share a cluster:   *)
(* a resource is installed for its first owner, kept while it has an       *)
(* owner, and removed, as one indivisible phase nobody can own, after its  *)
(* last owner let go.  Goroutines, channels and the reference count of the *)
(* implementation are not visible here; ResourceManager refines this.      *)
(***************************************************************************)
CONSTANTS
  Keys,      \* names of the shared resources
  Handles,   \* calls of Acquire
  KeyOf      \* the resource each call asks for, [Handles -> Keys]

VARIABLES
  owners,    \* per key, the calls that own the resource
  phase      \* per key, what the cluster holds

Phase == {"absent", "installing", "present", "failed", "removing"}

TypeOK ==
  /\ owners \in [Keys -> SUBSET Handles]
  /\ phase \in [Keys -> Phase]

Init ==
  /\ owners = [k \in Keys |-> {}]
  /\ phase = [k \in Keys |-> "absent"]

(* The first owner triggers the installation, later ones share it.         *)
Take(h) ==
  LET k == KeyOf[h] IN
  /\ h \notin owners[k]
  /\ phase[k] # "removing"
  /\ owners' = [owners EXCEPT ![k] = @ \cup {h}]
  /\ phase' = [phase EXCEPT ![k] = IF @ = "absent" THEN "installing" ELSE @]

Settle(k) ==
  /\ phase[k] = "installing"
  /\ \E outcome \in {"present", "failed"} :
        phase' = [phase EXCEPT ![k] = outcome]
  /\ UNCHANGED owners

(* The last owner to let go starts the removal.                            *)
Drop(h) ==
  LET k == KeyOf[h] IN
  /\ h \in owners[k]
  /\ owners' = [owners EXCEPT ![k] = @ \ {h}]
  /\ phase' = [phase EXCEPT ![k] = IF owners[k] = {h} THEN "removing" ELSE @]

Remove(k) ==
  /\ phase[k] = "removing"
  /\ phase' = [phase EXCEPT ![k] = "absent"]
  /\ UNCHANGED owners

Next ==
  \/ \E h \in Handles : Take(h) \/ Drop(h)
  \/ \E k \in Keys : Settle(k) \/ Remove(k)

vars == <<owners, phase>>

Spec == Init /\ [][Next]_vars
=============================================================================
