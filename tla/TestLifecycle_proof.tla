------------------------- MODULE TestLifecycle_proof -------------------------
(***************************************************************************)
(* TLAPS proofs about TestLifecycle, for any number of tests with any      *)
(* controllers and any steps.                                              *)
(*                                                                         *)
(* The inductive invariant IInv ties three things together: how far each   *)
(* test is, which cleanups it has on its stack (Stage, Leftovers), and     *)
(* what it owns of the shared resources (Owned, Phases).                   *)
(***************************************************************************)
EXTENDS TestLifecycle, SequenceTheorems, TLAPS

Indices(t) == 0 .. Len(NeedsOf[t])

Key(t, i) == KeyOf[<<t, i>>]

Held(t) == {i \in Indices(t) : <<t, i>> \in owners[Key(t, i)]}

Up(t, i) == i \in Held(t) /\ phase[Key(t, i)] = "present"

(* A key is owned by calls for it; while it is being removed, a call waits *)
(* for that.                                                               *)
Owned == \A k \in Keys : \A h \in owners[k] : KeyOf[h] = k

Phases ==
  \A k \in Keys :
    /\ phase[k] = "removing" =>
         owners[k] = {} /\ \E h \in Handles : KeyOf[h] = k /\ h[2] \in pending[h[1]]
    /\ phase[k] \notin {"removing", "absent"} => owners[k] # {}

(* The stack of cleanups once all resources are acquired, as far as it has *)
(* not been run.                                                           *)
Stack(t) ==
  /\ Len(cleanups[t]) >= 2
  /\ cleanups[t][1] = "crds"
  /\ cleanups[t][2] = "resources"
  /\ Len(cleanups[t]) >= 3 => cleanups[t][3] = "namespace"
  /\ \A n \in 4 .. Len(cleanups[t]) : cleanups[t][n] \in Objects \cup Forwarders
  /\ pending[t] = {}
  /\ Held(t) = Indices(t)
  /\ Up(t, 0)

OnlyCRDs(t) == Len(cleanups[t]) = 1 /\ cleanups[t][1] = "crds" /\ 0 \in Held(t)

Nothing(t) == cleanups[t] = <<>> /\ pending[t] = {} /\ Held(t) = {}

CleaningUp(t) ==
  \/ /\ Stack(t)
     /\ failedAt[t] # "wait" /\ Len(cleanups[t]) >= 3 => \A i \in Indices(t) : Up(t, i)
  \/ /\ OnlyCRDs(t)
     /\ Held(t) \ {0} \subseteq pending[t]
     /\ pending[t] \subseteq Indices(t) \ {0}
     /\ pending[t] # {} => Up(t, 0)
  \/ /\ cleanups[t] = <<>>
     /\ Held(t) \subseteq pending[t]
     /\ pending[t] \subseteq {0}

(* What a test holds and has registered at each point.                     *)
Stage(t) ==
  /\ pc[t] \in {"namespace", "crds", "done"} => Nothing(t)
  /\ pc[t] \in {"namespace", "crds", "crds_wait"} => next[t] = 1
  /\ pc[t] = "crds_wait" => OnlyCRDs(t) /\ pending[t] = {} /\ Held(t) = {0}
  /\ pc[t] = "acquire" =>
       /\ OnlyCRDs(t) /\ pending[t] = {} /\ Up(t, 0)
       /\ next[t] \in 1 .. Len(NeedsOf[t])
       /\ Held(t) = 0 .. next[t] - 1
  /\ pc[t] = "wait" =>
       /\ Stack(t) /\ Len(cleanups[t]) = 3
       /\ next[t] \in 1 .. Len(NeedsOf[t])
       /\ \A i \in 0 .. next[t] - 1 : Up(t, i)
  /\ pc[t] = "run" =>
       /\ Stack(t) /\ Len(cleanups[t]) >= 3
       /\ next[t] >= 1
       /\ \A i \in Indices(t) : Up(t, i)
  /\ pc[t] = "cleanup" => CleaningUp(t)

(* What a test leaves in the cluster has its cleanup on the stack, except  *)
(* for the step that failed, and for a namespace whose CRDs did.           *)
Leftovers(t) ==
  /\ pc[t] \notin {"cleanup", "done"} => failedAt[t] = "none"
  /\ pc[t] = "namespace" => namespace[t] = "none"
  /\ pc[t] \in {"crds", "crds_wait", "acquire", "wait", "run"} => namespace[t] = "exists"
  /\ Len(cleanups[t]) >= 3 => namespace[t] = "exists"
  /\ pc[t] \in {"cleanup", "done"} /\ Len(cleanups[t]) < 3 /\ namespace[t] = "exists" =>
       failedAt[t] = "crds_wait"
  /\ namespace[t] = "none" => live[t] = {}
  /\ namespace[t] = "deleted" => live[t] \cap Objects = {}
  /\ \A x \in live[t] :
       \/ \E n \in 4 .. Len(cleanups[t]) : cleanups[t][n] = x
       \/ failedAt[t] = "run" /\ next[t] \in 1 .. Len(StepsOf[t]) /\ x = StepsOf[t][next[t]]

IInv ==
  /\ TypeOK
  /\ Owned
  /\ Phases
  /\ \A t \in Tests : Stage(t) /\ Leftovers(t)

-----------------------------------------------------------------------------
(* The calls of a test and what they ask for.                              *)
LEMMA CallFacts ==
  ASSUME NEW t \in Tests
  PROVE  /\ Len(NeedsOf[t]) \in Nat \ {0}
         /\ 0 \in Indices(t)
         /\ \A i \in Indices(t) : <<t, i>> \in Handles
         /\ Key(t, 0) = CRDs
         /\ \A i \in Indices(t) \ {0} : Key(t, i) \in Controllers
  <1>1. NeedsOf[t] \in Seq(Controllers) /\ NeedsOf[t] # <<>>
    BY NeedsOfType
  <1>2. Len(NeedsOf[t]) \in Nat \ {0}
    BY <1>1, EmptySeq
  <1>3. \A i \in Indices(t) : <<t, i>> \in Handles
    BY DEF Handles, Indices
  <1>4. \A i \in Indices(t) : Key(t, i) = IF i = 0 THEN CRDs ELSE NeedsOf[t][i]
    BY <1>3 DEF Key, KeyOf
  <1>5. \A i \in Indices(t) \ {0} : NeedsOf[t][i] \in Controllers
    <2> TAKE i \in Indices(t) \ {0}
    <2>1. i \in 1 .. Len(NeedsOf[t])
      BY <1>2 DEF Indices
    <2>2. QED  BY <1>1, <2>1, ElementOfSeq
  <1>6. 0 \in Indices(t)
    BY <1>2 DEF Indices
  <1>7. QED  BY <1>2, <1>3, <1>4, <1>5, <1>6

LEMMA KeyFacts ==
  ASSUME NEW t \in Tests, NEW i \in Indices(t)
  PROVE  Key(t, i) \in Keys /\ (i # 0 => Key(t, i) # CRDs)
  <1>1. CRDs \notin Controllers
    BY DEF CRDs, Controllers
  <1>2. QED  BY <1>1, CallFacts DEF Keys

LEMMA HandleFacts ==
  ASSUME NEW h \in Handles
  PROVE  \E t \in Tests : \E i \in Indices(t) : h = <<t, i>> /\ KeyOf[h] = Key(t, i)
  BY DEF Handles, Indices, Key

(* Stacks of cleanups: registering and running one.                        *)
Fns == {"crds", "resources", "namespace"} \cup Objects \cup Forwarders

LEMMA StackFacts ==
  ASSUME TypeOK, NEW t \in Tests
  PROVE  /\ cleanups[t] \in Seq(Fns)
         /\ Len(cleanups[t]) \in Nat
         /\ cleanups[t] = <<>> <=> Len(cleanups[t]) = 0
         /\ \A n \in 1 .. Len(cleanups[t]) : cleanups[t][n] \in Fns
  <1>1. cleanups[t] \in Seq(Fns)
    BY DEF TypeOK, Fns
  <1>2. QED  BY <1>1, EmptySeq, LenProperties, ElementOfSeq

LEMMA PushFacts ==
  ASSUME NEW fs \in Seq(Fns), NEW x \in Fns
  PROVE  /\ fs \o <<x>> \in Seq(Fns)
         /\ Len(fs \o <<x>>) = Len(fs) + 1
         /\ \A n \in 1 .. Len(fs) : (fs \o <<x>>)[n] = fs[n]
         /\ (fs \o <<x>>)[Len(fs) + 1] = x
  <1>1. <<x>> \in Seq(Fns) /\ Len(<<x>>) = 1 /\ <<x>>[1] = x
    OBVIOUS
  <1>2. Len(fs) \in Nat
    BY LenProperties
  <1>3. /\ fs \o <<x>> \in Seq(Fns)
        /\ Len(fs \o <<x>>) = Len(fs) + 1
        /\ \A n \in 1 .. Len(fs) + 1 :
             (fs \o <<x>>)[n] = IF n <= Len(fs) THEN fs[n] ELSE <<x>>[n - Len(fs)]
    BY <1>1, ConcatProperties
  <1>4. QED  BY <1>1, <1>2, <1>3

LEMMA PushTwoFacts ==
  ASSUME NEW fs \in Seq(Fns), NEW x \in Fns, NEW y \in Fns, Len(fs) = 1
  PROVE  /\ fs \o <<x, y>> \in Seq(Fns)
         /\ Len(fs \o <<x, y>>) = 3
         /\ (fs \o <<x, y>>)[1] = fs[1]
         /\ (fs \o <<x, y>>)[2] = x
         /\ (fs \o <<x, y>>)[3] = y
  <1>1. <<x, y>> \in Seq(Fns) /\ Len(<<x, y>>) = 2 /\ <<x, y>>[1] = x /\ <<x, y>>[2] = y
    OBVIOUS
  <1>2. /\ fs \o <<x, y>> \in Seq(Fns)
        /\ Len(fs \o <<x, y>>) = Len(fs) + 2
        /\ \A n \in 1 .. Len(fs) + 2 :
             (fs \o <<x, y>>)[n] = IF n <= Len(fs) THEN fs[n] ELSE <<x, y>>[n - Len(fs)]
    BY <1>1, ConcatProperties
  <1>3. QED  BY <1>1, <1>2

LEMMA PopFacts ==
  ASSUME NEW fs \in Seq(Fns), Len(fs) # 0
  PROVE  /\ SubSeq(fs, 1, Len(fs) - 1) \in Seq(Fns)
         /\ Len(SubSeq(fs, 1, Len(fs) - 1)) = Len(fs) - 1
         /\ \A n \in 1 .. Len(fs) - 1 : SubSeq(fs, 1, Len(fs) - 1)[n] = fs[n]
  <1>1. Len(fs) \in Nat \ {0}
    BY LenProperties
  <1>2. \A n \in 1 .. Len(fs) - 1 : fs[n] \in Fns
    BY <1>1, ElementOfSeq
  <1>3. /\ SubSeq(fs, 1, Len(fs) - 1) \in Seq(Fns)
        /\ Len(SubSeq(fs, 1, Len(fs) - 1)) =
             IF 1 <= Len(fs) - 1 THEN (Len(fs) - 1) - 1 + 1 ELSE 0
        /\ \A n \in 1 .. (Len(fs) - 1) - 1 + 1 :
             SubSeq(fs, 1, Len(fs) - 1)[n] = fs[1 + n - 1]
    BY <1>1, <1>2, SubSeqProperties
  <1>4. (Len(fs) - 1) - 1 + 1 = Len(fs) - 1
    BY <1>1
  <1>5. ASSUME NEW n \in 1 .. Len(fs) - 1 PROVE SubSeq(fs, 1, Len(fs) - 1)[n] = fs[n]
    <2>1. 1 + n - 1 = n
      BY <1>1
    <2>2. QED  BY <1>3, <1>4, <2>1
  <1>6. Len(SubSeq(fs, 1, Len(fs) - 1)) = Len(fs) - 1
    <2>1. CASE Len(fs) = 1
      BY <1>3, <2>1
    <2>2. CASE Len(fs) # 1
      BY <1>1, <1>3, <1>4, <2>2
    <2>3. QED  BY <2>1, <2>2
  <1>7. QED  BY <1>3, <1>5, <1>6

-----------------------------------------------------------------------------
(* What a step of one test leaves alone in another.                        *)
SameTest(u) ==
  /\ pc'[u] = pc[u] /\ next'[u] = next[u] /\ failedAt'[u] = failedAt[u]
  /\ cleanups'[u] = cleanups[u] /\ pending'[u] = pending[u]
  /\ namespace'[u] = namespace[u] /\ live'[u] = live[u]

KeepsUp(u) ==
  /\ Held(u)' = Held(u)
  /\ \A i \in Indices(u) : Up(u, i) => Up(u, i)'

LEMMA Undisturbed ==
  ASSUME NEW u \in Tests, Stage(u), Leftovers(u), SameTest(u), KeepsUp(u)
  PROVE  Stage(u)' /\ Leftovers(u)'
  <1>1. Leftovers(u)'
    BY DEF Leftovers, SameTest
  <1>2. 0 \in Indices(u) /\ Len(NeedsOf[u]) \in Nat \ {0}
    BY CallFacts
  <1>3. Stack(u) => Stack(u)'
    BY <1>2 DEF Stack, SameTest, KeepsUp
  <1>4. (OnlyCRDs(u) => OnlyCRDs(u)') /\ (Nothing(u) => Nothing(u)')
    BY DEF OnlyCRDs, Nothing, SameTest, KeepsUp
  <1>5. CleaningUp(u) => CleaningUp(u)'
    BY <1>2, <1>3, <1>4 DEF CleaningUp, SameTest, KeepsUp
  <1>6. pc[u] = "wait" => \A i \in 0 .. next[u] - 1 : Up(u, i)'
    BY DEF Stage, KeepsUp, Up, Held
  <1>7. QED
    BY <1>1, <1>2, <1>3, <1>4, <1>5, <1>6 DEF Stage, SameTest, KeepsUp

LEMMA SharedUnchanged ==
  ASSUME UNCHANGED <<owners, phase>>, NEW u \in Tests PROVE KeepsUp(u)
  BY DEF KeepsUp, Held, Up

(* The effect of each step on a shared resource on those who hold it.      *)
LEMMA TakeEffect ==
  ASSUME TypeOK, Owned, NEW t \in Tests, NEW i \in Indices(t), Shared!Take(<<t, i>>)
  PROVE  /\ Shared!TypeOK' /\ Owned'
         /\ Held(t)' = Held(t) \cup {i}
         /\ \A u \in Tests \ {t} : Held(u)' = Held(u)
         /\ \A k \in Keys : phase[k] = "present" => phase'[k] = "present"
  <1>1. <<t, i>> \in Handles /\ Key(t, i) \in Keys /\ KeyOf[<<t, i>>] = Key(t, i)
    BY CallFacts, KeyFacts DEF Key
  <1>2. Shared!TypeOK'
    BY <1>1 DEF TypeOK, Shared!TypeOK, Shared!Phase, Shared!Take
  <1>3. Owned'
    BY <1>1 DEF TypeOK, Shared!TypeOK, Shared!Take, Owned
  <1>4. \A u \in Tests : \A j \in Indices(u) :
          <<u, j>> \in owners'[Key(u, j)] <=>
            <<u, j>> \in owners[Key(u, j)] \/ (u = t /\ j = i)
    <2> TAKE u \in Tests
    <2> TAKE j \in Indices(u)
    <2>1. owners'[Key(u, j)] = IF Key(u, j) = Key(t, i) THEN owners[Key(u, j)] \cup {<<t, i>>}
                                                       ELSE owners[Key(u, j)]
      BY <1>1, KeyFacts DEF TypeOK, Shared!TypeOK, Shared!Take
    <2>2. QED  BY <2>1
  <1>5. QED
    BY <1>1, <1>2, <1>3, <1>4 DEF TypeOK, Shared!TypeOK, Shared!Take, Held

LEMMA DropEffect ==
  ASSUME TypeOK, Owned, NEW t \in Tests, NEW i \in Indices(t), Shared!Drop(<<t, i>>)
  PROVE  /\ Shared!TypeOK' /\ Owned'
         /\ i \in Held(t)
         /\ Held(t)' = Held(t) \ {i}
         /\ \A u \in Tests \ {t} : Held(u)' = Held(u)
         /\ \A k \in Keys : phase[k] = "present" /\ owners'[k] # {} => phase'[k] = "present"
  <1>1. <<t, i>> \in Handles /\ Key(t, i) \in Keys /\ KeyOf[<<t, i>>] = Key(t, i)
    BY CallFacts, KeyFacts DEF Key
  <1>2. Shared!TypeOK'
    BY <1>1 DEF TypeOK, Shared!TypeOK, Shared!Phase, Shared!Drop
  <1>3. Owned'
    BY <1>1 DEF TypeOK, Shared!TypeOK, Shared!Drop, Owned
  <1>4. \A u \in Tests : \A j \in Indices(u) :
          <<u, j>> \in owners'[Key(u, j)] <=>
            <<u, j>> \in owners[Key(u, j)] /\ ~(u = t /\ j = i)
    BY <1>1, KeyFacts DEF TypeOK, Shared!TypeOK, Shared!Drop
  <1>5. \A k \in Keys : phase[k] = "present" /\ owners'[k] # {} => phase'[k] = "present"
    BY <1>1 DEF TypeOK, Shared!TypeOK, Shared!Drop
  <1>6. QED
    BY <1>1, <1>2, <1>3, <1>4, <1>5 DEF Shared!Drop, Held

-----------------------------------------------------------------------------
LEMMA InitIInv == Init => IInv
  <1> SUFFICES ASSUME Init PROVE IInv
    OBVIOUS
  <1> USE DEF Init, Shared!Init
  <1>1. TypeOK
    BY DEF TypeOK, PC, NotInstalled, Shared!TypeOK, Shared!Phase
  <1>2. Owned /\ Phases
    BY DEF Owned, Phases
  <1>3. ASSUME NEW t \in Tests PROVE Stage(t) /\ Leftovers(t)
    <2>1. Held(t) = {}
      BY KeyFacts DEF Held
    <2>2. Stage(t)
      BY <2>1 DEF Stage, Nothing
    <2>3. Leftovers(t)
      BY EmptySeq DEF Leftovers
    <2>4. QED  BY <2>2, <2>3
  <1>4. QED  BY <1>1, <1>2, <1>3 DEF IInv

(* A step of t keeps the invariant if it does for t and leaves the others  *)
(* alone.                                                                  *)
LEMMA OneTest ==
  ASSUME IInv, NEW t \in Tests,
         \A u \in Tests \ {t} : SameTest(u) /\ KeepsUp(u),
         TypeOK', Owned', Phases', Stage(t)', Leftovers(t)'
  PROVE  IInv'
  <1>1. \A u \in Tests \ {t} : Stage(u)' /\ Leftovers(u)'
    BY Undisturbed DEF IInv
  <1>2. QED  BY <1>1 DEF IInv

LEMMA MoveTypes ==
  ASSUME TypeOK, NEW t \in Tests
  PROVE  /\ \A to \in PC : Goto(t, to) => pc' \in [Tests -> PC] /\ pc'[t] = to
         /\ Fail(t) /\ pc[t] \in {"namespace", "crds_wait", "wait", "run"} =>
              /\ pc' \in [Tests -> PC]
              /\ failedAt' \in [Tests -> {"none", "namespace", "crds_wait", "wait", "run"}]
              /\ pc'[t] = "cleanup" /\ failedAt'[t] = pc[t]
  <1>1. ASSUME NEW to \in PC, Goto(t, to) PROVE pc' \in [Tests -> PC] /\ pc'[t] = to
    BY <1>1 DEF TypeOK, Goto
  <1>2. ASSUME Fail(t), pc[t] \in {"namespace", "crds_wait", "wait", "run"}
        PROVE  /\ pc' \in [Tests -> PC]
               /\ failedAt' \in [Tests -> {"none", "namespace", "crds_wait", "wait", "run"}]
               /\ pc'[t] = "cleanup" /\ failedAt'[t] = pc[t]
    <2>1. "cleanup" \in PC
      BY DEF PC
    <2>2. QED  BY <1>2, <2>1 DEF TypeOK, Goto, Fail
  <1>3. QED  BY <1>1, <1>2

LEMMA CreateNamespaceStep ==
  ASSUME IInv, NEW t \in Tests, CreateNamespace(t) PROVE IInv'
  <1> USE DEF CreateNamespace, Goto, Fail
  <1>1. TypeOK'
    <2>1. /\ pc' \in [Tests -> PC]
          /\ failedAt' \in [Tests -> {"none", "namespace", "crds_wait", "wait", "run"}]
      BY MoveTypes DEF IInv, TypeOK, PC
    <2>2. QED  BY <2>1 DEF IInv, TypeOK, Shared!TypeOK
  <1>2. Owned' /\ Phases'
    BY DEF IInv, Owned, Phases
  <1>3. \A u \in Tests : KeepsUp(u)
    BY SharedUnchanged
  <1>4. \A u \in Tests \ {t} : SameTest(u)
    BY DEF IInv, TypeOK, SameTest
  <1>5. Nothing(t) /\ Nothing(t)' /\ next'[t] = 1
    BY <1>3 DEF IInv, Stage, Nothing, KeepsUp
  <1>6. pc'[t] \in {"crds", "cleanup"}
    BY DEF IInv, TypeOK
  <1>7. Stage(t)'
    BY <1>5, <1>6 DEF Stage, CleaningUp, Nothing
  <1>8. Leftovers(t)'
    BY <1>5, <1>6, EmptySeq DEF IInv, TypeOK, Leftovers, Nothing
  <1>9. QED  BY <1>1, <1>2, <1>3, <1>4, <1>7, <1>8, OneTest

LEMMA WaitForCRDsStep ==
  ASSUME IInv, NEW t \in Tests, WaitForCRDs(t) PROVE IInv'
  <1> USE DEF WaitForCRDs, Goto, Fail
  <1>1. TypeOK'
    <2>1. /\ pc' \in [Tests -> PC]
          /\ failedAt' \in [Tests -> {"none", "namespace", "crds_wait", "wait", "run"}]
      BY MoveTypes DEF IInv, TypeOK, PC
    <2>2. QED  BY <2>1 DEF IInv, TypeOK, Shared!TypeOK
  <1>2. Owned' /\ Phases'
    BY DEF IInv, Owned, Phases
  <1>3. \A u \in Tests : KeepsUp(u)
    BY SharedUnchanged
  <1>4. \A u \in Tests \ {t} : SameTest(u)
    BY DEF IInv, TypeOK, SameTest
  <1>5. OnlyCRDs(t)' /\ pending'[t] = {} /\ Held(t)' = {0}
    BY <1>3 DEF IInv, Stage, OnlyCRDs, KeepsUp
  <1>5a. next'[t] = 1
    BY DEF IInv, Stage
  <1>6. Stage(t)'
    <2>1. CASE phase[CRDs] = "present" /\ Goto(t, "acquire")
      <3>1. Up(t, 0)'
        BY <1>5, <2>1, CallFacts DEF Up
      <3>2. pc'[t] = "acquire"
        BY <2>1 DEF IInv, TypeOK
      <3> HIDE DEF WaitForCRDs, Goto, Fail
      <3>3. 0 .. next'[t] - 1 = {0}
        BY <1>5a
      <3>4. next'[t] \in 1 .. Len(NeedsOf[t])
        BY <1>5a, CallFacts
      <3>5. QED  BY <1>5, <3>1, <3>2, <3>3, <3>4 DEF Stage
    <2>2. CASE Fail(t)
      BY <1>5, <2>2 DEF IInv, TypeOK, Stage, CleaningUp
    <2>3. QED  BY <2>1, <2>2
  <1>7. Leftovers(t)'
    <2>1. Leftovers(t) /\ Len(cleanups[t]) = 1
      BY <1>5 DEF IInv, OnlyCRDs
    <2>2. namespace[t] = "exists" /\ live[t] = {} /\ failedAt[t] = "none"
      BY <2>1 DEF Leftovers
    <2>3. \/ pc'[t] = "acquire" /\ failedAt'[t] = "none"
          \/ pc'[t] = "cleanup" /\ failedAt'[t] = "crds_wait"
      BY <2>2 DEF IInv, TypeOK
    <2>4. QED  BY <2>1, <2>2, <2>3 DEF Leftovers
  <1>8. QED  BY <1>1, <1>2, <1>3, <1>4, <1>6, <1>7, OneTest

LEMMA WaitForNextStep ==
  ASSUME IInv, NEW t \in Tests, WaitForNext(t) PROVE IInv'
  <1> USE DEF WaitForNext, Goto, Fail
  <1>1. TypeOK'
    <2>1. /\ pc' \in [Tests -> PC]
          /\ failedAt' \in [Tests -> {"none", "namespace", "crds_wait", "wait", "run"}]
      BY MoveTypes DEF IInv, TypeOK, PC
    <2>2. next \in [Tests -> Nat] /\ next[t] + 1 \in Nat
      BY DEF IInv, TypeOK
    <2>3. next' \in [Tests -> Nat]
      <3>1. \/ next' = next
            \/ next' = [next EXCEPT ![t] = next[t] + 1]
            \/ next' = [next EXCEPT ![t] = 1]
        OBVIOUS
      <3> HIDE DEF WaitForNext
      <3>2. QED  BY <2>2, <3>1
    <2>4. QED  BY <2>1, <2>3 DEF IInv, TypeOK, Shared!TypeOK
  <1>2. Owned' /\ Phases'
    BY DEF IInv, Owned, Phases
  <1>3. \A u \in Tests : KeepsUp(u)
    BY SharedUnchanged
  <1>4. \A u \in Tests \ {t} : SameTest(u)
    BY DEF IInv, TypeOK, SameTest
  <1>5. /\ Stack(t) /\ Len(cleanups[t]) = 3 /\ next[t] \in 1 .. Len(NeedsOf[t])
        /\ \A i \in 0 .. next[t] - 1 : Up(t, i)
    BY DEF IInv, Stage
  <1>6. Stack(t)' /\ Len(cleanups[t])' = 3
    BY <1>3, <1>5, CallFacts DEF Stack, KeepsUp
  <1>7. \A i \in 0 .. next[t] - 1 : Up(t, i)'
    BY <1>5 DEF Up, Held
  <1>8. Stage(t)'
    <2>1. CASE phase[KeyOf[<<t, next[t]>>]] = "present"
      <3>1. \A i \in Indices(t) : i = next[t] => Up(t, i)'
        BY <1>6, <2>1 DEF Stack, Up, Key
      <3>2. \A i \in 0 .. next[t] : Up(t, i)'
        BY <1>5, <1>7, <3>1, CallFacts DEF Indices
      <3>3. CASE next[t] < Len(NeedsOf[t])
        <4>1. pc'[t] = "wait" /\ next'[t] = next[t] + 1
          BY <2>1, <3>3 DEF IInv, TypeOK
        <4>2. QED  BY <1>5, <1>6, <3>2, <3>3, <4>1, CallFacts DEF Stage
      <3>4. CASE ~(next[t] < Len(NeedsOf[t]))
        <4>1. pc'[t] = "run" /\ next'[t] = 1
          BY <2>1, <3>4 DEF IInv, TypeOK
        <4>2. next[t] = Len(NeedsOf[t])
          BY <1>5, <3>4, CallFacts
        <4>3. QED  BY <1>6, <3>2, <4>1, <4>2 DEF Stage, Indices
      <3>5. QED  BY <3>3, <3>4
    <2>2. CASE Fail(t)
      BY <1>6, <2>2 DEF IInv, TypeOK, Stage, CleaningUp
    <2>3. QED  BY <2>1, <2>2
  <1>9. Leftovers(t)'
    <2>1. \A x \in live[t] : \E n \in 4 .. Len(cleanups[t]) : cleanups[t][n] = x
      BY DEF IInv, Leftovers
    <2>2. live[t] = {}
      BY <1>5, <2>1
    <2>3. namespace'[t] = "exists" /\ live'[t] = {} /\ Len(cleanups'[t]) = 3
      BY <1>6, <2>2 DEF IInv, Leftovers
    <2>4. \/ pc'[t] \in {"wait", "run"} /\ failedAt'[t] = "none"
          \/ pc'[t] = "cleanup"
      BY DEF IInv, TypeOK, Leftovers
    <2>5. QED  BY <2>3, <2>4 DEF Leftovers
  <1>10. QED  BY <1>1, <1>2, <1>3, <1>4, <1>8, <1>9, OneTest

LEMMA RunEndsStep ==
  ASSUME IInv, NEW t \in Tests, RunEnds(t) PROVE IInv'
  <1> USE DEF RunEnds, Goto, Fail
  <1>1. TypeOK'
    <2>1. /\ pc' \in [Tests -> PC]
          /\ failedAt' \in [Tests -> {"none", "namespace", "crds_wait", "wait", "run"}]
      BY MoveTypes DEF IInv, TypeOK, PC
    <2>2. QED  BY <2>1 DEF IInv, TypeOK, Shared!TypeOK
  <1>2. Owned' /\ Phases'
    BY DEF IInv, Owned, Phases
  <1>3. \A u \in Tests : KeepsUp(u)
    BY SharedUnchanged
  <1>4. \A u \in Tests \ {t} : SameTest(u)
    BY DEF IInv, TypeOK, SameTest
  <1>5. Stack(t) /\ Len(cleanups[t]) >= 3 /\ \A i \in Indices(t) : Up(t, i)
    BY DEF IInv, Stage
  <1>6. Stack(t)' /\ \A i \in Indices(t) : Up(t, i)'
    BY <1>3, <1>5, CallFacts DEF Stack, KeepsUp
  <1>7. pc'[t] = "cleanup"
    BY DEF IInv, TypeOK
  <1>8. Stage(t)'
    BY <1>6, <1>7 DEF Stage, CleaningUp
  <1>9. Leftovers(t)'
    <2>1. failedAt[t] = "none" /\ namespace[t] = "exists"
      BY DEF IInv, Leftovers
    <2>2. \A x \in live[t] : \E n \in 4 .. Len(cleanups[t]) : cleanups[t][n] = x
      BY <2>1 DEF IInv, Leftovers
    <2>3. Len(cleanups[t]) \in Nat
      BY StackFacts DEF IInv
    <2>4. Len(cleanups[t]) >= 3
      BY <1>5
    <2>5. /\ namespace'[t] = "exists"
          /\ Len(cleanups'[t]) >= 3 /\ Len(cleanups'[t]) \in Nat
          /\ \A x \in live'[t] : \E n \in 4 .. Len(cleanups'[t]) : cleanups'[t][n] = x
      BY <2>1, <2>2, <2>3, <2>4
    <2> HIDE DEF RunEnds
    <2>6. QED  BY <1>7, <2>5 DEF Leftovers
  <1>10. QED  BY <1>1, <1>2, <1>3, <1>4, <1>8, <1>9, OneTest

LEMMA EndStep ==
  ASSUME IInv, NEW t \in Tests, End(t) PROVE IInv'
  <1> USE DEF End, Goto
  <1>1. TypeOK'
    BY DEF IInv, TypeOK, PC, Shared!TypeOK
  <1>2. Owned' /\ Phases'
    BY DEF IInv, Owned, Phases
  <1>3. \A u \in Tests : KeepsUp(u)
    BY SharedUnchanged
  <1>4. \A u \in Tests \ {t} : SameTest(u)
    BY DEF IInv, TypeOK, SameTest
  <1>5. Len(cleanups[t]) = 0
    BY StackFacts DEF IInv
  <1>6. Nothing(t)'
    <2>1. CleaningUp(t)
      BY DEF IInv, Stage
    <2>2. ~Stack(t) /\ ~OnlyCRDs(t)
      BY <1>5 DEF Stack, OnlyCRDs
    <2>3. Held(t) = {}
      BY <2>1, <2>2 DEF CleaningUp
    <2>4. QED  BY <1>3, <2>3 DEF Nothing, KeepsUp
  <1>7. pc'[t] = "done"
    BY DEF IInv, TypeOK
  <1>8. Stage(t)'
    BY <1>6, <1>7 DEF Stage
  <1>9. Leftovers(t)'
    BY <1>5, <1>7 DEF IInv, TypeOK, Leftovers
  <1>10. QED  BY <1>1, <1>2, <1>3, <1>4, <1>8, <1>9, OneTest

LEMMA RunStepStep ==
  ASSUME IInv, NEW t \in Tests, RunStep(t) PROVE IInv'
  <1> DEFINE s == StepsOf[t][next[t]]
  <1> USE DEF RunStep, Goto, Fail, Register
  <1>1. s \in Objects \cup Forwarders
    BY StepsOfType, ElementOfSeq DEF IInv, TypeOK, Stage
  <1>2. /\ cleanups[t] \o <<s>> \in Seq(Fns)
        /\ Len(cleanups[t] \o <<s>>) = Len(cleanups[t]) + 1
        /\ \A n \in 1 .. Len(cleanups[t]) : (cleanups[t] \o <<s>>)[n] = cleanups[t][n]
        /\ (cleanups[t] \o <<s>>)[Len(cleanups[t]) + 1] = s
    BY <1>1, StackFacts, PushFacts DEF IInv, Fns
  <1>3. TypeOK'
    <2>1. cleanups' \in [Tests -> Seq(Fns)]
      <3>1. cleanups' = cleanups \/ cleanups' = [cleanups EXCEPT ![t] = cleanups[t] \o <<s>>]
        OBVIOUS
      <3>2. cleanups \in [Tests -> Seq(Fns)]
        BY DEF IInv, TypeOK, Fns
      <3> HIDE DEF RunStep, s
      <3>3. QED  BY <1>2, <3>1, <3>2
    <2>2. live' \in [Tests -> SUBSET (Objects \cup Forwarders)]
      <3>1. \E partly \in {{}, {s}} : live' = [live EXCEPT ![t] = @ \cup partly]
        OBVIOUS
      <3> HIDE DEF RunStep, s
      <3>2. QED  BY <1>1, <3>1 DEF IInv, TypeOK
    <2>3. next' \in [Tests -> Nat]
      <3>1. next' = [next EXCEPT ![t] = next[t] + 1] \/ next' = next
        OBVIOUS
      <3>2. next \in [Tests -> Nat]
        BY DEF IInv, TypeOK
      <3> HIDE DEF RunStep
      <3>3. QED  BY <3>1, <3>2
    <2>4. /\ pc' \in [Tests -> PC]
          /\ failedAt' \in [Tests -> {"none", "namespace", "crds_wait", "wait", "run"}]
      BY MoveTypes DEF IInv, TypeOK
    <2>5. QED  BY <2>1, <2>2, <2>3, <2>4 DEF IInv, TypeOK, Fns, Shared!TypeOK
  <1>4. Owned' /\ Phases'
    BY DEF IInv, Owned, Phases
  <1>5. \A u \in Tests : KeepsUp(u)
    BY SharedUnchanged
  <1>6. \A u \in Tests \ {t} : SameTest(u)
    BY DEF IInv, TypeOK, SameTest
  <1>7. /\ Stack(t) /\ Len(cleanups[t]) >= 3 /\ Len(cleanups[t]) \in Nat
        /\ next[t] \in Nat /\ next[t] >= 1
        /\ \A i \in Indices(t) : Up(t, i)
    BY StackFacts DEF IInv, TypeOK, Stage
  <1>8. \A i \in Indices(t) : Up(t, i)'
    BY <1>5, <1>7 DEF KeepsUp
  <1>9. /\ failedAt[t] = "none" /\ namespace[t] = "exists"
        /\ \A x \in live[t] : \E n \in 4 .. Len(cleanups[t]) : cleanups[t][n] = x
    BY DEF IInv, Leftovers
  <1>10. next[t] \in 1 .. Len(StepsOf[t])
    BY <1>7
  <1>11. CASE Register(t, <<s>>) /\ UNCHANGED <<pc, failedAt>>
    <2>1. /\ cleanups'[t] = cleanups[t] \o <<s>> /\ live'[t] = live[t] \cup {s}
          /\ next'[t] = next[t] + 1
      BY <1>11, <1>7 DEF IInv, TypeOK
    <2>2. Stack(t)'
      <3>1. \A n \in 4 .. Len(cleanups'[t]) : cleanups'[t][n] \in Objects \cup Forwarders
        <4> TAKE n \in 4 .. Len(cleanups'[t])
        <4>1. n \in 4 .. Len(cleanups[t]) \/ n = Len(cleanups[t]) + 1
          BY <1>2, <1>7, <2>1
        <4>2. QED  BY <1>1, <1>2, <1>7, <2>1, <4>1 DEF Stack
      <3>2. /\ Len(cleanups'[t]) >= 3
            /\ cleanups'[t][1] = "crds" /\ cleanups'[t][2] = "resources"
            /\ cleanups'[t][3] = "namespace"
        BY <1>2, <1>7, <2>1 DEF Stack
      <3>3. Held(t)' = Indices(t) /\ Up(t, 0)'
        BY <1>5, <1>7, <1>8, CallFacts DEF Stack, KeepsUp
      <3>4. pending'[t] = {}
        BY <1>7 DEF Stack
      <3>5. Len(cleanups'[t]) >= 2
        BY <1>2, <1>7, <2>1
      <3> HIDE DEF RunStep, s
      <3>6. QED  BY <3>1, <3>2, <3>3, <3>4, <3>5 DEF Stack
    <2>3. Stage(t)'
      BY <1>2, <1>7, <1>8, <1>11, <2>1, <2>2 DEF Stage
    <2>4. Leftovers(t)'
      <3>1. ASSUME NEW x \in live'[t]
            PROVE  \E n \in 4 .. Len(cleanups'[t]) : cleanups'[t][n] = x
        <4>1. CASE x = s
          BY <1>2, <1>7, <2>1, <4>1
        <4>2. CASE x \in live[t]
          <5>1. PICK n \in 4 .. Len(cleanups[t]) : cleanups[t][n] = x
            BY <1>9, <4>2
          <5>2. QED  BY <1>2, <1>7, <2>1, <5>1
        <4>3. QED  BY <2>1, <4>1, <4>2
      <3>2. /\ pc'[t] = "run" /\ failedAt'[t] = "none" /\ namespace'[t] = "exists"
        BY <1>9, <1>11
      <3> HIDE DEF RunStep
      <3>3. QED  BY <3>1, <3>2 DEF Leftovers
    <2>5. QED  BY <1>3, <1>4, <1>5, <1>6, <2>3, <2>4, OneTest
  <1>12. CASE Fail(t) /\ UNCHANGED <<next, cleanups>>
    <2>1. /\ pc'[t] = "cleanup" /\ failedAt'[t] = "run"
          /\ live'[t] \subseteq live[t] \cup {s}
      BY <1>12 DEF IInv, TypeOK
    <2>2. Stack(t)'
      BY <1>5, <1>7, <1>12, CallFacts DEF Stack, KeepsUp
    <2>3. Stage(t)'
      BY <1>8, <2>1, <2>2 DEF Stage, CleaningUp
    <2>4. Leftovers(t)'
      BY <1>7, <1>9, <1>10, <1>12, <2>1 DEF Leftovers
    <2>5. QED  BY <1>3, <1>4, <1>5, <1>6, <2>3, <2>4, OneTest
  <1>13. QED  BY <1>11, <1>12

LEMMA CleanUpStep ==
  ASSUME IInv, NEW t \in Tests, CleanUp(t) PROVE IInv'
  <1> DEFINE fs == cleanups[t]
             top == fs[Len(fs)]
  <1> USE DEF CleanUp
  <1>0. Len(fs) \in Nat \ {0}
    BY StackFacts DEF IInv
  <1>1. fs \in Seq(Fns)
    BY StackFacts DEF IInv
  <1>2. /\ SubSeq(fs, 1, Len(fs) - 1) \in Seq(Fns)
        /\ Len(SubSeq(fs, 1, Len(fs) - 1)) = Len(fs) - 1
        /\ \A n \in 1 .. Len(fs) - 1 : SubSeq(fs, 1, Len(fs) - 1)[n] = fs[n]
    BY <1>0, <1>1, PopFacts
  <1>3. /\ cleanups'[t] = SubSeq(fs, 1, Len(fs) - 1)
        /\ pending'[t] = CASE top = "crds" -> {0}
                           [] top = "resources" -> 1 .. Len(NeedsOf[t])
                           [] OTHER -> {}
        /\ \/ namespace'[t] = namespace[t] /\ top # "namespace"
           \/ namespace'[t] \in {"deleted", "stuck"} /\ top = "namespace"
        /\ live'[t] = IF namespace'[t] = "deleted" THEN live[t] \ Objects ELSE live[t] \ {top}
        /\ pc'[t] = "cleanup" /\ failedAt'[t] = failedAt[t] /\ next'[t] = next[t]
    <2>1. TypeOK
      BY DEF IInv
    <2>2. pending'[t] = CASE top = "crds" -> {0}
                           [] top = "resources" -> 1 .. Len(NeedsOf[t])
                           [] OTHER -> {}
      BY <2>1 DEF TypeOK
    <2>3. cleanups'[t] = SubSeq(fs, 1, Len(fs) - 1)
      BY <2>1 DEF TypeOK
    <2>4. PICK ns \in IF top = "namespace" THEN {"deleted", "stuck"} ELSE {namespace[t]} :
            /\ namespace' = [namespace EXCEPT ![t] = ns]
            /\ live' = [live EXCEPT ![t] = IF ns = "deleted" THEN @ \ Objects ELSE @ \ {top}]
      OBVIOUS
    <2>5. /\ namespace'[t] = ns
          /\ live'[t] = IF ns = "deleted" THEN live[t] \ Objects ELSE live[t] \ {top}
      BY <2>1, <2>4 DEF TypeOK
    <2>6. pc'[t] = "cleanup" /\ failedAt'[t] = failedAt[t] /\ next'[t] = next[t]
      OBVIOUS
    <2> HIDE DEF CleanUp
    <2>7. QED  BY <2>2, <2>3, <2>5, <2>6
  <1>4. TypeOK'
    <2>1. cleanups' \in [Tests -> Seq(Fns)]
      BY <1>2 DEF IInv, TypeOK, Fns
    <2>2. pending' \in [Tests -> SUBSET Nat]
      <3>1. 1 .. Len(NeedsOf[t]) \subseteq Nat
        BY CallFacts
      <3>2. pending'[t] \subseteq Nat
        BY <1>3, <3>1
      <3>3. QED  BY <1>3, <3>2 DEF IInv, TypeOK
    <2>3. /\ namespace' \in [Tests -> {"none", "exists", "deleted", "stuck"}]
          /\ live' \in [Tests -> SUBSET (Objects \cup Forwarders)]
      BY DEF IInv, TypeOK
    <2>4. QED  BY <2>1, <2>2, <2>3 DEF IInv, TypeOK, Fns, Shared!TypeOK
  <1>5. Owned'
    BY DEF IInv, Owned
  <1>6. \A u \in Tests : KeepsUp(u)
    BY SharedUnchanged
  <1>7. \A u \in Tests \ {t} : SameTest(u)
    BY DEF IInv, TypeOK, SameTest
  <1>8. Phases'
    <2>1. \A h \in Handles : h[2] \in pending[h[1]] => h[2] \in pending'[h[1]]
      BY <1>7, HandleFacts DEF SameTest
    <2>2. QED  BY <2>1 DEF IInv, Phases
  <1> HIDE DEF CleanUp
  <1>9. CleaningUp(t) /\ pending[t] = {} /\ 0 \in Indices(t)
    BY CallFacts DEF IInv, Stage, CleanUp
  <1>10. /\ Len(cleanups'[t]) = Len(fs) - 1
         /\ \A n \in 1 .. Len(fs) - 1 : cleanups'[t][n] = fs[n]
    BY <1>2, <1>3
  <1>11. Leftovers(t)
    BY DEF IInv
  <1>12. CASE Stack(t) /\ Len(fs) >= 4
    <2>1. fs[Len(fs)] \in Objects \cup Forwarders
      BY <1>0, <1>12 DEF Stack
    <2>2. pending'[t] = {} /\ namespace'[t] = namespace[t] /\ namespace[t] = "exists"
      BY <1>0, <1>3, <1>11, <1>12, <2>1 DEF Leftovers, Objects, Forwarders
    <2>3. Stack(t)'
      <3>1. /\ Len(cleanups'[t]) >= 3
            /\ cleanups'[t][1] = "crds" /\ cleanups'[t][2] = "resources"
            /\ cleanups'[t][3] = "namespace"
        <4>1. 1 \in 1 .. Len(fs) - 1 /\ 2 \in 1 .. Len(fs) - 1 /\ 3 \in 1 .. Len(fs) - 1
          BY <1>0, <1>12
        <4>2. fs[1] = "crds" /\ fs[2] = "resources" /\ fs[3] = "namespace"
          BY <1>0, <1>12 DEF Stack
        <4>3. Len(cleanups'[t]) >= 3
          BY <1>0, <1>10, <1>12
        <4>4. QED  BY <1>10, <4>1, <4>2, <4>3
      <3>2. ASSUME NEW n \in 4 .. Len(cleanups'[t])
            PROVE  cleanups'[t][n] \in Objects \cup Forwarders
        <4>1. n \in 1 .. Len(fs) - 1 /\ n \in 4 .. Len(fs)
          BY <1>0, <1>10
        <4>2. fs[n] \in Objects \cup Forwarders
          BY <1>12, <4>1 DEF Stack
        <4>3. QED  BY <1>10, <4>1, <4>2
      <3>3. Held(t)' = Indices(t) /\ Up(t, 0)'
        BY <1>6, <1>9, <1>12 DEF Stack, KeepsUp
      <3>4. QED  BY <1>0, <1>10, <2>2, <3>1, <3>2, <3>3 DEF Stack
    <2>4. failedAt[t] # "wait" => \A i \in Indices(t) : Up(t, i)'
      <3>1. ~OnlyCRDs(t) /\ fs # <<>>
        <4>1. \A n \in Nat : n >= 4 => n # 1
          OBVIOUS
        <4>2. Len(fs) # 1
          BY <1>0, <1>12, <4>1, Zenon
        <4>3. QED  BY <1>0, <4>2, EmptySeq DEF OnlyCRDs
      <3>2. Len(fs) >= 3
        BY <1>0, <1>12
      <3>3. QED  BY <1>6, <1>9, <3>1, <3>2 DEF CleaningUp, KeepsUp
    <2>5. CleaningUp(t)'
      BY <1>3, <2>3, <2>4 DEF CleaningUp
    <2>6. ASSUME NEW x \in live'[t], x \in live[t], x # fs[Len(fs)],
                 \E n \in 4 .. Len(fs) : fs[n] = x
          PROVE  \E n \in 4 .. Len(cleanups'[t]) : cleanups'[t][n] = x
      BY <1>0, <1>10, <1>12, <2>6
    <2>7. live'[t] = live[t] \ {fs[Len(fs)]}
      BY <1>3, <2>2
    <2>8. Leftovers(t)'
      BY <1>0, <1>3, <1>10, <1>11, <1>12, <2>2, <2>6, <2>7 DEF Leftovers
    <2>9. QED  BY <1>3, <1>4, <1>5, <1>6, <1>7, <1>8, <2>5, <2>8, OneTest DEF Stage
  <1>13. CASE Stack(t) /\ Len(fs) \in {2, 3}
    <2>1. top = IF Len(fs) = 3 THEN "namespace" ELSE "resources"
      <3>1. fs[2] = "resources" /\ (Len(fs) = 3 => fs[3] = "namespace")
        BY <1>13 DEF Stack
      <3>2. QED  BY <1>13, <3>1
    <2>2. CASE Len(fs) = 3
      <3>1. pending'[t] = {} /\ namespace'[t] \in {"deleted", "stuck"}
        BY <1>3, <2>1, <2>2
      <3>2. Stack(t)'
        BY <1>6, <1>9, <1>10, <1>13, <2>2, <3>1 DEF Stack, KeepsUp
      <3>3. CleaningUp(t)'
        BY <1>10, <2>2, <3>2 DEF CleaningUp
      <3>4. ASSUME NEW x \in live'[t]
            PROVE  /\ failedAt[t] = "run" /\ next[t] \in 1 .. Len(StepsOf[t])
                   /\ x = StepsOf[t][next[t]]
        BY <1>3, <1>11, <2>2, <3>4 DEF Leftovers
      <3>5. namespace'[t] = "deleted" => live'[t] \cap Objects = {}
        BY <1>3
      <3>6. Leftovers(t)'
        BY <1>3, <1>10, <2>2, <3>1, <3>4, <3>5 DEF Leftovers
      <3>7. QED  BY <1>3, <1>4, <1>5, <1>6, <1>7, <1>8, <3>3, <3>6, OneTest DEF Stage
    <2>3. CASE Len(fs) = 2
      <3>1. pending'[t] = 1 .. Len(NeedsOf[t]) /\ namespace'[t] = namespace[t]
        BY <1>3, <2>1, <2>3
      <3>2. pending'[t] = Indices(t) \ {0}
        BY <3>1, CallFacts DEF Indices
      <3>3. OnlyCRDs(t)' /\ Up(t, 0)' /\ Held(t)' \subseteq Indices(t)
        BY <1>6, <1>9, <1>10, <1>13, <2>3 DEF OnlyCRDs, Stack, KeepsUp
      <3>4. CleaningUp(t)'
        BY <3>2, <3>3 DEF CleaningUp
      <3>5. Leftovers(t)'
        BY <1>3, <1>10, <1>11, <2>3, <3>1 DEF Leftovers, IInv, Stage, CleanUp
      <3>6. QED  BY <1>3, <1>4, <1>5, <1>6, <1>7, <1>8, <3>4, <3>5, OneTest DEF Stage
    <2>4. QED  BY <1>13, <2>2, <2>3
  <1>14. CASE OnlyCRDs(t)
    <2>1. top = "crds" /\ pending'[t] = {0} /\ Held(t)' \subseteq {0}
      BY <1>3, <1>6, <1>9, <1>14 DEF CleaningUp, OnlyCRDs, Stack, KeepsUp
    <2>2. Len(cleanups'[t]) = 0 /\ namespace'[t] = namespace[t]
      BY <1>3, <1>10, <1>14, <2>1 DEF OnlyCRDs
    <2>3. cleanups'[t] = <<>>
      BY <1>2, <1>3, <2>2, EmptySeq
    <2>4. CleaningUp(t)'
      BY <2>1, <2>3 DEF CleaningUp
    <2>5. Leftovers(t)'
      BY <1>3, <1>11, <1>14, <2>2 DEF Leftovers, OnlyCRDs, CleanUp
    <2>6. QED  BY <1>3, <1>4, <1>5, <1>6, <1>7, <1>8, <2>4, <2>5, OneTest DEF Stage
  <1>15. QED
    <2>1. Stack(t) \/ OnlyCRDs(t)
      BY <1>0, <1>9, EmptySeq DEF CleaningUp
    <2>2. Stack(t) => Len(fs) >= 2
      BY DEF Stack
    <2>3. \A n \in Nat : n >= 2 => n >= 4 \/ n \in {2, 3}
      OBVIOUS
    <2>4. QED  BY <1>0, <1>12, <1>13, <1>14, <2>1, <2>2, <2>3, Zenon

-----------------------------------------------------------------------------
(* Steps on shared resources.                                              *)

LEMMA TakePhases ==
  ASSUME TypeOK, Owned, Phases, NEW t \in Tests, NEW i \in Indices(t),
         Shared!Take(<<t, i>>), UNCHANGED pending
  PROVE  Phases'
  <1>1. <<t, i>> \in Handles /\ Key(t, i) \in Keys /\ KeyOf[<<t, i>>] = Key(t, i)
    BY CallFacts, KeyFacts DEF Key
  <1>2. ASSUME NEW k \in Keys, k # Key(t, i)
        PROVE  owners'[k] = owners[k] /\ phase'[k] = phase[k]
    BY <1>1, <1>2 DEF TypeOK, Shared!TypeOK, Shared!Take
  <1>3. owners'[Key(t, i)] # {} /\ phase'[Key(t, i)] # "removing"
    BY <1>1 DEF TypeOK, Shared!TypeOK, Shared!Take
  <1>4. QED  BY <1>2, <1>3 DEF Phases

LEMMA TakeKeepsUp ==
  ASSUME TypeOK, Owned, NEW t \in Tests, NEW i \in Indices(t), Shared!Take(<<t, i>>)
  PROVE  /\ \A u \in Tests \ {t} : KeepsUp(u)
         /\ \A j \in Indices(t) : Up(t, j) => Up(t, j)'
  BY TakeEffect, KeyFacts DEF KeepsUp, Up

LEMMA InstallStarts ==
  ASSUME TypeOK, NEW t \in Tests, NEW i \in Indices(t), Acquire(t, i)
  PROVE  install' \in [Keys -> [by : Tests \cup {None}, at : Nat,
                         result : {"none", "running", "ok", "failed", "cancelled"}]]
  BY DEF TypeOK, Acquire

LEMMA AcquireCRDsStep ==
  ASSUME IInv, NEW t \in Tests, AcquireCRDs(t) PROVE IInv'
  <1> USE DEF AcquireCRDs
  <1>1. Nothing(t) /\ next[t] = 1
    BY DEF IInv, Stage
  <1>2. 0 \in Indices(t) /\ Shared!Take(<<t, 0>>)
    BY CallFacts DEF Acquire
  <1>3. /\ Shared!TypeOK' /\ Owned'
        /\ Held(t)' = {0}
        /\ \A u \in Tests \ {t} : KeepsUp(u)
    BY <1>1, <1>2, TakeEffect, TakeKeepsUp DEF IInv, Nothing
  <1>4. /\ cleanups[t] \o <<"crds">> \in Seq(Fns)
        /\ Len(cleanups[t] \o <<"crds">>) = 1
        /\ (cleanups[t] \o <<"crds">>)[1] = "crds"
    <2>1. cleanups[t] \in Seq(Fns) /\ Len(cleanups[t]) = 0 /\ "crds" \in Fns
      BY <1>1, StackFacts DEF IInv, Nothing, Fns
    <2>2. QED  BY <2>1, PushFacts
  <1>5. /\ cleanups'[t] = cleanups[t] \o <<"crds">> /\ pc'[t] = "crds_wait"
        /\ next'[t] = 1 /\ pending'[t] = {} /\ namespace'[t] = "exists"
        /\ failedAt'[t] = "none" /\ live'[t] = live[t]
    BY <1>1 DEF IInv, TypeOK, Leftovers, Nothing, Register, Goto
  <1>6. TypeOK'
    <2>1. cleanups' \in [Tests -> Seq(Fns)]
      BY <1>4 DEF IInv, TypeOK, Fns, Register
    <2>2. pc' \in [Tests -> PC]
      BY MoveTypes DEF IInv, PC
    <2>3. install' \in [Keys -> [by : Tests \cup {None}, at : Nat,
                          result : {"none", "running", "ok", "failed", "cancelled"}]]
      BY <1>2, InstallStarts DEF IInv
    <2>4. QED  BY <1>3, <2>1, <2>2, <2>3 DEF IInv, TypeOK, Fns
  <1>7. Phases'
    BY <1>2, TakePhases DEF IInv
  <1>8. \A u \in Tests \ {t} : SameTest(u)
    BY DEF IInv, TypeOK, SameTest, Register, Goto
  <1>9. Stage(t)'
    BY <1>3, <1>4, <1>5 DEF Stage, OnlyCRDs
  <1>10. Leftovers(t)'
    <2>1. Len(cleanups[t]) = 0
      BY <1>1, StackFacts DEF IInv, Nothing
    <2>2. live[t] = {}
      BY <2>1 DEF IInv, Leftovers
    <2>3. QED  BY <1>4, <1>5, <2>2 DEF Leftovers
  <1>11. QED  BY <1>3, <1>6, <1>7, <1>8, <1>9, <1>10, OneTest

LEMMA AcquireNextStep ==
  ASSUME IInv, NEW t \in Tests, AcquireNext(t) PROVE IInv'
  <1> USE DEF AcquireNext
  <1>1. /\ OnlyCRDs(t) /\ pending[t] = {} /\ Up(t, 0)
        /\ next[t] \in 1 .. Len(NeedsOf[t])
        /\ Held(t) = 0 .. next[t] - 1
    BY DEF IInv, Stage
  <1>2. PICK i \in Indices(t) : i = next[t]
    BY <1>1, CallFacts DEF Indices
  <1>3. Shared!Take(<<t, i>>)
    BY <1>2 DEF Acquire
  <1>4. /\ Shared!TypeOK' /\ Owned'
        /\ Held(t)' = Held(t) \cup {i}
        /\ \A u \in Tests \ {t} : KeepsUp(u)
        /\ Up(t, 0)'
    BY <1>1, <1>3, CallFacts, TakeEffect, TakeKeepsUp DEF IInv
  <1>5. Held(t)' = 0 .. i
    BY <1>1, <1>2, <1>4, CallFacts DEF Indices
  <1>6. /\ cleanups[t] \o <<"resources", "namespace">> \in Seq(Fns)
        /\ Len(cleanups[t] \o <<"resources", "namespace">>) = 3
        /\ (cleanups[t] \o <<"resources", "namespace">>)[1] = "crds"
        /\ (cleanups[t] \o <<"resources", "namespace">>)[2] = "resources"
        /\ (cleanups[t] \o <<"resources", "namespace">>)[3] = "namespace"
    <2>1. /\ cleanups[t] \in Seq(Fns) /\ Len(cleanups[t]) = 1 /\ cleanups[t][1] = "crds"
          /\ "resources" \in Fns /\ "namespace" \in Fns
      BY <1>1, StackFacts DEF IInv, OnlyCRDs, Fns
    <2>2. QED  BY <2>1, PushTwoFacts
  <1>7. TypeOK'
    <2>1. cleanups' \in [Tests -> Seq(Fns)]
      BY <1>6 DEF IInv, TypeOK, Fns, Register
    <2>2. pc' \in [Tests -> PC]
      BY MoveTypes DEF IInv, TypeOK, PC
    <2>3. next' \in [Tests -> Nat]
      BY <1>1 DEF IInv, TypeOK
    <2>4. install' \in [Keys -> [by : Tests \cup {None}, at : Nat,
                          result : {"none", "running", "ok", "failed", "cancelled"}]]
      BY <1>2, InstallStarts DEF IInv
    <2>5. QED  BY <1>4, <2>1, <2>2, <2>3, <2>4 DEF IInv, TypeOK, Fns
  <1>8. Phases'
    BY <1>3, TakePhases DEF IInv
  <1>9. \A u \in Tests \ {t} : SameTest(u)
    BY DEF IInv, TypeOK, SameTest, Register, Goto
  <1>10. /\ pending'[t] = {} /\ namespace'[t] = "exists" /\ failedAt'[t] = "none"
         /\ live'[t] = {}
    <2>1. live[t] = {}
      BY <1>1 DEF IInv, Leftovers, OnlyCRDs
    <2>2. QED  BY <1>1, <2>1 DEF IInv, Leftovers
  <1>11. CASE next[t] < Len(NeedsOf[t])
    <2>1. pc'[t] = "acquire" /\ next'[t] = i + 1 /\ cleanups'[t] = cleanups[t]
      BY <1>2, <1>11 DEF IInv, TypeOK
    <2>2. next'[t] \in 1 .. Len(NeedsOf[t]) /\ 0 .. next'[t] - 1 = 0 .. i
      BY <1>1, <1>2, <1>11, <2>1, CallFacts
    <2>3. OnlyCRDs(t)'
      BY <1>1, <1>4, <2>1 DEF OnlyCRDs, Up
    <2>4. Stage(t)'
      BY <1>4, <1>5, <1>10, <2>1, <2>2, <2>3 DEF Stage
    <2>5. Leftovers(t)'
      BY <1>10, <2>1, <2>3 DEF Leftovers
    <2>6. QED  BY <1>4, <1>7, <1>8, <1>9, <2>4, <2>5, OneTest
  <1>12. CASE ~(next[t] < Len(NeedsOf[t]))
    <2>1. /\ pc'[t] = "wait" /\ next'[t] = 1
          /\ cleanups'[t] = cleanups[t] \o <<"resources", "namespace">>
      BY <1>12 DEF IInv, TypeOK, Register, Goto
    <2>2. Held(t)' = Indices(t)
      BY <1>1, <1>2, <1>5, <1>12, CallFacts DEF Indices
    <2>3. Stack(t)'
      BY <1>4, <1>6, <1>10, <2>1, <2>2 DEF Stack
    <2>4. Stage(t)'
      <3>1. next'[t] \in 1 .. Len(NeedsOf[t]) /\ 0 .. next'[t] - 1 = {0}
        BY <2>1, CallFacts
      <3>2. QED  BY <1>4, <1>6, <2>1, <2>3, <3>1 DEF Stage
    <2>5. Leftovers(t)'
      BY <1>6, <1>10, <2>1 DEF Leftovers
    <2>6. QED  BY <1>4, <1>7, <1>8, <1>9, <2>4, <2>5, OneTest
  <1>13. QED  BY <1>11, <1>12

LEMMA ReleaseStep ==
  ASSUME IInv, NEW t \in Tests, NEW i \in Indices(t), Release(t, i) PROVE IInv'
  <1> USE DEF Release
  <1>1. /\ Shared!TypeOK' /\ Owned'
        /\ i \in Held(t) /\ Held(t)' = Held(t) \ {i}
        /\ \A u \in Tests \ {t} : Held(u)' = Held(u)
        /\ \A k \in Keys : phase[k] = "present" /\ owners'[k] # {} => phase'[k] = "present"
    BY DropEffect DEF IInv
  <1>2. /\ KeyOf[<<t, i>>] = Key(t, i) /\ Key(t, i) \in Keys /\ <<t, i>> \in Handles
    BY CallFacts, KeyFacts DEF Key
  <1>3. TypeOK'
    BY <1>1 DEF IInv, TypeOK
  <1>4. \A u \in Tests : \A j \in Held(u)' : Up(u, j) => Up(u, j)'
    <2> SUFFICES ASSUME NEW u \in Tests, NEW j \in Held(u)', Up(u, j) PROVE Up(u, j)'
      OBVIOUS
    <2>1. j \in Indices(u) /\ owners'[Key(u, j)] # {}
      BY DEF Held
    <2>2. QED  BY <1>1, <2>1, KeyFacts DEF Up
  <1>5. \A u \in Tests \ {t} : SameTest(u) /\ KeepsUp(u)
    BY <1>1, <1>4 DEF IInv, TypeOK, SameTest, KeepsUp, Up
  <1>6. /\ i \in pending[t] /\ pc'[t] = pc[t]
        /\ pending'[t] = IF owners[Key(t, i)] = {<<t, i>>} THEN pending[t] ELSE pending[t] \ {i}
    BY <1>2 DEF IInv, TypeOK
  <1>7. Phases'
    <2>1. ASSUME NEW k \in Keys, k # Key(t, i)
          PROVE  owners'[k] = owners[k] /\ phase'[k] = phase[k]
      BY <1>2, <2>1 DEF IInv, TypeOK, Shared!TypeOK, Shared!Drop
    <2>2. ASSUME NEW h \in Handles, h[2] \in pending[h[1]], KeyOf[h] # Key(t, i)
          PROVE  h[2] \in pending'[h[1]]
      <3>1. PICK u \in Tests : \E j \in Indices(u) : h = <<u, j>>
        BY HandleFacts
      <3>2. PICK j \in Indices(u) : h = <<u, j>>
        BY <3>1
      <3>3. u # t \/ j # i
        BY <1>2, <2>2, <3>2
      <3>4. QED  BY <1>5, <1>6, <2>2, <3>2, <3>3 DEF SameTest
    <2>3. CASE owners[Key(t, i)] = {<<t, i>>}
      <3>1. owners'[Key(t, i)] = {} /\ phase'[Key(t, i)] = "removing" /\ i \in pending'[t]
        BY <1>2, <1>6, <2>3 DEF IInv, TypeOK, Shared!TypeOK, Shared!Drop
      <3>2. \E h \in Handles : KeyOf[h] = Key(t, i) /\ h[2] \in pending'[h[1]]
        BY <1>2, <3>1
      <3>3. QED  BY <2>1, <2>2, <3>1, <3>2 DEF IInv, Phases
    <2>4. CASE owners[Key(t, i)] # {<<t, i>>}
      <3>1. owners'[Key(t, i)] # {} /\ phase'[Key(t, i)] = phase[Key(t, i)]
        BY <1>2, <2>4 DEF IInv, TypeOK, Shared!TypeOK, Shared!Drop
      <3>2. phase[Key(t, i)] # "removing"
        BY <1>2 DEF IInv, Phases, Shared!Drop
      <3>3. QED  BY <2>1, <2>2, <3>1, <3>2 DEF IInv, Phases
    <2>5. QED  BY <2>3, <2>4
  <1>8. CleaningUp(t) /\ pc[t] = "cleanup"
    <2>1. Stage(t) /\ pc[t] \in PC
      BY DEF IInv, TypeOK
    <2>2. pending[t] # {} /\ ~Stack(t) /\ ~Nothing(t)
      BY <1>6 DEF Stack, Nothing
    <2>3. QED  BY <2>1, <2>2 DEF PC, Stage
  <1>9. CleaningUp(t)'
    <2>1. ~Stack(t)
      BY <1>6 DEF Stack
    <2>2. CASE /\ OnlyCRDs(t)
               /\ Held(t) \ {0} \subseteq pending[t]
               /\ pending[t] \subseteq Indices(t) \ {0}
               /\ pending[t] # {} => Up(t, 0)
      <3>1. i # 0 /\ 0 \in Held(t)'
        BY <1>1, <1>6, <2>2 DEF OnlyCRDs
      <3>2. Up(t, 0)'
        BY <1>4, <1>6, <2>2, <3>1
      <3>3. OnlyCRDs(t)'
        BY <2>2, <3>1 DEF OnlyCRDs
      <3>4. Held(t)' \ {0} \subseteq pending'[t] /\ pending'[t] \subseteq Indices(t) \ {0}
        BY <1>1, <1>6, <2>2
      <3>5. QED  BY <3>2, <3>3, <3>4 DEF CleaningUp
    <2>3. CASE cleanups[t] = <<>> /\ Held(t) \subseteq pending[t] /\ pending[t] \subseteq {0}
      <3>1. Held(t)' \subseteq pending'[t] /\ pending'[t] \subseteq {0}
        BY <1>1, <1>6, <2>3
      <3>2. QED  BY <2>3, <3>1 DEF CleaningUp
    <2>4. QED  BY <1>8, <2>1, <2>2, <2>3 DEF CleaningUp
  <1>10. Stage(t)'
    BY <1>6, <1>8, <1>9 DEF Stage
  <1>11. Leftovers(t)'
    BY <1>6 DEF IInv, Leftovers
  <1>12. QED  BY <1>1, <1>3, <1>5, <1>7, <1>10, <1>11, OneTest

LEMMA InstallStep ==
  ASSUME IInv, NEW k \in Keys, Install(k) PROVE IInv'
  <1>1. /\ UNCHANGED <<testVars, owners>>
        /\ \/ UNCHANGED phase
           \/ /\ phase[k] = "installing"
              /\ \E outcome \in {"present", "failed"} :
                   phase' = [phase EXCEPT ![k] = outcome]
    BY DEF Install, CallSucceeds, CallFails, Finish, Shared!Settle
  <1>2. \/ UNCHANGED releases
        \/ \E c : \E r \in {"ok", "broken"} : releases' = [releases EXCEPT ![c] = r]
    BY DEF Install, CallSucceeds, CallFails
  <1>3. \/ install' = [install EXCEPT ![k].at = install[k].at + 1]
        \/ \E r \in {"ok", "failed", "cancelled"} : install' = [install EXCEPT ![k].result = r]
    BY DEF Install, CallSucceeds, CallFails, Finish
  <1>4. TypeOK'
    <2>1. Shared!TypeOK'
      <3>1. phase' = phase \/ \E x \in {"present", "failed"} : phase' = [phase EXCEPT ![k] = x]
        BY <1>1
      <3>2. owners' \in [Keys -> SUBSET Handles]
        BY <1>1 DEF IInv, TypeOK, Shared!TypeOK
      <3>3. phase \in [Keys -> Shared!Phase]
        BY DEF IInv, TypeOK, Shared!TypeOK
      <3>4. phase' \in [Keys -> Shared!Phase]
        BY <3>1, <3>3 DEF Shared!Phase
      <3>5. QED  BY <3>2, <3>4 DEF Shared!TypeOK
    <2>2. releases' \in [Charts -> {"absent", "broken", "ok"}]
      BY <1>2 DEF IInv, TypeOK
    <2>3. install' \in [Keys -> [by : Tests \cup {None}, at : Nat,
                          result : {"none", "running", "ok", "failed", "cancelled"}]]
      <3>1. install \in [Keys -> [by : Tests \cup {None}, at : Nat,
                            result : {"none", "running", "ok", "failed", "cancelled"}]]
        BY DEF IInv, TypeOK
      <3>2. CASE install' = [install EXCEPT ![k].at = install[k].at + 1]
        <4>1. install[k].at + 1 \in Nat
          BY <3>1
        <4>2. QED  BY <3>1, <3>2, <4>1
      <3>3. CASE \E r \in {"ok", "failed", "cancelled"} : install' = [install EXCEPT ![k].result = r]
        BY <3>1, <3>3
      <3>4. QED  BY <1>3, <3>2, <3>3
    <2>4. QED  BY <1>1, <2>1, <2>2, <2>3 DEF IInv, TypeOK, testVars
  <1>5. Owned' /\ Phases'
    BY <1>1 DEF IInv, TypeOK, Shared!TypeOK, Owned, Phases, testVars
  <1>6. ASSUME NEW u \in Tests PROVE Stage(u)' /\ Leftovers(u)'
    <2>1. Held(u)' = Held(u)
      BY <1>1 DEF Held
    <2>2. \A i \in Indices(u) : Up(u, i) => Up(u, i)'
      BY <1>1, <2>1, KeyFacts DEF IInv, TypeOK, Shared!TypeOK, Up
    <2>3. SameTest(u)
      BY <1>1 DEF SameTest, testVars
    <2>4. QED  BY <2>1, <2>2, <2>3, Undisturbed DEF IInv, KeepsUp
  <1>7. QED  BY <1>4, <1>5, <1>6 DEF IInv

LEMMA RemoveStep ==
  ASSUME IInv, NEW k \in Keys, Remove(k) PROVE IInv'
  <1> USE DEF Remove
  <1>1. /\ UNCHANGED <<pc, next, failedAt, cleanups, namespace, live, owners>>
        /\ phase[k] = "removing" /\ phase' = [phase EXCEPT ![k] = "absent"]
        /\ owners[k] = {}
    BY DEF Shared!Remove, IInv, Phases
  <1>2. \A t \in Tests : pending'[t] =
          {i \in pending[t] : KeyOf[<<t, i>>] # k \/ <<t, i>> \in owners[k]}
    OBVIOUS
  <1>3. TypeOK'
    <2>1. Shared!TypeOK'
      BY <1>1 DEF IInv, TypeOK, Shared!TypeOK, Shared!Phase
    <2>2. releases' \in [Charts -> {"absent", "broken", "ok"}]
      BY DEF IInv, TypeOK
    <2>3. install' \in [Keys -> [by : Tests \cup {None}, at : Nat,
                          result : {"none", "running", "ok", "failed", "cancelled"}]]
      BY DEF IInv, TypeOK, NotInstalled
    <2>4. pending' \in [Tests -> SUBSET Nat]
      BY DEF IInv, TypeOK
    <2>5. QED  BY <1>1, <2>1, <2>2, <2>3, <2>4 DEF IInv, TypeOK
  <1> HIDE DEF Remove
  <1>4. Owned'
    BY <1>1 DEF IInv, Owned
  <1>5. Phases'
    <2>1. ASSUME NEW h \in Handles, h[2] \in pending[h[1]], KeyOf[h] # k
          PROVE  h[2] \in pending'[h[1]]
      BY <1>2, <2>1, HandleFacts
    <2>2. phase'[k] = "absent"
      BY <1>1 DEF IInv, TypeOK, Shared!TypeOK
    <2>3. \A l \in Keys \ {k} : phase'[l] = phase[l]
      BY <1>1 DEF IInv, TypeOK, Shared!TypeOK
    <2>4. QED  BY <1>1, <2>1, <2>2, <2>3 DEF IInv, Phases
  <1>6. ASSUME NEW t \in Tests PROVE Stage(t)' /\ Leftovers(t)'
    <2>1. Held(t)' = Held(t)
      BY <1>1 DEF Held
    <2>2. \A i \in Indices(t) : Up(t, i) => Up(t, i)'
      BY <1>1, <2>1, KeyFacts DEF IInv, TypeOK, Shared!TypeOK, Up
    <2>3. pending'[t] \subseteq pending[t]
      BY <1>2
    <2>4. \A i \in Held(t) : i \in pending[t] => i \in pending'[t]
      BY <1>1, <1>2 DEF Held, Key
    <2>5. Leftovers(t)'
      BY <1>1 DEF IInv, Leftovers
    <2>6. CASE pending[t] = {}
      <3>1. pending'[t] = {}
        BY <2>3, <2>6
      <3>2. SameTest(t)
        BY <1>1, <2>6, <3>1 DEF SameTest
      <3>3. QED  BY <2>1, <2>2, <3>2, Undisturbed DEF IInv, KeepsUp
    <2>7. CASE pending[t] # {}
      <3>1. pc[t] = "cleanup" /\ CleaningUp(t) /\ ~Stack(t)
        <4>1. Stage(t) /\ pc[t] \in PC
          BY DEF IInv, TypeOK
        <4>2. pending[t] # {} /\ ~Stack(t) /\ ~Nothing(t)
          BY <2>7 DEF Stack, Nothing
        <4>3. QED  BY <4>1, <4>2 DEF PC, Stage
      <3>2. CASE /\ OnlyCRDs(t)
                 /\ Held(t) \ {0} \subseteq pending[t]
                 /\ pending[t] \subseteq Indices(t) \ {0}
                 /\ pending[t] # {} => Up(t, 0)
        <4>1. OnlyCRDs(t)' /\ Up(t, 0)'
          BY <1>1, <2>1, <2>2, <2>7, <3>2, CallFacts DEF OnlyCRDs
        <4>2. Held(t)' \ {0} \subseteq pending'[t] /\ pending'[t] \subseteq Indices(t) \ {0}
          BY <2>1, <2>3, <2>4, <3>2
        <4>3. CleaningUp(t)'
          BY <4>1, <4>2 DEF CleaningUp
        <4>4. QED  BY <1>1, <2>5, <3>1, <4>3 DEF Stage
      <3>3. CASE cleanups[t] = <<>> /\ Held(t) \subseteq pending[t] /\ pending[t] \subseteq {0}
        <4>1. CleaningUp(t)'
          BY <1>1, <2>1, <2>3, <2>4, <3>3 DEF CleaningUp
        <4>2. QED  BY <1>1, <2>5, <3>1, <4>1 DEF Stage
      <3>4. QED  BY <3>1, <3>2, <3>3 DEF CleaningUp
    <2>8. QED  BY <2>6, <2>7
  <1>7. QED  BY <1>3, <1>4, <1>5, <1>6 DEF IInv

-----------------------------------------------------------------------------
LEMMA Inductive == IInv /\ [Next]_vars => IInv'
  <1> SUFFICES ASSUME IInv, [Next]_vars PROVE IInv'
    OBVIOUS
  <1>1. ASSUME NEW t \in Tests, TestStep(t) PROVE IInv'
    BY <1>1, CreateNamespaceStep, AcquireCRDsStep, WaitForCRDsStep, AcquireNextStep,
       WaitForNextStep, RunStepStep, RunEndsStep, CleanUpStep, EndStep DEF TestStep
  <1>2. ASSUME NEW h \in Handles, Release(h[1], h[2]) PROVE IInv'
    <2>1. PICK t \in Tests : \E i \in Indices(t) : h = <<t, i>>
      BY HandleFacts
    <2>2. QED  BY <1>2, <2>1, ReleaseStep
  <1>3. ASSUME NEW k \in Keys, Install(k) \/ Remove(k) PROVE IInv'
    BY <1>3, InstallStep, RemoveStep
  <1>4. CASE UNCHANGED vars
    <2>1. TypeOK' /\ Owned' /\ Phases'
      BY <1>4 DEF vars, IInv, TypeOK, Shared!TypeOK, Owned, Phases
    <2>2. \A t \in Tests : SameTest(t) /\ KeepsUp(t)
      BY <1>4, SharedUnchanged DEF vars, SameTest
    <2>3. QED  BY <2>1, <2>2, Undisturbed DEF IInv
  <1>5. QED  BY <1>1, <1>2, <1>3, <1>4 DEF Next

LEMMA Invariance == Spec => []IInv
  BY InitIInv, Inductive, PTL DEF Spec

(* No index leaves its range, no function its type: TypeOK of the runs.    *)
THEOREM TypesHold == Spec => []TypeOK
  <1>1. IInv => TypeOK
    BY DEF IInv
  <1>2. QED  BY <1>1, Invariance, PTL

(* Whatever tests run and fail, no controller is installed or running in a *)
(* cluster without CRDs: SetupTestEnv takes them first, and its cleanups,  *)
(* last registered first, let go of them last.                             *)
THEOREM CRDsOutliveControllers == Spec => []ControllersHaveCRDs
  <1>1. IInv => ControllersHaveCRDs
    <2> SUFFICES ASSUME IInv, NEW k \in Controllers, phase[k] # "absent"
                 PROVE  phase[CRDs] = "present"
      BY DEF ControllersHaveCRDs
    <2>1. k \in Keys /\ k # CRDs
      BY DEF Keys, Controllers, CRDs
    <2>2. \E t \in Tests : \E i \in Indices(t) : Key(t, i) = k /\ (i \in pending[t] \/ i \in Held(t))
      <3>1. CASE phase[k] = "removing"
        <4>1. PICK h \in Handles : KeyOf[h] = k /\ h[2] \in pending[h[1]]
          BY <2>1, <3>1 DEF IInv, Phases
        <4>2. QED  BY <4>1, HandleFacts
      <3>2. CASE phase[k] # "removing"
        <4>1. PICK h \in owners[k] : KeyOf[h] = k
          BY <2>1, <3>2 DEF IInv, Phases, Owned
        <4>2. h \in Handles
          BY <2>1 DEF IInv, TypeOK, Shared!TypeOK
        <4>3. QED  BY <4>1, <4>2, HandleFacts DEF Held
      <3>3. QED  BY <3>1, <3>2
    <2>3. PICK t \in Tests : \E i \in Indices(t) : Key(t, i) = k /\ (i \in pending[t] \/ i \in Held(t))
      BY <2>2
    <2>4. PICK i \in Indices(t) : Key(t, i) = k /\ (i \in pending[t] \/ i \in Held(t))
      BY <2>3
    <2>5. i # 0
      BY <2>1, <2>4, CallFacts
    <2>6. Up(t, 0)
      <3>1. Stage(t) /\ pc[t] \in PC
        BY DEF IInv, TypeOK
      <3>2. ~Nothing(t) /\ ~(pending[t] = {} /\ Held(t) = {0})
        BY <2>4, <2>5 DEF Nothing
      <3>3. CleaningUp(t) => Up(t, 0)
        BY <2>4, <2>5 DEF CleaningUp, Stack
      <3>4. QED  BY <3>1, <3>2, <3>3 DEF Stage, PC, Stack
    <2>7. QED  BY <2>6, CallFacts DEF Up
  <1>2. QED  BY <1>1, Invariance, PTL

(* Nobody takes away what a test still works with.                         *)
THEOREM RunningTestsAreSafe == Spec => []RunsOnPresent
  <1>1. IInv => RunsOnPresent
    <2> SUFFICES ASSUME IInv, NEW t \in Tests, pc[t] = "run", NEW i \in Indices(t)
                 PROVE  Holds(t, i) /\ phase[KeyOf[<<t, i>>]] = "present"
      BY DEF RunsOnPresent, Indices
    <2>1. Up(t, i)
      BY DEF IInv, Stage
    <2>2. QED  BY <2>1, CallFacts DEF Up, Held, Holds, Key
  <1>2. QED  BY <1>1, Invariance, PTL

(* Wherever a test fails, its cleanups release all it acquired and delete  *)
(* what it created, but for the exceptions EndsClean names.                *)
THEOREM TestsEndClean == Spec => []EndsClean
  <1>1. IInv => EndsClean
    <2> SUFFICES ASSUME IInv, NEW t \in Tests, pc[t] = "done"
                 PROVE  /\ \A i \in 0 .. Len(NeedsOf[t]) : ~Holds(t, i)
                        /\ namespace[t] = "exists" => failedAt[t] = "crds_wait"
                        /\ live[t] # {} =>
                             /\ failedAt[t] = "run"
                             /\ live[t] = {StepsOf[t][next[t]]}
                             /\ live[t] \subseteq Forwarders \/ namespace[t] = "stuck"
      BY DEF EndsClean
    <2>1. Nothing(t) /\ Leftovers(t) /\ Len(cleanups[t]) = 0
      BY StackFacts DEF IInv, Stage, Nothing
    <2>2. \A i \in 0 .. Len(NeedsOf[t]) : ~Holds(t, i)
      BY <2>1 DEF Nothing, Held, Holds, Indices, Key
    <2>3. namespace[t] = "exists" => failedAt[t] = "crds_wait"
      BY <2>1 DEF Leftovers
    <2>4. \A x \in live[t] : failedAt[t] = "run" /\ x = StepsOf[t][next[t]]
      BY <2>1 DEF Leftovers
    <2>5. /\ namespace[t] \in {"none", "exists", "deleted", "stuck"}
          /\ live[t] \subseteq Objects \cup Forwarders
      BY DEF IInv, TypeOK
    <2>6. namespace[t] = "deleted" => live[t] \cap Objects = {}
      BY <2>1 DEF Leftovers
    <2>7. namespace[t] = "none" => live[t] = {}
      BY <2>1 DEF Leftovers
    <2>8. live[t] # {} => live[t] \subseteq Forwarders \/ namespace[t] = "stuck"
      BY <2>3, <2>4, <2>5, <2>6, <2>7
    <2>9. QED  BY <2>2, <2>3, <2>4, <2>8
  <1>2. QED  BY <1>1, Invariance, PTL

(* The namespace goes while CRDs and controllers are still there.          *)
THEOREM NamespaceGoesFirst == Spec => NamespaceDeletedFirst
  <1>1. IInv /\ [Next]_vars =>
          [\A t \in Tests : namespace[t] = "exists" /\ namespace'[t] # "exists" =>
             /\ phase[CRDs] = "present"
             /\ \A i \in 1 .. Len(NeedsOf[t]) : Holds(t, i)
             /\ failedAt[t] # "wait" =>
                  \A i \in 1 .. Len(NeedsOf[t]) : phase[KeyOf[<<t, i>>]] = "present"]_vars
    <2> SUFFICES ASSUME IInv, Next, NEW t \in Tests,
                        namespace[t] = "exists", namespace'[t] # "exists"
                 PROVE  /\ phase[CRDs] = "present"
                        /\ \A i \in 1 .. Len(NeedsOf[t]) : Holds(t, i)
                        /\ failedAt[t] # "wait" =>
                             \A i \in 1 .. Len(NeedsOf[t]) : phase[KeyOf[<<t, i>>]] = "present"
      BY DEF vars
    <2>1. CleanUp(t) /\ cleanups[t][Len(cleanups[t])] = "namespace"
      <3>1. PICK u \in Tests : TestStep(u)
        BY DEF Next, Release, Install, CallSucceeds, CallFails, testVars, Remove
      <3>2. CreateNamespace(u) \/ CleanUp(u)
        BY <3>1 DEF TestStep, AcquireCRDs, WaitForCRDs, AcquireNext, WaitForNext, RunStep,
                    RunEnds, End
      <3>3. ~CreateNamespace(u)
        BY DEF CreateNamespace, IInv, TypeOK, Leftovers
      <3>4. PICK ns \in IF cleanups[u][Len(cleanups[u])] = "namespace"
                          THEN {"deleted", "stuck"} ELSE {namespace[u]} :
              namespace' = [namespace EXCEPT ![u] = ns]
        BY <3>2, <3>3 DEF CleanUp
      <3>5. u = t /\ cleanups[t][Len(cleanups[t])] = "namespace"
        BY <3>4 DEF IInv, TypeOK
      <3>6. QED  BY <3>2, <3>3, <3>5
    <2>2. CleaningUp(t) /\ cleanups[t] # <<>>
      BY <2>1 DEF CleanUp, IInv, Stage
    <2>3. ~OnlyCRDs(t)
      BY <2>1 DEF OnlyCRDs
    <2>4. Stack(t) /\ (failedAt[t] # "wait" /\ Len(cleanups[t]) >= 3 => \A i \in Indices(t) : Up(t, i))
      BY <2>2, <2>3 DEF CleaningUp
    <2>5. Len(cleanups[t]) \in Nat /\ Len(cleanups[t]) >= 3
      <3>1. Len(cleanups[t]) \in Nat
        BY StackFacts DEF IInv
      <3>2. Len(cleanups[t]) # 2
        BY <2>1, <2>4 DEF Stack
      <3>3. \A n \in Nat : n >= 2 /\ n # 2 => n >= 3
        OBVIOUS
      <3>4. Len(cleanups[t]) >= 2
        BY <2>4 DEF Stack
      <3>5. QED  BY <3>1, <3>2, <3>3, <3>4, Zenon
    <2>6. phase[CRDs] = "present"
      BY <2>4, CallFacts DEF Stack, Up
    <2>7. \A i \in 1 .. Len(NeedsOf[t]) : i \in Indices(t) /\ Holds(t, i)
      <3>1. \A i \in 1 .. Len(NeedsOf[t]) : i \in Indices(t)
        BY DEF Indices
      <3>2. \A i \in Indices(t) : <<t, i>> \in Handles /\ i \in Held(t)
        BY <2>4, CallFacts DEF Stack
      <3>3. QED  BY <3>1, <3>2 DEF Held, Holds, Key
    <2>8. QED  BY <2>4, <2>5, <2>6, <2>7 DEF Up, Key
  <1>2. QED  BY <1>1, Invariance, PTL DEF Spec, NamespaceDeletedFirst

(* TestLifecycle uses shared resources only in ways that SharedResource    *)
(* allows, so that ResourceManager, which implements it, can be put below. *)
THEOREM StepsOnShared == Spec => UsesSharedResource
  <1>1. Init => Shared!Init
    BY DEF Init
  <1>2. IInv /\ [Next]_vars => [Shared!Next]_(Shared!vars)
    <2> SUFFICES ASSUME IInv, [Next]_vars PROVE Shared!Next \/ UNCHANGED <<owners, phase>>
      BY DEF Shared!vars
    <2>1. ASSUME NEW t \in Tests, TestStep(t)
          PROVE  Shared!Next \/ UNCHANGED <<owners, phase>>
      <3>1. CASE AcquireCRDs(t)
        BY <3>1, CallFacts DEF AcquireCRDs, Acquire, Shared!Next
      <3>2. CASE AcquireNext(t)
        <4>1. next[t] \in Indices(t)
          BY <3>2, CallFacts DEF IInv, Stage, AcquireNext, Indices
        <4>2. <<t, next[t]>> \in Handles
          BY <4>1, CallFacts
        <4>3. QED  BY <3>2, <4>2 DEF AcquireNext, Acquire, Shared!Next
      <3>3. CASE UNCHANGED <<owners, phase>>
        BY <3>3
      <3>4. QED
        BY <2>1, <3>1, <3>2, <3>3
        DEF TestStep, CreateNamespace, WaitForCRDs, WaitForNext, RunStep, RunEnds, CleanUp, End
    <2>2. ASSUME NEW h \in Handles, Release(h[1], h[2])
          PROVE  Shared!Next
      <3>1. <<h[1], h[2]>> = h
        BY HandleFacts
      <3>2. QED  BY <2>2, <3>1 DEF Release, Shared!Next
    <2>3. ASSUME NEW k \in Keys, Install(k) \/ Remove(k)
          PROVE  Shared!Next \/ UNCHANGED <<owners, phase>>
      BY <2>3 DEF Install, CallSucceeds, CallFails, Finish, Remove, Shared!Next
    <2>4. CASE UNCHANGED vars
      BY <2>4 DEF vars
    <2>5. QED  BY <2>1, <2>2, <2>3, <2>4 DEF Next
  <1>3. QED  BY <1>1, <1>2, Invariance, PTL DEF Spec, UsesSharedResource, Shared!Spec
==============================================================================
