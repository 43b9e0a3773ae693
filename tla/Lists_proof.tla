----------------------------- MODULE Lists_proof -----------------------------
(***************************************************************************)
(* What the loops of Lists, and those of the community modules that the    *)
(* converters use, return for every slice.                                 *)
(*                                                                         *)
(* The induction these facts need is on a set of numbers (Induction), got  *)
(* from the well-foundedness of <, so that no lemma takes an operator.     *)
(***************************************************************************)
EXTENDS Lists, SequenceTheorems, WellFoundedInduction, NaturalsInduction, TLAPS

(* A set with 0 and every successor of a number of it has all numbers.     *)
LEMMA Induction ==
  ASSUME NEW S, 0 \in S, \A n \in Nat : n \in S => n + 1 \in S
  PROVE  Nat \subseteq S
<1> DEFINE T == Nat \ S
<1>1. CASE T # {}
  <2>1. PICK x \in T : \A y \in T : <<y, x>> \notin OpToRel(<, Nat)
    <3> HIDE DEF T
    <3>1. T \subseteq Nat
      BY DEF T
    <3>2. IsWellFoundedOn(OpToRel(<, Nat), Nat)
      BY NatLessThanWellFounded
    <3> QED
      BY <1>1, <3>1, <3>2, WFMin
  <2>2. x # 0 /\ x \in Nat
    OBVIOUS
  <2>3. x - 1 \in Nat /\ x - 1 < x
    BY <2>2
  <2>4. <<x - 1, x>> \in OpToRel(<, Nat)
    BY <2>2, <2>3 DEF OpToRel
  <2>5. x - 1 \in S
    BY <2>1, <2>3, <2>4
  <2>6. x \in S
    BY <2>3, <2>5
  <2> QED
    BY <2>6
<1> QED
  BY <1>1

(* The same up to a bound.                                                 *)
LEMMA BoundedInduction ==
  ASSUME NEW n \in Nat, NEW S, 0 \in S, \A i \in 0 .. n - 1 : i \in S => i + 1 \in S
  PROVE  0 .. n \subseteq S
<1> DEFINE T == {i \in Nat : i <= n => i \in S}
<1>1. 0 \in T
  OBVIOUS
<1>2. \A i \in Nat : i \in T => i + 1 \in T
  OBVIOUS
<1> HIDE DEF T
<1>3. Nat \subseteq T
  BY <1>1, <1>2, Induction
<1> QED
  BY <1>3 DEF T

(* A set of numbers up to a bound has a largest one.                       *)
LEMMA Largest ==
  ASSUME NEW n \in Nat, NEW S, S \subseteq 1 .. n, S # {}
  PROVE  \E i \in S : \A j \in S : j <= i
<1> DEFINE T == {m \in Nat : \A R \in SUBSET (1 .. m) : R # {} => \E i \in R : \A j \in R : j <= i}
<1>1. 0 \in T
  <2>1. 1 .. 0 = {}
    OBVIOUS
  <2> QED
    BY <2>1
<1>2. ASSUME NEW m \in Nat, m \in T PROVE m + 1 \in T
  <2>1. ASSUME NEW R \in SUBSET (1 .. m + 1), R # {} PROVE \E i \in R : \A j \in R : j <= i
    <3>1. CASE m + 1 \in R
      BY <3>1
    <3>2. CASE m + 1 \notin R
      <4>1. R \in SUBSET (1 .. m)
        BY <3>2
      <4> QED
        BY <1>2, <2>1, <4>1
    <3> QED
      BY <3>1, <3>2
  <2>2. m + 1 \in Nat
    OBVIOUS
  <2> QED
    BY <2>1, <2>2
<1> HIDE DEF T
<1>3. n \in T
  BY <1>1, <1>2, Induction
<1> QED
  BY <1>3 DEF T

(* What ToSet has.                                                         *)
LEMMA InToSet ==
  ASSUME NEW s, NEW e
  PROVE  e \in ToSet(s) <=> \E i \in DOMAIN s : s[i] = e
BY DEF ToSet

(* The index of the last element with a key.                               *)
LEMMA LastIsLast ==
  ASSUME NEW S, NEW keys \in Seq(S), NEW k, \E i \in DOMAIN keys : keys[i] = k
  PROVE  /\ LastOf(keys, k) \in DOMAIN keys
         /\ keys[LastOf(keys, k)] = k
         /\ \A j \in DOMAIN keys : keys[j] = k => j <= LastOf(keys, k)
<1> DEFINE R == {i \in DOMAIN keys : keys[i] = k}
<1>1. R \subseteq 1 .. Len(keys) /\ R # {} /\ Len(keys) \in Nat
  OBVIOUS
<1> HIDE DEF R
<1>2. \E i \in R : \A j \in R : j <= i
  BY <1>1, Largest
<1>3. \E i \in DOMAIN keys : keys[i] = k /\ \A j \in DOMAIN keys : keys[j] = k => j <= i
  BY <1>2 DEF R
<1> QED
  BY <1>3 DEF LastOf

(* The loop of Keep, as a function of the index it has come to.            *)
LEMMA KeepLoop ==
  ASSUME NEW X, NEW s \in Seq(X), NEW S
  PROVE  \E f : /\ Keep(s, S) = f[Len(s)]
                /\ f[0] = <<>>
                /\ \A i \in 1 .. Len(s) :
                     f[i] = IF s[i] \in S THEN Append(f[i - 1], s[i]) ELSE f[i - 1]
<1> DEFINE Step(f, i) == IF i = 0 THEN <<>>
                         ELSE IF s[i] \in S THEN Append(f[i - 1], s[i]) ELSE f[i - 1]
           Body(f, m) == [i \in 0 .. m |-> Step(f, i)]
           T == {m \in Nat : \E f : f = Body(f, m)}
<1>1. \A f, g, i : (i # 0 => f[i - 1] = g[i - 1]) => Step(f, i) = Step(g, i)
  OBVIOUS
<1>2. \A f : Step(f, 0) = <<>>
  OBVIOUS
<1> HIDE DEF Step
<1>3. 0 \in T
  <2> DEFINE f == [i \in 0 .. 0 |-> <<>>]
  <2>1. f = Body(f, 0)
    BY <1>2
  <2> QED
    BY <2>1
<1>4. ASSUME NEW m \in Nat, m \in T PROVE m + 1 \in T
  <2>1. PICK f : f = Body(f, m)
    BY <1>4
  <2>2. \A i \in 0 .. m : f[i] = Step(f, i)
    <3>1. \A i \in 0 .. m : Body(f, m)[i] = Step(f, i)
      OBVIOUS
    <3> HIDE DEF Body
    <3> QED
      BY <2>1, <3>1
  <2> DEFINE g == [i \in 0 .. m + 1 |-> IF i = m + 1 THEN Step(f, i) ELSE f[i]]
  <2>3. \A i \in 0 .. m + 1 : g[i] = Step(g, i)
    <3> SUFFICES ASSUME NEW i \in 0 .. m + 1 PROVE g[i] = Step(g, i)
      OBVIOUS
    <3>1. g[i] = Step(f, i)
      BY <2>2
    <3>2. i # 0 => f[i - 1] = g[i - 1]
      OBVIOUS
    <3> QED
      BY <1>1, <3>1, <3>2
  <2>4. g = Body(g, m + 1) /\ m + 1 \in Nat
    BY <2>3
  <2> QED
    BY <2>4
<1> HIDE DEF T
<1>5. \E f : f = Body(f, Len(s))
  <2>1. Len(s) \in T
    BY <1>3, <1>4, Induction
  <2> QED
    BY <2>1 DEF T
<1> DEFINE f == CHOOSE f : f = Body(f, Len(s))
<1>6. f = Body(f, Len(s))
  BY <1>5
<1>7. Keep(s, S) = f[Len(s)]
  BY DEF Keep, Step
<1> HIDE DEF f
<1>8. \A i \in 0 .. Len(s) : f[i] = Step(f, i)
  <2>1. \A i \in 0 .. Len(s) : Body(f, Len(s))[i] = Step(f, i)
    OBVIOUS
  <2> HIDE DEF Body
  <2> QED
    BY <1>6, <2>1
<1>9. /\ f[0] = <<>>
      /\ \A i \in 1 .. Len(s) :
           f[i] = IF s[i] \in S THEN Append(f[i - 1], s[i]) ELSE f[i - 1]
  BY <1>8 DEF Step
<1> QED
  BY <1>7, <1>9

(* Keep returns the elements it is to keep, and no other.                  *)
LEMMA KeepKeeps ==
  ASSUME NEW X, NEW s \in Seq(X), NEW S
  PROVE  /\ Keep(s, S) \in Seq(X)
         /\ ToSet(Keep(s, S)) = ToSet(s) \cap S
         /\ Len(Keep(s, S)) <= Len(s)
<1>1. PICK f : /\ Keep(s, S) = f[Len(s)]
               /\ f[0] = <<>>
               /\ \A i \in 1 .. Len(s) :
                    f[i] = IF s[i] \in S THEN Append(f[i - 1], s[i]) ELSE f[i - 1]
  BY KeepLoop
<1> DEFINE Holds(i) == /\ f[i] \in Seq(X)
                       /\ Len(f[i]) <= i
                       /\ \A e : (\E j \in DOMAIN f[i] : f[i][j] = e)
                                  <=> (\E j \in 1 .. i : s[j] = e) /\ e \in S
           T == {i \in Nat : i <= Len(s) => Holds(i)}
<1>2. 0 \in T
  <2>1. f[0] = <<>> /\ DOMAIN f[0] = {} /\ 1 .. 0 = {} /\ Len(f[0]) = 0 /\ f[0] \in Seq(X)
    BY <1>1
  <2>2. Holds(0)
    BY <2>1
  <2> QED
    BY <2>2
<1>3. ASSUME NEW i \in Nat, i \in T PROVE i + 1 \in T
  <2> SUFFICES ASSUME i + 1 <= Len(s) PROVE Holds(i + 1)
    <3> HIDE DEF Holds
    <3> QED
      OBVIOUS
  <2>1. Holds(i)
    BY <1>3
  <2>2. i + 1 \in 1 .. Len(s) /\ (i + 1) - 1 = i /\ s[i + 1] \in X
    OBVIOUS
  <2>3. f[i + 1] = IF s[i + 1] \in S THEN Append(f[i], s[i + 1]) ELSE f[i]
    BY <1>1, <2>2
  <2>4. 1 .. i + 1 = (1 .. i) \cup {i + 1}
    OBVIOUS
  <2>5. CASE s[i + 1] \in S
    <3> DEFINE t == f[i]
               x == s[i + 1]
    <3>1. t \in Seq(X) /\ x \in X /\ f[i + 1] = Append(t, x)
      BY <2>1, <2>2, <2>3, <2>5
    <3> HIDE DEF t, x
    <3>2. /\ f[i + 1] \in Seq(X) /\ Len(f[i + 1]) = Len(t) + 1
          /\ DOMAIN f[i + 1] = DOMAIN t \cup {Len(t) + 1}
          /\ f[i + 1][Len(t) + 1] = x
          /\ \A j \in DOMAIN t : f[i + 1][j] = t[j]
      BY <3>1
    <3>3. \A e : (\E j \in DOMAIN f[i + 1] : f[i + 1][j] = e) <=> (\E j \in DOMAIN t : t[j] = e) \/ e = x
      BY <3>2
    <3>4. \A e : (\E j \in 1 .. i + 1 : s[j] = e) <=> (\E j \in 1 .. i : s[j] = e) \/ e = x
      BY <2>4 DEF x
    <3>5. \A e : (\E j \in DOMAIN t : t[j] = e) <=> (\E j \in 1 .. i : s[j] = e) /\ e \in S
      BY <2>1 DEF t
    <3>6. x \in S
      BY <2>5 DEF x
    <3>7. Len(f[i + 1]) <= i + 1
      BY <2>1, <3>2 DEF t
    <3> QED
      BY <3>2, <3>3, <3>4, <3>5, <3>6, <3>7
  <2>6. CASE s[i + 1] \notin S
    <3>1. f[i + 1] = f[i] /\ Len(f[i]) \in Nat
      BY <2>1, <2>3, <2>6
    <3>2. \A e : (\E j \in 1 .. i + 1 : s[j] = e) /\ e \in S <=> (\E j \in 1 .. i : s[j] = e) /\ e \in S
      BY <2>4, <2>6
    <3> QED
      BY <2>1, <3>1, <3>2
  <2> QED
    BY <2>5, <2>6
<1> HIDE DEF T
<1>4. Len(s) \in T
  BY <1>2, <1>3, Induction
<1>5. Holds(Len(s))
  BY <1>4 DEF T
<1>6. ToSet(Keep(s, S)) = ToSet(s) \cap S
  <2>1. \A e : e \in ToSet(Keep(s, S)) <=> e \in ToSet(s) /\ e \in S
    <3>1. \A e : e \in ToSet(Keep(s, S)) <=> \E j \in DOMAIN f[Len(s)] : f[Len(s)][j] = e
      BY <1>1, InToSet
    <3>2. \A e : e \in ToSet(s) <=> \E j \in 1 .. Len(s) : s[j] = e
      BY InToSet
    <3> QED
      BY <1>5, <3>1, <3>2
  <2> QED
    BY <2>1
<1> QED
  BY <1>1, <1>5, <1>6

(* The elements of two sequences in a row.                                 *)
LEMMA ConcatHolds ==
  ASSUME NEW X, NEW s \in Seq(X), NEW t \in Seq(X)
  PROVE  s \o t \in Seq(X) /\ ToSet(s \o t) = ToSet(s) \cup ToSet(t)
<1> DEFINE u == s \o t
<1>1. u \in Seq(X) /\ Len(u) = Len(s) + Len(t)
  OBVIOUS
<1>2. \A i \in DOMAIN s : i \in DOMAIN u /\ u[i] = s[i]
  OBVIOUS
<1>3. \A i \in DOMAIN t : i + Len(s) \in DOMAIN u /\ u[i + Len(s)] = t[i]
  OBVIOUS
<1>4. \A i \in DOMAIN u : i \in DOMAIN s \/ (i - Len(s) \in DOMAIN t /\ u[i] = t[i - Len(s)])
  OBVIOUS
<1> HIDE DEF u
<1>5. \A e : e \in ToSet(u) <=> e \in ToSet(s) \/ e \in ToSet(t)
  BY <1>2, <1>3, <1>4, InToSet
<1> QED
  BY <1>1, <1>5 DEF u

(* The loop of FlattenSeq, as a function of the index it has come to.      *)
LEMMA FlattenLoop ==
  ASSUME NEW s, Len(s) \in Nat
  PROVE  \E f : /\ FlattenSeq(s) = IF Len(s) = 0 THEN s ELSE f[Len(s)]
                /\ \A i \in 1 .. Len(s) : f[i] = IF i = 1 THEN s[i] ELSE f[i - 1] \o s[i]
<1> DEFINE Step(f, i) == IF i = 1 THEN s[i] ELSE f[i - 1] \o s[i]
           Body(f, m) == [i \in 1 .. m |-> Step(f, i)]
           T == {m \in Nat : \E f : f = Body(f, m)}
<1>1. \A f, g, i : (i # 1 => f[i - 1] = g[i - 1]) => Step(f, i) = Step(g, i)
  OBVIOUS
<1> HIDE DEF Step
<1>2. 0 \in T
  <2> DEFINE f == [i \in 1 .. 0 |-> <<>>]
  <2>1. f = Body(f, 0)
    OBVIOUS
  <2> QED
    BY <2>1
<1>3. ASSUME NEW m \in Nat, m \in T PROVE m + 1 \in T
  <2>1. PICK f : f = Body(f, m)
    BY <1>3
  <2>2. \A i \in 1 .. m : f[i] = Step(f, i)
    <3>1. \A i \in 1 .. m : Body(f, m)[i] = Step(f, i)
      OBVIOUS
    <3> HIDE DEF Body
    <3> QED
      BY <2>1, <3>1
  <2> DEFINE g == [i \in 1 .. m + 1 |-> IF i = m + 1 THEN Step(f, i) ELSE f[i]]
  <2>3. \A i \in 1 .. m + 1 : g[i] = Step(g, i)
    <3> SUFFICES ASSUME NEW i \in 1 .. m + 1 PROVE g[i] = Step(g, i)
      OBVIOUS
    <3>1. g[i] = Step(f, i)
      BY <2>2
    <3>2. i # 1 => f[i - 1] = g[i - 1]
      OBVIOUS
    <3> QED
      BY <1>1, <3>1, <3>2
  <2>4. g = Body(g, m + 1) /\ m + 1 \in Nat
    BY <2>3
  <2> QED
    BY <2>4
<1> HIDE DEF T
<1>4. \E f : f = Body(f, Len(s))
  <2>1. Len(s) \in T
    BY <1>2, <1>3, Induction
  <2> QED
    BY <2>1 DEF T
<1> DEFINE f == CHOOSE f : f = Body(f, Len(s))
<1>5. f = Body(f, Len(s))
  BY <1>4
<1>6. FlattenSeq(s) = IF Len(s) = 0 THEN s ELSE f[Len(s)]
  BY DEF FlattenSeq, Step
<1> HIDE DEF f
<1>7. \A i \in 1 .. Len(s) : f[i] = IF i = 1 THEN s[i] ELSE f[i - 1] \o s[i]
  <2>1. \A i \in 1 .. Len(s) : Body(f, Len(s))[i] = Step(f, i)
    OBVIOUS
  <2> HIDE DEF Body
  <2>2. \A i \in 1 .. Len(s) : f[i] = Step(f, i)
    BY <1>5, <2>1
  <2> QED
    BY <2>2 DEF Step
<1> QED
  BY <1>6, <1>7

(* A list of lists in a row holds what the lists hold.                     *)
LEMMA FlattenHolds ==
  ASSUME NEW X, NEW s \in Seq(Seq(X))
  PROVE  /\ FlattenSeq(s) \in Seq(X)
         /\ ToSet(FlattenSeq(s)) = UNION {ToSet(s[i]) : i \in DOMAIN s}
<1> PICK f : /\ FlattenSeq(s) = IF Len(s) = 0 THEN s ELSE f[Len(s)]
             /\ \A i \in 1 .. Len(s) : f[i] = IF i = 1 THEN s[i] ELSE f[i - 1] \o s[i]
  BY FlattenLoop
<1>6. FlattenSeq(s) = IF Len(s) = 0 THEN s ELSE f[Len(s)]
  OBVIOUS
<1>7. \A i \in 1 .. Len(s) : f[i] = IF i = 1 THEN s[i] ELSE f[i - 1] \o s[i]
  OBVIOUS
<1> DEFINE Holds(i) == /\ f[i] \in Seq(X)
                       /\ \A e : e \in ToSet(f[i]) <=> \E j \in 1 .. i : e \in ToSet(s[j])
           R == {i \in Nat : i \in 1 .. Len(s) => Holds(i)}
<1> HIDE DEF Holds
<1>8. 0 \in R
  OBVIOUS
<1>9. ASSUME NEW i \in Nat, i \in R PROVE i + 1 \in R
  <2> SUFFICES ASSUME i + 1 \in 1 .. Len(s) PROVE Holds(i + 1)
    OBVIOUS
  <2>1. s[i + 1] \in Seq(X)
    OBVIOUS
  <2> USE DEF Holds
  <2>2. CASE i = 0
    <3>1. f[i + 1] = s[i + 1]
      BY <1>7, <2>2
    <3>2. f[i + 1] \in Seq(X)
      BY <2>1, <3>1
    <3>3. 1 .. i + 1 = {i + 1}
      BY <2>2
    <3>4. \A e : e \in ToSet(f[i + 1]) <=> \E j \in 1 .. i + 1 : e \in ToSet(s[j])
      BY <3>1, <3>3
    <3> QED
      BY <3>2, <3>4
  <2>3. CASE i # 0
    <3>1. f[i + 1] = f[i] \o s[i + 1]
      <4>1. (i + 1) - 1 = i /\ i + 1 # 1
        BY <2>3
      <4> QED
        BY <1>7, <4>1
    <3>2. Holds(i)
      <4> HIDE DEF Holds
      <4>1. i \in 1 .. Len(s)
        BY <2>3
      <4> QED
        BY <1>9, <4>1
    <3>3. f[i + 1] \in Seq(X) /\ ToSet(f[i + 1]) = ToSet(f[i]) \cup ToSet(s[i + 1])
      BY <2>1, <3>1, <3>2, ConcatHolds
    <3>4. 1 .. i + 1 = (1 .. i) \cup {i + 1}
      OBVIOUS
    <3>5. \A e : e \in ToSet(f[i + 1]) <=> \E j \in 1 .. i + 1 : e \in ToSet(s[j])
      BY <3>2, <3>3, <3>4
    <3> QED
      BY <3>3, <3>5
  <2> QED
    BY <2>2, <2>3
<1> HIDE DEF R
<1>10. Nat \subseteq R
  BY <1>8, <1>9, Induction
<1>11. CASE Len(s) = 0
  <2>1. s = <<>> /\ FlattenSeq(s) = <<>> /\ DOMAIN s = {}
    BY <1>6, <1>11
  <2>2. ToSet(FlattenSeq(s)) = {}
    BY <2>1 DEF ToSet
  <2>3. UNION {ToSet(s[i]) : i \in DOMAIN s} = {}
    BY <2>1
  <2>4. FlattenSeq(s) \in Seq(X)
    <3>1. <<>> \in Seq(X)
      OBVIOUS
    <3> HIDE <1>11
    <3> QED
      BY <2>1, <3>1
  <2> QED
    BY <2>2, <2>3, <2>4
<1>12. CASE Len(s) # 0
  <2>1. Len(s) \in Nat /\ Len(s) \in 1 .. Len(s) /\ FlattenSeq(s) = f[Len(s)]
    BY <1>6, <1>12
  <2>2. Holds(Len(s))
    BY <1>10, <2>1 DEF R
  <2>3. \A e : e \in ToSet(FlattenSeq(s)) <=> \E j \in DOMAIN s : e \in ToSet(s[j])
    <3>1. DOMAIN s = 1 .. Len(s)
      OBVIOUS
    <3> QED
      BY <2>1, <2>2, <3>1 DEF Holds
  <2>4. ToSet(FlattenSeq(s)) = UNION {ToSet(s[i]) : i \in DOMAIN s}
    BY <2>3
  <2> QED
    BY <2>1, <2>2, <2>4 DEF Holds
<1> QED
  BY <1>11, <1>12

-----------------------------------------------------------------------------
(* Facts in terms of IsList, for slices whose elements have no named type. *)

(* A sequence is a list of its own elements.                               *)
LEMMA SeqIsList ==
  ASSUME NEW X, NEW s \in Seq(X)
  PROVE  IsList(s) /\ ToSet(s) \subseteq X
<1>1. ToSet(s) \subseteq X
  BY DEF ToSet
<1>2. s \in Seq(ToSet(s))
  BY DEF ToSet
<1> QED
  BY <1>1, <1>2 DEF IsList

(* The domain of a list, and when it is empty.                             *)
LEMMA ListShape ==
  ASSUME NEW s, IsList(s)
  PROVE  /\ s \in Seq(ToSet(s))
         /\ Len(s) \in Nat
         /\ DOMAIN s = 1 .. Len(s)
         /\ s = <<>> <=> ToSet(s) = {}
         /\ s = <<>> <=> DOMAIN s = {}
<1>1. s \in Seq(ToSet(s))
  BY DEF IsList
<1>2. Len(s) \in Nat /\ DOMAIN s = 1 .. Len(s)
  BY <1>1
<1>3. s = <<>> <=> DOMAIN s = {}
  BY <1>1
<1>4. ToSet(s) = {} <=> DOMAIN s = {}
  BY DEF ToSet
<1> QED
  BY <1>1, <1>2, <1>3, <1>4

(* A function with a list's domain is a list.                              *)
LEMMA MadeList ==
  ASSUME NEW s, IsList(s), NEW X, NEW f \in [DOMAIN s -> X]
  PROVE  /\ IsList(f)
         /\ f \in Seq(X)
         /\ DOMAIN f = DOMAIN s
         /\ f = <<>> <=> s = <<>>
<1>1. Len(s) \in Nat /\ DOMAIN s = 1 .. Len(s)
  BY ListShape
<1>2. f \in Seq(X)
  BY <1>1
<1>3. DOMAIN f = DOMAIN s
  OBVIOUS
<1>4. IsList(f)
  BY <1>2, SeqIsList
<1>5. f = <<>> <=> s = <<>>
  BY <1>3, <1>4, ListShape
<1> QED
  BY <1>2, <1>3, <1>4, <1>5

(* What Keep leaves of a list.                                             *)
LEMMA KeepList ==
  ASSUME NEW s, IsList(s), NEW S
  PROVE  /\ IsList(Keep(s, S))
         /\ ToSet(Keep(s, S)) = ToSet(s) \cap S
         /\ Keep(s, S) = <<>> <=> ToSet(s) \cap S = {}
<1>1. s \in Seq(ToSet(s))
  BY ListShape
<1>2. Keep(s, S) \in Seq(ToSet(s)) /\ ToSet(Keep(s, S)) = ToSet(s) \cap S
  BY <1>1, KeepKeeps
<1>3. IsList(Keep(s, S))
  BY <1>2, SeqIsList
<1> QED
  BY <1>2, <1>3, ListShape

(* What appending an element adds.                                         *)
LEMMA AppendHolds ==
  ASSUME NEW X, NEW s \in Seq(X), NEW e \in X
  PROVE  Append(s, e) \in Seq(X) /\ ToSet(Append(s, e)) = ToSet(s) \cup {e}
<1> DEFINE u == Append(s, e)
<1>1. u \in Seq(X) /\ Len(u) = Len(s) + 1 /\ u[Len(s) + 1] = e
  OBVIOUS
<1>2. \A i \in DOMAIN s : i \in DOMAIN u /\ u[i] = s[i]
  OBVIOUS
<1>3. \A i \in DOMAIN u : i \in DOMAIN s \/ i = Len(s) + 1
  OBVIOUS
<1>4. Len(s) + 1 \in DOMAIN u
  OBVIOUS
<1> HIDE DEF u
<1>5. \A x : x \in ToSet(u) <=> x \in ToSet(s) \/ x = e
  BY <1>1, <1>2, <1>3, <1>4, InToSet
<1>6. ToSet(u) = ToSet(s) \cup {e}
  BY <1>5
<1> QED
  BY <1>1, <1>6 DEF u

(* "for _, x := range s { m[key(x)] = x }"                                 *)
LEMMA LastStays ==
  ASSUME NEW keys, IsList(keys), NEW k \in ToSet(keys)
  PROVE  LastOf(keys, k) \in DOMAIN keys /\ keys[LastOf(keys, k)] = k
<1>1. keys \in Seq(ToSet(keys))
  BY ListShape
<1>2. \E i \in DOMAIN keys : keys[i] = k
  BY InToSet
<1> QED
  BY <1>1, <1>2, LastIsLast

(* The slices a literal makes.                                             *)
LEMMA LiteralHolds ==
  ASSUME NEW X, NEW e \in X
  PROVE  /\ <<>> \in Seq(X) /\ <<e>> \in Seq(X)
         /\ ToSet(<<>>) = {} /\ ToSet(<<e>>) = {e}
<1>1. <<>> \in Seq(X) /\ <<e>> \in Seq(X)
  OBVIOUS
<1>2. ToSet(<<>>) = {}
  BY DEF ToSet
<1>3. ToSet(<<e>>) = {e}
  BY DEF ToSet
<1> QED
  BY <1>1, <1>2, <1>3

(* The empty slice.                                                        *)
LEMMA EmptyList == IsList(<<>>) /\ ToSet(<<>>) = {}
<1>1. <<>> \in Seq({}) /\ ToSet(<<>>) = {}
  BY LiteralHolds DEF ToSet
<1> QED
  BY <1>1, SeqIsList

(* The loop of Firsts, as a function of the index it has come to.          *)
LEMMA FirstsLoop ==
  ASSUME NEW X, NEW s \in Seq(X)
  PROVE  \E f : /\ Firsts(s) = f[Len(s)]
                /\ f[0] = <<>>
                /\ \A i \in 1 .. Len(s) :
                     f[i] = IF s[i] \in ToSet(f[i - 1]) THEN f[i - 1] ELSE Append(f[i - 1], s[i])
<1> DEFINE Step(f, i) == IF i = 0 THEN <<>>
                         ELSE IF s[i] \in ToSet(f[i - 1]) THEN f[i - 1] ELSE Append(f[i - 1], s[i])
           Body(f, m) == [i \in 0 .. m |-> Step(f, i)]
           T == {m \in Nat : \E f : f = Body(f, m)}
<1>1. \A f, g, i : (i # 0 => f[i - 1] = g[i - 1]) => Step(f, i) = Step(g, i)
  OBVIOUS
<1>2. \A f : Step(f, 0) = <<>>
  OBVIOUS
<1> HIDE DEF Step
<1>3. 0 \in T
  <2> DEFINE f == [i \in 0 .. 0 |-> <<>>]
  <2>1. f = Body(f, 0)
    BY <1>2
  <2> QED
    BY <2>1
<1>4. ASSUME NEW m \in Nat, m \in T PROVE m + 1 \in T
  <2>1. PICK f : f = Body(f, m)
    BY <1>4
  <2>2. \A i \in 0 .. m : f[i] = Step(f, i)
    <3>1. \A i \in 0 .. m : Body(f, m)[i] = Step(f, i)
      OBVIOUS
    <3> HIDE DEF Body
    <3> QED
      BY <2>1, <3>1
  <2> DEFINE g == [i \in 0 .. m + 1 |-> IF i = m + 1 THEN Step(f, i) ELSE f[i]]
  <2>3. \A i \in 0 .. m + 1 : g[i] = Step(g, i)
    <3> SUFFICES ASSUME NEW i \in 0 .. m + 1 PROVE g[i] = Step(g, i)
      OBVIOUS
    <3>1. g[i] = Step(f, i)
      BY <2>2
    <3>2. i # 0 => f[i - 1] = g[i - 1]
      OBVIOUS
    <3> QED
      BY <1>1, <3>1, <3>2
  <2>4. g = Body(g, m + 1) /\ m + 1 \in Nat
    BY <2>3
  <2> QED
    BY <2>4
<1> HIDE DEF T
<1>5. \E f : f = Body(f, Len(s))
  <2>1. Len(s) \in T
    BY <1>3, <1>4, Induction
  <2> QED
    BY <2>1 DEF T
<1> DEFINE f == CHOOSE f : f = Body(f, Len(s))
<1>6. f = Body(f, Len(s))
  BY <1>5
<1>7. Firsts(s) = f[Len(s)]
  BY DEF Firsts, Step
<1> HIDE DEF f
<1>8. \A i \in 0 .. Len(s) : f[i] = Step(f, i)
  <2>1. \A i \in 0 .. Len(s) : Body(f, Len(s))[i] = Step(f, i)
    OBVIOUS
  <2> HIDE DEF Body
  <2> QED
    BY <1>6, <2>1
<1>9. /\ f[0] = <<>>
      /\ \A i \in 1 .. Len(s) :
           f[i] = IF s[i] \in ToSet(f[i - 1]) THEN f[i - 1] ELSE Append(f[i - 1], s[i])
  BY <1>8 DEF Step
<1> QED
  BY <1>7, <1>9

(* Firsts returns every element.                                           *)
LEMMA FirstsHold ==
  ASSUME NEW s, IsList(s)
  PROVE  IsList(Firsts(s)) /\ ToSet(Firsts(s)) = ToSet(s)
<1>1. s \in Seq(ToSet(s)) /\ Len(s) \in Nat /\ DOMAIN s = 1 .. Len(s)
  BY ListShape
<1>2. PICK f : /\ Firsts(s) = f[Len(s)]
               /\ f[0] = <<>>
               /\ \A i \in 1 .. Len(s) :
                    f[i] = IF s[i] \in ToSet(f[i - 1]) THEN f[i - 1] ELSE Append(f[i - 1], s[i])
  BY <1>1, FirstsLoop
<1> DEFINE X == ToSet(s)
           Holds(i) == f[i] \in Seq(X) /\ \A j \in 1 .. i : s[j] \in ToSet(f[i])
           T == {i \in Nat : i <= Len(s) => Holds(i)}
<1>3. Holds(0)
  BY <1>2, LiteralHolds
<1>4. ASSUME NEW i \in Nat, i + 1 <= Len(s), Holds(i) PROVE Holds(i + 1)
  <2>1. i + 1 \in 1 .. Len(s) /\ (i + 1) - 1 = i
    BY <1>1, <1>4
  <2> DEFINE t == f[i]
             u == f[i + 1]
             x == s[i + 1]
  <2>2. u = IF x \in ToSet(t) THEN t ELSE Append(t, x)
    BY <1>2, <2>1
  <2>3. x \in X
    BY <1>1, <2>1, InToSet
  <2>4. t \in Seq(X)
    BY <1>4
  <2>5. \A j \in 1 .. i : s[j] \in ToSet(t)
    BY <1>4
  <2>6. 1 .. i + 1 = (1 .. i) \cup {i + 1}
    OBVIOUS
  <2> HIDE DEF t, u, X
  <2>7. u \in Seq(X) /\ ToSet(t) \subseteq ToSet(u) /\ x \in ToSet(u)
    BY <2>2, <2>3, <2>4, AppendHolds
  <2>8. \A j \in 1 .. i + 1 : s[j] \in ToSet(u)
    BY <2>5, <2>6, <2>7 DEF x
  <2> QED
    BY <2>7, <2>8 DEF u
<1> HIDE DEF Holds
<1>5. 0 \in T
  BY <1>3
<1>6. ASSUME NEW i \in Nat, i \in T PROVE i + 1 \in T
  BY <1>1, <1>4, <1>6
<1> HIDE DEF T
<1>7. Len(s) \in T
  BY <1>1, <1>5, <1>6, Induction
<1>8. Holds(Len(s))
  BY <1>1, <1>7 DEF T
<1>9. Firsts(s) \in Seq(ToSet(s)) /\ \A j \in 1 .. Len(s) : s[j] \in ToSet(Firsts(s))
  BY <1>2, <1>8 DEF Holds
<1>10. ToSet(s) \subseteq ToSet(Firsts(s))
  BY <1>1, <1>9, InToSet
<1>11. IsList(Firsts(s)) /\ ToSet(Firsts(s)) \subseteq ToSet(s)
  BY <1>9, SeqIsList
<1> QED
  BY <1>10, <1>11

-----------------------------------------------------------------------------
(* Slices that are kept side by side.                                      *)

(* Two slices of one length, and what stands at an index is in P.          *)
Together(s, t, P) ==
  /\ IsList(s) /\ IsList(t) /\ DOMAIN s = DOMAIN t
  /\ \A i \in DOMAIN s : <<s[i], t[i]>> \in P

(* Slices with the same indexes have the same length.                      *)
LEMMA SameLength ==
  ASSUME NEW s, IsList(s), NEW t, IsList(t), DOMAIN s = DOMAIN t
  PROVE  Len(s) = Len(t)
<1>1. Len(s) \in Nat /\ Len(t) \in Nat /\ DOMAIN s = 1 .. Len(s) /\ DOMAIN t = 1 .. Len(t)
  BY ListShape
<1>2. \A i : i \in 1 .. Len(s) <=> i \in 1 .. Len(t)
  <2>1. \A i : i \in DOMAIN s <=> i \in DOMAIN t
    OBVIOUS
  <2> QED
    BY <1>1, <2>1
<1>3. Len(s) <= Len(t) /\ Len(t) <= Len(s)
  <2>1. \A m \in Nat : m = 0 \/ m \in 1 .. m
    OBVIOUS
  <2> QED
    BY <1>1, <1>2, <2>1
<1>4. \A m, n \in Nat : m <= n /\ n <= m => m = n
  OBVIOUS
<1> QED
  BY <1>1, <1>3, <1>4

(* Appending slices to both.                                               *)
LEMMA TogetherConcat ==
  ASSUME NEW P, NEW s, NEW t, Together(s, t, P), NEW u, NEW v, Together(u, v, P)
  PROVE  Together(s \o u, t \o v, P)
<1> DEFINE X == ToSet(s) \cup ToSet(u)
           Y == ToSet(t) \cup ToSet(v)
<1>1. s \in Seq(X) /\ u \in Seq(X) /\ t \in Seq(Y) /\ v \in Seq(Y)
  <2>1. IsList(s) /\ IsList(u) /\ IsList(t) /\ IsList(v)
    BY DEF Together
  <2>2. s \in Seq(ToSet(s)) /\ u \in Seq(ToSet(u)) /\ t \in Seq(ToSet(t)) /\ v \in Seq(ToSet(v))
    BY <2>1, ListShape
  <2> QED
    BY <2>2
<1> HIDE DEF X, Y
<1>2. IsList(s \o u) /\ IsList(t \o v)
  BY <1>1, ConcatHolds, SeqIsList
<1>3. Len(s) = Len(t) /\ Len(u) = Len(v)
  BY SameLength DEF Together
<1>4. DOMAIN (s \o u) = 1 .. Len(s) + Len(u) /\ DOMAIN (t \o v) = 1 .. Len(s) + Len(u)
  BY <1>1, <1>3
<1>5. ASSUME NEW i \in 1 .. Len(s) + Len(u) PROVE <<(s \o u)[i], (t \o v)[i]>> \in P
  <2>1. CASE i \in DOMAIN s
    <3>1. (s \o u)[i] = s[i] /\ (t \o v)[i] = t[i]
      BY <1>1, <1>3, <2>1
    <3> QED
      BY <2>1, <3>1 DEF Together
  <2>2. CASE i \notin DOMAIN s
    <3>1. i - Len(s) \in DOMAIN u
      BY <1>1, <2>2
    <3>2. (s \o u)[i] = u[i - Len(s)] /\ (t \o v)[i] = v[i - Len(s)]
      BY <1>1, <1>3, <2>2
    <3> QED
      BY <3>1, <3>2 DEF Together
  <2> QED
    BY <2>1, <2>2
<1> QED
  BY <1>2, <1>4, <1>5 DEF Together

(* The same list of lists of slices in a row.                              *)
LEMMA TogetherFlatten ==
  ASSUME NEW P, NEW s, IsList(s), NEW t, IsList(t), DOMAIN s = DOMAIN t,
         \A i \in DOMAIN s : Together(s[i], t[i], P)
  PROVE  Together(FlattenSeq(s), FlattenSeq(t), P)
<1>1. Len(s) \in Nat /\ DOMAIN s = 1 .. Len(s) /\ Len(t) \in Nat /\ DOMAIN t = 1 .. Len(t)
  BY ListShape
<1>2. Len(t) = Len(s)
  BY SameLength
<1>3. PICK f : /\ FlattenSeq(s) = IF Len(s) = 0 THEN s ELSE f[Len(s)]
               /\ \A i \in 1 .. Len(s) : f[i] = IF i = 1 THEN s[i] ELSE f[i - 1] \o s[i]
  BY <1>1, FlattenLoop
<1>4. PICK g : /\ FlattenSeq(t) = IF Len(t) = 0 THEN t ELSE g[Len(t)]
               /\ \A i \in 1 .. Len(t) : g[i] = IF i = 1 THEN t[i] ELSE g[i - 1] \o t[i]
  BY <1>1, FlattenLoop
<1> DEFINE R == {i \in Nat : i \in 1 .. Len(s) => Together(f[i], g[i], P)}
<1>5. 0 \in R
  OBVIOUS
<1>6. ASSUME NEW i \in Nat, i \in R PROVE i + 1 \in R
  <2> SUFFICES ASSUME i + 1 \in 1 .. Len(s) PROVE Together(f[i + 1], g[i + 1], P)
    OBVIOUS
  <2>1. Together(s[i + 1], t[i + 1], P)
    BY <1>1
  <2>2. CASE i = 0
    <3>1. f[i + 1] = s[i + 1] /\ g[i + 1] = t[i + 1]
      BY <1>2, <1>3, <1>4, <2>2
    <3> QED
      BY <2>1, <3>1
  <2>3. CASE i # 0
    <3>1. (i + 1) - 1 = i /\ i + 1 # 1 /\ i \in 1 .. Len(s)
      BY <1>1, <2>3
    <3>2. f[i + 1] = f[i] \o s[i + 1] /\ g[i + 1] = g[i] \o t[i + 1]
      BY <1>2, <1>3, <1>4, <3>1
    <3>3. Together(f[i], g[i], P)
      BY <1>6, <3>1
    <3> QED
      BY <2>1, <3>2, <3>3, TogetherConcat
  <2> QED
    BY <2>2, <2>3
<1> HIDE DEF R
<1>7. Nat \subseteq R
  BY <1>5, <1>6, Induction
<1>8. CASE Len(s) = 0
  <2>1. s = <<>> /\ t = <<>> /\ FlattenSeq(s) = s /\ FlattenSeq(t) = t
    <3>1. DOMAIN s = {} /\ DOMAIN t = {}
      BY <1>1, <1>2, <1>8
    <3>2. s = <<>> /\ t = <<>>
      BY <3>1, ListShape
    <3> QED
      BY <1>2, <1>3, <1>4, <1>8, <3>2
  <2>2. DOMAIN s = {}
    BY <1>1, <1>8
  <2> QED
    BY <2>1, <2>2 DEF Together
<1>9. CASE Len(s) # 0
  <2>1. Len(s) \in 1 .. Len(s) /\ FlattenSeq(s) = f[Len(s)] /\ FlattenSeq(t) = g[Len(s)]
    BY <1>1, <1>2, <1>3, <1>4, <1>9
  <2> QED
    BY <1>1, <1>7, <2>1 DEF R
<1> QED
  BY <1>8, <1>9

-----------------------------------------------------------------------------
(* A set of numbers from 1 on has a smallest one.                          *)
LEMMA Smallest ==
  ASSUME NEW n \in Nat, NEW S, S \subseteq 1 .. n, S # {}
  PROVE  \E i \in S : \A j \in S : i <= j
<1> DEFINE T == {n + 1 - i : i \in S}
<1>1. T \subseteq 1 .. n /\ \A i \in S : n + 1 - i \in T
  <2>1. \A i \in S : i \in 1 .. n
    OBVIOUS
  <2>2. \A i \in 1 .. n : n + 1 - i \in 1 .. n
    OBVIOUS
  <2> QED
    BY <2>1, <2>2
<1>2. \A m \in T : \E i \in S : m = n + 1 - i
  OBVIOUS
<1> HIDE DEF T
<1>3. PICK m \in T : \A j \in T : j <= m
  <2>1. T # {}
    BY <1>1
  <2> QED
    BY <1>1, <2>1, Largest
<1>4. PICK i \in S : m = n + 1 - i
  BY <1>2
<1>5. ASSUME NEW j \in S PROVE i <= j
  <2>1. n + 1 - j <= n + 1 - i
    BY <1>1, <1>3, <1>4
  <2> QED
    BY <2>1
<1> QED
  BY <1>5

(* A slice without one of its elements.                                    *)
LEMMA RemoveAtHolds ==
  ASSUME NEW s, IsList(s), NEW n \in DOMAIN s, NEW t, t = RemoveAt(s, n)
  PROVE  /\ IsList(t)
         /\ DOMAIN t = 1 .. Len(s) - 1
         /\ \A i \in DOMAIN t : t[i] = IF i < n THEN s[i] ELSE s[i + 1]
<1> DEFINE X == ToSet(s)
           a == SubSeq(s, 1, n - 1)
           b == SubSeq(s, n + 1, Len(s))
<1>1. s \in Seq(X) /\ Len(s) \in Nat /\ n \in 1 .. Len(s)
  BY ListShape
<1> HIDE DEF X
<1>2. a \in Seq(X) /\ Len(a) = n - 1 /\ \A i \in 1 .. n - 1 : a[i] = s[i]
  BY <1>1
<1>3. b \in Seq(X) /\ Len(b) = Len(s) - n /\ \A i \in 1 .. Len(s) - n : b[i] = s[i + n]
  BY <1>1
<1>4. t = a \o b
  BY DEF RemoveAt
<1> HIDE DEF a, b
<1>5. t \in Seq(X) /\ Len(t) = Len(s) - 1
  BY <1>1, <1>2, <1>3, <1>4
<1>6. ASSUME NEW i \in 1 .. Len(s) - 1 PROVE t[i] = IF i < n THEN s[i] ELSE s[i + 1]
  <2>1. CASE i < n
    BY <1>1, <1>2, <1>3, <1>4, <2>1
  <2>2. CASE ~(i < n)
    <3>1. t[i] = b[i - (n - 1)] /\ i - (n - 1) \in 1 .. Len(s) - n
      BY <1>1, <1>2, <1>3, <1>4, <2>2
    <3>2. (i - (n - 1)) + n = i + 1
      BY <1>1
    <3> QED
      BY <1>3, <2>2, <3>1, <3>2
  <2> QED
    BY <2>1, <2>2
<1> QED
  BY <1>5, <1>6, SeqIsList

(* "for i := range s { if cond { kept = append(kept, i) } }"               *)
LEMMA PositionsKept ==
  ASSUME NEW s, IsList(s), NEW S, S \subseteq DOMAIN s
  PROVE  /\ IsList(Keep(Positions(s), S))
         /\ ToSet(Keep(Positions(s), S)) = S
         /\ Keep(Positions(s), S) = <<>> <=> S = {}
<1>1. Positions(s) \in [DOMAIN s -> DOMAIN s] /\ \A i \in DOMAIN s : Positions(s)[i] = i
  BY DEF Positions
<1>2. IsList(Positions(s)) /\ DOMAIN Positions(s) = DOMAIN s
  BY <1>1, MadeList
<1>3. ToSet(Positions(s)) = DOMAIN s
  BY <1>1, <1>2 DEF ToSet
<1> QED
  BY <1>2, <1>3, KeepList

(* Keeping everything changes nothing.                                     *)
LEMMA KeepAll ==
  ASSUME NEW s, IsList(s), NEW S, ToSet(s) \subseteq S
  PROVE  Keep(s, S) = s
<1> PICK X : X = ToSet(s)
  OBVIOUS
<1>1. s \in Seq(X) /\ Len(s) \in Nat /\ DOMAIN s = 1 .. Len(s)
  BY ListShape
<1>2. PICK f : /\ Keep(s, S) = f[Len(s)]
               /\ f[0] = <<>>
               /\ \A i \in 1 .. Len(s) :
                    f[i] = IF s[i] \in S THEN Append(f[i - 1], s[i]) ELSE f[i - 1]
  BY <1>1, KeepLoop
<1>3. \A i \in 1 .. Len(s) : s[i] \in S /\ s[i] \in X
  BY <1>1, InToSet
<1> DEFINE Holds(i) == /\ f[i] \in Seq(X) /\ Len(f[i]) = i
                       /\ \A j \in 1 .. i : f[i][j] = s[j]
           T == {i \in Nat : i <= Len(s) => Holds(i)}
<1>4. 0 \in T
  <2>1. f[0] = <<>> /\ 1 .. 0 = {} /\ Len(f[0]) = 0 /\ f[0] \in Seq(X)
    BY <1>2
  <2> QED
    BY <2>1
<1>5. ASSUME NEW i \in Nat, i \in T PROVE i + 1 \in T
  <2> SUFFICES ASSUME i + 1 <= Len(s) PROVE Holds(i + 1)
    OBVIOUS
  <2> PICK t : t = f[i]
    OBVIOUS
  <2> PICK x : x = s[i + 1]
    OBVIOUS
  <2>1. t \in Seq(X) /\ Len(t) = i /\ \A j \in 1 .. i : t[j] = s[j]
    BY <1>1, <1>5
  <2>2. i + 1 \in 1 .. Len(s) /\ (i + 1) - 1 = i
    BY <1>1
  <2>3. f[i + 1] = Append(t, x) /\ x \in X
    BY <1>2, <1>3, <2>2
  <2>4. /\ f[i + 1] \in Seq(X) /\ Len(f[i + 1]) = i + 1 /\ f[i + 1][i + 1] = x
        /\ \A j \in 1 .. i : f[i + 1][j] = t[j]
    BY <2>1, <2>3
  <2>5. \A j \in 1 .. i + 1 : j \in 1 .. i \/ j = i + 1
    OBVIOUS
  <2> QED
    BY <2>1, <2>4, <2>5
<1> HIDE DEF T
<1>6. Len(s) \in T
  BY <1>1, <1>4, <1>5, Induction
<1>7. Holds(Len(s))
  BY <1>1, <1>6 DEF T
<1> PICK k : k = f[Len(s)]
  OBVIOUS
<1>8. k \in Seq(X) /\ Len(k) = Len(s) /\ \A j \in 1 .. Len(s) : k[j] = s[j]
  BY <1>7
<1>9. k = s
  BY <1>1, <1>8
<1> QED
  BY <1>2, <1>9

-----------------------------------------------------------------------------
(* Slices without a repetition.                                            *)

Differ(s) == \A i, j \in DOMAIN s : s[i] = s[j] => i = j

(* A new element at the end repeats none.                                  *)
LEMMA AppendDiffers ==
  ASSUME NEW X, NEW s \in Seq(X), Differ(s), NEW e \in X, e \notin ToSet(s),
         NEW t, t = Append(s, e)
  PROVE  Differ(t)
<1>1. /\ DOMAIN t = DOMAIN s \cup {Len(s) + 1} /\ t[Len(s) + 1] = e
      /\ \A i \in DOMAIN s : t[i] = s[i]
  OBVIOUS
<1>2. \A i \in DOMAIN s : s[i] # e
  BY InToSet
<1> QED
  BY <1>1, <1>2 DEF Differ

(* Firsts repeats nothing.                                                 *)
LEMMA FirstsDiffer ==
  ASSUME NEW s, IsList(s)
  PROVE  Differ(Firsts(s))
<1>1. s \in Seq(ToSet(s)) /\ Len(s) \in Nat /\ DOMAIN s = 1 .. Len(s)
  BY ListShape
<1>2. PICK f : /\ Firsts(s) = f[Len(s)]
               /\ f[0] = <<>>
               /\ \A i \in 1 .. Len(s) :
                    f[i] = IF s[i] \in ToSet(f[i - 1]) THEN f[i - 1] ELSE Append(f[i - 1], s[i])
  BY <1>1, FirstsLoop
<1> DEFINE X == ToSet(s)
           Holds(i) == f[i] \in Seq(X) /\ Differ(f[i])
           T == {i \in Nat : i <= Len(s) => Holds(i)}
<1>3. Holds(0)
  <2>1. DOMAIN <<>> = {} /\ f[0] \in Seq(X)
    BY <1>2
  <2> QED
    BY <1>2, <2>1 DEF Differ
<1>4. ASSUME NEW i \in Nat, i + 1 <= Len(s), Holds(i) PROVE Holds(i + 1)
  <2>1. i + 1 \in 1 .. Len(s) /\ (i + 1) - 1 = i
    BY <1>1, <1>4
  <2> DEFINE t == f[i]
             u == f[i + 1]
             x == s[i + 1]
  <2>2. u = IF x \in ToSet(t) THEN t ELSE Append(t, x)
    BY <1>2, <2>1
  <2>3. x \in X
    BY <1>1, <2>1, InToSet
  <2>4. t \in Seq(X) /\ Differ(t)
    BY <1>4
  <2> HIDE DEF t, u, X, x
  <2>5. CASE x \in ToSet(t)
    BY <2>2, <2>4, <2>5 DEF u
  <2>6. CASE x \notin ToSet(t)
    <3>1. u = Append(t, x)
      BY <2>2, <2>6
    <3>2. u \in Seq(X) /\ Differ(u)
      BY <2>3, <2>4, <2>6, <3>1, AppendHolds, AppendDiffers
    <3> QED
      BY <3>2 DEF u
  <2> QED
    BY <2>5, <2>6
<1> HIDE DEF Holds
<1>5. 0 \in T
  BY <1>3
<1>6. ASSUME NEW i \in Nat, i \in T PROVE i + 1 \in T
  BY <1>1, <1>4, <1>6
<1> HIDE DEF T
<1>7. Len(s) \in T
  BY <1>1, <1>5, <1>6, Induction
<1>8. Holds(Len(s))
  BY <1>1, <1>7 DEF T
<1> QED
  BY <1>2, <1>8 DEF Holds

(* Of a slice without a repetition Keep makes another.                     *)
LEMMA KeepDiffers ==
  ASSUME NEW s, IsList(s), Differ(s), NEW S
  PROVE  Differ(Keep(s, S))
<1> PICK X : X = ToSet(s)
  OBVIOUS
<1>1. s \in Seq(X) /\ Len(s) \in Nat /\ DOMAIN s = 1 .. Len(s)
  BY ListShape
<1>2. PICK f : /\ Keep(s, S) = f[Len(s)]
               /\ f[0] = <<>>
               /\ \A i \in 1 .. Len(s) :
                    f[i] = IF s[i] \in S THEN Append(f[i - 1], s[i]) ELSE f[i - 1]
  BY <1>1, KeepLoop
<1> DEFINE Before(i) == {s[j] : j \in 1 .. i}
           Holds(i) == f[i] \in Seq(X) /\ Differ(f[i]) /\ ToSet(f[i]) \subseteq Before(i)
           T == {i \in Nat : i <= Len(s) => Holds(i)}
<1>3. Holds(0)
  <2>1. DOMAIN <<>> = {} /\ f[0] \in Seq(X)
    BY <1>2
  <2>2. ToSet(f[0]) = {}
    BY <1>2, EmptyList
  <2> QED
    BY <1>2, <2>1, <2>2 DEF Differ
<1>4. ASSUME NEW i \in Nat, i + 1 <= Len(s), Holds(i) PROVE Holds(i + 1)
  <2>1. i + 1 \in 1 .. Len(s) /\ (i + 1) - 1 = i /\ 1 .. i \subseteq 1 .. i + 1 /\ i + 1 \in 1 .. i + 1
    BY <1>1, <1>4
  <2> DEFINE t == f[i]
             u == f[i + 1]
             x == s[i + 1]
  <2>2. u = IF x \in S THEN Append(t, x) ELSE t
    BY <1>2, <2>1
  <2>3. x \in X
    BY <1>1, <2>1, InToSet
  <2>4. t \in Seq(X) /\ Differ(t) /\ ToSet(t) \subseteq Before(i)
    BY <1>4
  <2>5. Before(i) \subseteq Before(i + 1) /\ x \in Before(i + 1)
    BY <2>1
  <2>6. x \notin Before(i)
    <3>1. \A j \in 1 .. i : j \in DOMAIN s /\ i + 1 \in DOMAIN s /\ j # i + 1
      BY <1>1, <2>1
    <3> QED
      BY <3>1 DEF Differ
  <2> HIDE DEF t, u, x, Before
  <2>7. CASE x \in S
    <3>1. u = Append(t, x) /\ x \notin ToSet(t)
      BY <2>2, <2>4, <2>6, <2>7
    <3>2. u \in Seq(X) /\ ToSet(u) = ToSet(t) \cup {x}
      BY <2>3, <2>4, <3>1, AppendHolds
    <3>3. Differ(u)
      BY <2>3, <2>4, <3>1, AppendDiffers
    <3> QED
      BY <2>4, <2>5, <3>2, <3>3 DEF u
  <2>8. CASE x \notin S
    BY <2>2, <2>4, <2>5, <2>8 DEF u
  <2> QED
    BY <2>7, <2>8
<1> HIDE DEF Holds
<1>5. 0 \in T
  BY <1>3
<1>6. ASSUME NEW i \in Nat, i \in T PROVE i + 1 \in T
  BY <1>1, <1>4, <1>6
<1> HIDE DEF T
<1>7. Len(s) \in T
  BY <1>1, <1>5, <1>6, Induction
<1>8. Holds(Len(s))
  BY <1>1, <1>7 DEF T
<1> QED
  BY <1>2, <1>8 DEF Holds

(* u is s with t behind it.                                                *)
Behind(s, t, u) ==
  /\ IsList(u)
  /\ \A i \in DOMAIN s : i \in DOMAIN u /\ u[i] = s[i]
  /\ \A n \in DOMAIN u \ DOMAIN s : u[n] \in ToSet(t)
  /\ \A e \in ToSet(t) : \E n \in DOMAIN u \ DOMAIN s : u[n] = e

(* Where the elements of two slices in a row stand.                        *)
LEMMA ConcatBehind ==
  ASSUME NEW s, IsList(s), NEW t, IsList(t), NEW u, u = s \o t
  PROVE  Behind(s, t, u)
<1> PICK X : X = ToSet(s) \cup ToSet(t)
  OBVIOUS
<1>1. s \in Seq(X) /\ t \in Seq(X)
  <2>1. s \in Seq(ToSet(s)) /\ t \in Seq(ToSet(t))
    BY ListShape
  <2> QED
    BY <2>1
<1>2. u \in Seq(X) /\ Len(u) = Len(s) + Len(t)
  BY <1>1
<1>3. \A i \in DOMAIN s : i \in DOMAIN u /\ u[i] = s[i]
  BY <1>1
<1>4. \A n \in DOMAIN u \ DOMAIN s : n - Len(s) \in DOMAIN t /\ u[n] = t[n - Len(s)]
  BY <1>1, <1>2
<1>5. \A j \in DOMAIN t : j + Len(s) \in DOMAIN u \ DOMAIN s /\ u[j + Len(s)] = t[j]
  BY <1>1, <1>2
<1>6. IsList(u)
  BY <1>2, SeqIsList
<1>7. \A n \in DOMAIN u \ DOMAIN s : u[n] \in ToSet(t)
  BY <1>4, InToSet
<1>8. \A e \in ToSet(t) : \E n \in DOMAIN u \ DOMAIN s : u[n] = e
  <2> SUFFICES ASSUME NEW e \in ToSet(t) PROVE \E n \in DOMAIN u \ DOMAIN s : u[n] = e
    OBVIOUS
  <2>1. PICK j \in DOMAIN t : t[j] = e
    BY InToSet
  <2> QED
    BY <1>5, <2>1
<1> QED
  BY <1>3, <1>6, <1>7, <1>8 DEF Behind

(* The same, place by place.                                               *)
LEMMA ConcatPlaces ==
  ASSUME NEW s, IsList(s), NEW t, IsList(t), NEW u, u = s \o t
  PROVE  /\ IsList(u)
         /\ \A i \in DOMAIN s : i \in DOMAIN u /\ u[i] = s[i]
         /\ \A n \in DOMAIN u \ DOMAIN s : u[n] \in ToSet(t)
         /\ \A e \in ToSet(t) : \E n \in DOMAIN u \ DOMAIN s : u[n] = e
<1>1. Behind(s, t, u)
  BY ConcatBehind
<1> QED
  BY <1>1 DEF Behind

(* What a list of slices holds when it is made into one.                   *)
LEMMA FlattenList ==
  ASSUME NEW s, IsList(s), \A i \in DOMAIN s : IsList(s[i])
  PROVE  /\ IsList(FlattenSeq(s))
         /\ \A e : e \in ToSet(FlattenSeq(s)) <=> \E i \in DOMAIN s : e \in ToSet(s[i])
<1> DEFINE X == UNION {ToSet(s[i]) : i \in DOMAIN s}
<1>1. \A i \in DOMAIN s : s[i] \in Seq(X)
  <2> SUFFICES ASSUME NEW i \in DOMAIN s PROVE s[i] \in Seq(X)
    OBVIOUS
  <2>1. s[i] \in Seq(ToSet(s[i])) /\ ToSet(s[i]) \subseteq X
    BY ListShape
  <2> HIDE DEF X
  <2> QED
    BY <2>1
<1> HIDE DEF X
<1>2. s \in Seq(Seq(X))
  <2>1. s \in Seq(ToSet(s))
    BY ListShape
  <2>2. ToSet(s) \subseteq Seq(X)
    BY <1>1, InToSet
  <2> QED
    BY <2>1, <2>2
<1>3. FlattenSeq(s) \in Seq(X) /\ ToSet(FlattenSeq(s)) = UNION {ToSet(s[i]) : i \in DOMAIN s}
  BY <1>2, FlattenHolds
<1> QED
  BY <1>3, SeqIsList

(* Nothing after a list.                                                   *)
LEMMA ConcatNothing ==
  ASSUME NEW s, IsList(s), NEW t, IsList(t), ToSet(t) = {}
  PROVE  s \o t = s
<1>1. t = <<>>
  BY ListShape
<1>2. s \in Seq(ToSet(s))
  BY ListShape
<1>3. \A X : \A u \in Seq(X) : u \o <<>> = u
  OBVIOUS
<1> QED
  BY <1>1, <1>2, <1>3

(* Lists that hold nothing, made into one.                                 *)
LEMMA FlattenNothing ==
  ASSUME NEW s, IsList(s), \A i \in DOMAIN s : s[i] = <<>>
  PROVE  IsList(FlattenSeq(s)) /\ ToSet(FlattenSeq(s)) = {}
<1>1. \A i \in DOMAIN s : IsList(s[i]) /\ ToSet(s[i]) = {}
  BY EmptyList
<1>2. /\ IsList(FlattenSeq(s))
      /\ \A e : e \in ToSet(FlattenSeq(s)) <=> \E i \in DOMAIN s : e \in ToSet(s[i])
  BY <1>1, FlattenList
<1> QED
  BY <1>1, <1>2
=============================================================================
