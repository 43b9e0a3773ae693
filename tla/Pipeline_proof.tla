--------------------------- MODULE Pipeline_proof ---------------------------
(***************************************************************************)
(* TLAPS proofs about Pipeline, for any registered providers and emitters, *)
(* any flags and any number of objects and providers requested.            *)
(*                                                                         *)
(* The invariant IInv gives every stage what the stages before it settled. *)
(* In the two loops over the map of providers it speaks of the providers   *)
(* the loop is through with, as a set, so that the order does not matter.  *)
(***************************************************************************)
EXTENDS Pipeline, SequenceTheorems, TLAPS

Stages == {"start", "prepare", "construct", "read", "convert", "print", "done", "failed"}

(* The storage a provider ends up with.                                    *)
Stored(p) == Storage(p, NamespaceFilter)

(* The flags have been looked at.                                          *)
FlagsSettled ==
  /\ stage = "start" => emitter = cmd.emitter
  /\ stage \in Stages \ {"start", "failed"} => ~BadCombination /\ emitter = EmitterUsed
  /\ stage \in Stages \ {"start", "prepare", "failed"} => ~Unprepared /\ filter = NamespaceFilter
  /\ stage \in {"read", "convert", "print", "done"} =>
       /\ ~Unconstructed
       /\ DOMAIN stores = Requested
       /\ todo \subseteq Requested

(* The providers that have been read hold what they are asked for.         *)
ReadSettled ==
  /\ stage = "read" =>
       \A p \in Requested \ todo : ~Unreadable(NamespaceFilter) /\ stores[p] = Stored(p)
  /\ stage \in {"convert", "print", "done"} =>
       /\ ~Unreadable(NamespaceFilter)
       /\ EmitterUsed \in Emitters
       /\ \A p \in Requested : stores[p] = Stored(p)

(* What a sequence of sets holds in all.                                   *)
Gathered(s) == UNION {s[i] : i \in DOMAIN s}

(* The providers that have been converted account for errors and results.  *)
ConvertSettled ==
  /\ stage \in {"start", "prepare", "construct", "read"} => resources = <<>> /\ errs = {}
  /\ stage \in {"convert", "print", "done"} =>
       /\ resources \in Seq(SUBSET Wanted)
       /\ Gathered(resources) =
            UNION {Made(p, Stored(p), EmitterUsed) : p \in Requested \ todo}
       /\ errs = {} <=> \A p \in Requested \ todo : Broken(Stored(p)) = {}

(* The rows that have been printed.                                        *)
PrintSettled ==
  /\ stage \notin {"print", "done"} => printed = <<>> /\ row = 1
  /\ stage \in {"print", "done"} =>
       /\ todo = {} /\ errs = {}
       /\ row \in 1 .. Len(Kinds) + 1
       /\ printed \in Seq(SUBSET Wanted)
       /\ Output = {r \in Wanted : \E k \in 1 .. row - 1 : r.kind = Kinds[k]}
  /\ stage = "done" => row = Len(Kinds) + 1

IInv ==
  /\ input \in Inputs
  /\ stage \in Stages
  /\ FlagsSettled
  /\ ReadSettled
  /\ ConvertSettled
  /\ PrintSettled

-----------------------------------------------------------------------------
(* Lemmas.                                                                 *)

(* A step leaves the call alone, and so all that is derived from it.       *)
LEMMA SameCall ==
  ASSUME input' = input
  PROVE  /\ Requested' = Requested /\ cmd' = cmd
         /\ BadCombination' = BadCombination /\ EmitterUsed' = EmitterUsed
         /\ Unprepared' = Unprepared /\ NamespaceFilter' = NamespaceFilter
         /\ Unconstructed' = Unconstructed
         /\ Unreadable(NamespaceFilter)' = Unreadable(NamespaceFilter)
         /\ \A p : Stored(p)' = Stored(p)
         /\ Wanted' = Wanted /\ Sound' = Sound
<1>1. cmd' = cmd /\ docs' = docs
  BY DEF cmd, docs
<1>2. Requested' = Requested /\ FromFiles' = FromFiles /\ ContextNeeded' = ContextNeeded
  BY <1>1 DEF Requested, FromFiles, ContextNeeded
<1>3. BadCombination' = BadCombination /\ EmitterUsed' = EmitterUsed
  BY <1>1, <1>2 DEF BadCombination, EmitterUsed
<1>4. Unprepared' = Unprepared /\ NamespaceFilter' = NamespaceFilter
  BY <1>1, <1>2 DEF Unprepared, NamespaceFilter
<1>5. Unconstructed' = Unconstructed
  BY <1>1, <1>2 DEF Unconstructed
<1>6. Places' = Places
  BY <1>1 DEF Places
<1>7. \A a : At(a)' = At(a)
  BY <1>1 DEF At
<1>8. \A n : Extracted(n)' = Extracted(n)
  BY <1>1, <1>6 DEF Extracted
<1>9. Unreadable(NamespaceFilter)' = Unreadable(NamespaceFilter)
  BY <1>1, <1>2, <1>4, <1>7, <1>8 DEF Unreadable
<1>10. \A p, n : ReadIngresses(p, n)' = ReadIngresses(p, n)
  BY <1>7, <1>8 DEF ReadIngresses
<1>11. \A p, n : ReadServices(p, n)' = ReadServices(p, n)
  BY <1>2, <1>7, <1>8 DEF ReadServices
<1>12. \A p : Stored(p)' = Stored(p)
  BY <1>4, <1>10, <1>11 DEF Stored, Storage
<1>13. Wanted' = Wanted
  BY <1>2, <1>3, <1>12 DEF Wanted, Stored
<1>14. Sound' = Sound
  BY <1>2, <1>3, <1>4, <1>5, <1>9, <1>12 DEF Sound, Stored
<1> QED
  BY <1>1, <1>2, <1>3, <1>4, <1>5, <1>9, <1>12, <1>13, <1>14

(* The row a printing loop adds, and what it adds to the output.           *)
OfKind(S, kind) == {r \in S : r.kind = kind}

RowOf(t, kind) == [i \in 1 .. Len(t) |-> {r \in t[i] : r.kind = kind}]

LEMMA InUnion ==
  ASSUME NEW s, NEW e
  PROVE  e \in Gathered(s) <=> \E i \in DOMAIN s : e \in s[i]
BY DEF Gathered

(* What appending to a sequence of sets adds to their union.               *)
LEMMA UnionOfAppend ==
  ASSUME NEW S, NEW s \in Seq(SUBSET S), NEW x \in SUBSET S
  PROVE  /\ Append(s, x) \in Seq(SUBSET S)
         /\ Gathered(Append(s, x)) = Gathered(s) \cup x
<1> DEFINE t == Append(s, x)
<1>1. /\ t \in Seq(SUBSET S)
      /\ DOMAIN t = DOMAIN s \cup {Len(s) + 1}
      /\ t[Len(s) + 1] = x
      /\ \A i \in DOMAIN s : t[i] = s[i]
  OBVIOUS
<1> HIDE DEF t
<1>2. \A e : (\E i \in DOMAIN t : e \in t[i]) <=> (\E i \in DOMAIN s : e \in s[i]) \/ e \in x
  BY <1>1
<1>3. Gathered(t) = Gathered(s) \cup x
  <2>1. \A e : e \in Gathered(t) <=> \E i \in DOMAIN t : e \in t[i]
    BY InUnion
  <2>2. \A e : e \in Gathered(s) <=> \E i \in DOMAIN s : e \in s[i]
    BY InUnion
  <2>3. \A e : e \in Gathered(t) <=> e \in Gathered(s) \/ e \in x
    BY <1>2, <2>1, <2>2
  <2> QED
    BY <2>3
<1> QED
  BY <1>1, <1>3 DEF t

(* A printing loop adds to the output what its row holds of a kind.        *)
LEMMA RowTyped ==
  ASSUME NEW S, NEW s \in Seq(SUBSET S), NEW t \in Seq(SUBSET S), NEW kind
  PROVE  s \o RowOf(t, kind) \in Seq(SUBSET S)
<1>1. RowOf(t, kind) \in Seq(SUBSET S)
  BY DEF RowOf
<1> QED
  BY <1>1

LEMMA UnionOfRow ==
  ASSUME NEW S, NEW s \in Seq(SUBSET S), NEW t \in Seq(SUBSET S), NEW kind
  PROVE  Gathered(s \o RowOf(t, kind)) = Gathered(s) \cup OfKind(Gathered(t), kind)
<1> DEFINE w == RowOf(t, kind)
<1>1. w \in Seq(SUBSET S) /\ Len(w) = Len(t) /\ DOMAIN w = DOMAIN t
  BY DEF RowOf
<1>2. \A i \in DOMAIN w : w[i] = {r \in t[i] : r.kind = kind}
  BY DEF RowOf
<1> HIDE DEF w
<1> DEFINE u == s \o w
<1>3. u \in Seq(SUBSET S) /\ Len(u) = Len(s) + Len(w)
  BY <1>1
<1>4. \A i \in DOMAIN s : i \in DOMAIN u /\ u[i] = s[i]
  BY <1>1
<1>5. \A i \in DOMAIN w : i + Len(s) \in DOMAIN u /\ u[i + Len(s)] = w[i]
  BY <1>1
<1> HIDE DEF u
<1>6. \A i \in DOMAIN u : ~(i \in DOMAIN s) => i - Len(s) \in DOMAIN w /\ u[i] = w[i - Len(s)]
  <2> SUFFICES ASSUME NEW i \in DOMAIN u, ~(i \in DOMAIN s)
               PROVE  i - Len(s) \in DOMAIN w /\ u[i] = w[i - Len(s)]
    OBVIOUS
  <2>1. i - Len(s) \in DOMAIN w /\ i \in Int /\ Len(s) \in Int
    BY <1>1, <1>3
  <2>2. (i - Len(s)) + Len(s) = i
    BY <2>1
  <2> QED
    BY <1>5, <2>1, <2>2
<1>7. \A e : e \in Gathered(u) <=> e \in Gathered(s) \/ e \in Gathered(w)
  <2>1. \A e : (\E i \in DOMAIN u : e \in u[i]) <=>
                  (\E i \in DOMAIN s : e \in s[i]) \/ (\E i \in DOMAIN w : e \in w[i])
    BY <1>4, <1>5, <1>6
  <2> QED
    BY <2>1, InUnion
<1>8. \A e : e \in Gathered(w) <=> e \in Gathered(t) /\ e.kind = kind
  <2>1. \A e : (\E i \in DOMAIN w : e \in w[i]) <=> (\E i \in DOMAIN t : e \in t[i]) /\ e.kind = kind
    BY <1>1, <1>2
  <2> QED
    BY <2>1, InUnion
<1>9. Gathered(u) = Gathered(s) \cup OfKind(Gathered(t), kind)
  BY <1>7, <1>8 DEF OfKind
<1> QED
  BY <1>9 DEF u, w

(* A provider that is registered makes what is wanted.                     *)
LEMMA MadeIsWanted ==
  ASSUME ~Unconstructed, NEW p \in Requested
  PROVE  Made(p, Stored(p), EmitterUsed) \subseteq Wanted
BY DEF Unconstructed, Wanted, Stored

(* When nothing failed, what was converted is what is wanted.              *)
LEMMA WantedIsMade ==
  ASSUME ~Unconstructed
  PROVE  Wanted = UNION {Made(p, Stored(p), EmitterUsed) : p \in Requested}
BY DEF Unconstructed, Wanted, Stored

(* outputResult has a loop for every kind a conversion makes.              *)
LEMMA EveryKindPrinted ==
  ASSUME NEW r \in Wanted
  PROVE  \E k \in 1 .. Len(Kinds) : r.kind = Kinds[k]
<1>1. Len(Kinds) = 10 /\ Kinds[2] = "Gateway" /\ Kinds[3] = "HTTPRoute" /\ Kinds[10] = "GatewayExtension"
  BY DEF Kinds
<1>2. PICK p : r \in Made(p, Storage(p, NamespaceFilter), EmitterUsed)
  BY DEF Wanted
<1>3. r.kind \in {"Gateway", "HTTPRoute", "GatewayExtension"}
  BY <1>2 DEF Made
<1> QED
  BY <1>1, <1>3

(* A call requests a provider.                                             *)
LEMMA SomeRequested == ASSUME input \in Inputs PROVE Requested # {}
<1>1. cmd.providers \in Seq(STRING) /\ cmd.providers # <<>>
  BY PipelineAssumption DEF cmd
<1>2. 1 \in DOMAIN cmd.providers
  BY <1>1
<1> QED
  BY <1>2 DEF Requested

-----------------------------------------------------------------------------
(* The invariant.                                                          *)

LEMMA InitInv == ASSUME Init PROVE IInv
BY DEF Init, IInv, Stages, FlagsSettled, ReadSettled, ConvertSettled, PrintSettled, cmd

(* A call that fails has printed nothing.                                  *)
LEMMA FailInv ==
  ASSUME IInv, Fail, stage \in Stages \ {"print", "done"}
  PROVE  IInv'
BY DEF Fail, IInv, Stages, FlagsSettled, ReadSettled, ConvertSettled, PrintSettled

LEMMA PreRunInv == ASSUME IInv, PreRun, ~Fail PROVE IInv'
<1>1. /\ input' = input /\ stage = "start" /\ stage' = "prepare" /\ emitter' = EmitterUsed
      /\ ~BadCombination
      /\ UNCHANGED <<resources, errs, printed, row>>
  BY DEF PreRun
<1>2. BadCombination' = BadCombination /\ EmitterUsed' = EmitterUsed
  BY <1>1, SameCall
<1> QED
  BY <1>1, <1>2 DEF IInv, Stages, FlagsSettled, ReadSettled, ConvertSettled, PrintSettled

LEMMA PrepareInv == ASSUME IInv, Prepare, ~Fail PROVE IInv'
<1>1. /\ input' = input /\ stage = "prepare" /\ stage' = "construct" /\ filter' = NamespaceFilter
      /\ ~Unprepared
      /\ UNCHANGED <<emitter, resources, errs, printed, row>>
  BY DEF Prepare
<1>2. /\ BadCombination' = BadCombination /\ EmitterUsed' = EmitterUsed
      /\ Unprepared' = Unprepared /\ NamespaceFilter' = NamespaceFilter
  BY <1>1, SameCall
<1> QED
  BY <1>1, <1>2 DEF IInv, Stages, FlagsSettled, ReadSettled, ConvertSettled, PrintSettled

LEMMA ConstructInv == ASSUME IInv, Construct, ~Fail PROVE IInv'
<1>1. /\ input' = input /\ stage = "construct" /\ stage' = "read" /\ todo' = Requested
      /\ DOMAIN stores' = Requested
      /\ ~Unconstructed
      /\ UNCHANGED <<emitter, filter, resources, errs, printed, row>>
  BY DEF Construct
<1>2. /\ BadCombination' = BadCombination /\ EmitterUsed' = EmitterUsed
      /\ Unprepared' = Unprepared /\ NamespaceFilter' = NamespaceFilter
      /\ Unconstructed' = Unconstructed /\ Requested' = Requested
  BY <1>1, SameCall
<1> QED
  BY <1>1, <1>2 DEF IInv, Stages, FlagsSettled, ReadSettled, ConvertSettled, PrintSettled

LEMMA ReadInv == ASSUME IInv, NEW p \in todo, Read(p), ~Fail PROVE IInv'
<1>1. /\ input' = input /\ stage = "read" /\ stage' = "read" /\ todo' = todo \ {p}
      /\ ~Unreadable(filter)
      /\ stores' = [stores EXCEPT ![p] = Storage(p, filter)]
      /\ UNCHANGED <<emitter, filter, resources, errs, printed, row>>
  BY DEF Read
<1>2. /\ BadCombination' = BadCombination /\ EmitterUsed' = EmitterUsed
      /\ Unprepared' = Unprepared /\ NamespaceFilter' = NamespaceFilter
      /\ Unconstructed' = Unconstructed /\ Requested' = Requested
      /\ Unreadable(NamespaceFilter)' = Unreadable(NamespaceFilter)
      /\ \A q : Stored(q)' = Stored(q)
  BY <1>1, SameCall
<1>3. filter = NamespaceFilter /\ DOMAIN stores = Requested /\ p \in Requested
  BY <1>1 DEF IInv, Stages, FlagsSettled
<1>4. FlagsSettled'
  BY <1>1, <1>2 DEF IInv, Stages, FlagsSettled
<1>5. ReadSettled'
  <2> SUFFICES ASSUME NEW q \in Requested \ todo'
               PROVE  ~Unreadable(NamespaceFilter) /\ stores'[q] = Stored(q)
    BY <1>1, <1>2 DEF ReadSettled
  <2>1. CASE q = p
    BY <1>1, <1>3, <2>1 DEF Stored
  <2>2. CASE q # p
    BY <1>1, <1>3, <2>2 DEF IInv, ReadSettled
  <2> QED
    BY <2>1, <2>2
<1>6. ConvertSettled' /\ PrintSettled'
  BY <1>1 DEF IInv, ConvertSettled, PrintSettled
<1> QED
  BY <1>1, <1>4, <1>5, <1>6 DEF IInv

LEMMA ChooseInv == ASSUME IInv, ChooseEmitter, ~Fail PROVE IInv'
<1>1. /\ input' = input /\ stage = "read" /\ stage' = "convert" /\ todo = {} /\ todo' = Requested
      /\ emitter \in Emitters
      /\ UNCHANGED <<emitter, filter, stores, resources, errs, printed, row>>
  BY DEF ChooseEmitter
<1>2. /\ BadCombination' = BadCombination /\ EmitterUsed' = EmitterUsed
      /\ Unprepared' = Unprepared /\ NamespaceFilter' = NamespaceFilter
      /\ Unconstructed' = Unconstructed /\ Requested' = Requested
      /\ Unreadable(NamespaceFilter)' = Unreadable(NamespaceFilter)
      /\ Wanted' = Wanted
      /\ \A q : Stored(q)' = Stored(q)
  BY <1>1, SameCall
<1>3. FlagsSettled'
  BY <1>1, <1>2 DEF IInv, Stages, FlagsSettled
<1>4. ReadSettled'
  <2>1. Requested # {} /\ emitter = EmitterUsed
    BY <1>1, SomeRequested DEF IInv, Stages, FlagsSettled
  <2> QED
    BY <1>1, <1>2, <2>1 DEF IInv, ReadSettled
<1>5. ConvertSettled'
  <2>1. resources' = <<>> /\ errs' = {} /\ Requested' \ todo' = {}
    BY <1>1, <1>2 DEF IInv, ConvertSettled
  <2>2. <<>> \in Seq(SUBSET Wanted') /\ Gathered(resources') = {}
    BY <2>1 DEF Gathered
  <2>3. UNION {Made(q, Stored(q), EmitterUsed)' : q \in Requested' \ todo'} = {}
    BY <2>1
  <2> QED
    BY <1>1, <2>1, <2>2, <2>3 DEF ConvertSettled
<1>6. PrintSettled'
  BY <1>1 DEF IInv, PrintSettled
<1> QED
  BY <1>1, <1>3, <1>4, <1>5, <1>6 DEF IInv, Stages

LEMMA ConvertInv == ASSUME IInv, NEW p \in todo, Convert(p) PROVE IInv'
<1>1. /\ input' = input /\ stage = "convert" /\ stage' = "convert" /\ todo' = todo \ {p}
      /\ errs' = errs \cup {<<p, o>> : o \in Broken(stores[p])}
      /\ resources' = Append(resources, Made(p, stores[p], emitter) \cup Kept)
      /\ UNCHANGED <<emitter, filter, stores, printed, row>>
  BY DEF Convert
<1>2. /\ BadCombination' = BadCombination /\ EmitterUsed' = EmitterUsed
      /\ Unprepared' = Unprepared /\ NamespaceFilter' = NamespaceFilter
      /\ Unconstructed' = Unconstructed /\ Requested' = Requested
      /\ Unreadable(NamespaceFilter)' = Unreadable(NamespaceFilter)
      /\ Wanted' = Wanted
      /\ \A q : Stored(q)' = Stored(q)
  BY <1>1, SameCall
<1>3. /\ ~Unconstructed /\ todo \subseteq Requested /\ emitter = EmitterUsed
      /\ stores[p] = Stored(p)
  BY <1>1 DEF IInv, Stages, FlagsSettled, ReadSettled
<1>4. FlagsSettled'
  BY <1>1, <1>2 DEF IInv, Stages, FlagsSettled
<1>5. ReadSettled'
  BY <1>1, <1>2 DEF IInv, ReadSettled
<1>6. ConvertSettled'
  <2> DEFINE M(q) == Made(q, Stored(q), EmitterUsed)
             Past == Requested \ todo
  <2>1. /\ resources \in Seq(SUBSET Wanted)
        /\ Gathered(resources) = UNION {M(q) : q \in Past}
        /\ errs = {} <=> \A q \in Past : Broken(Stored(q)) = {}
    BY <1>1 DEF IInv, ConvertSettled
  <2>2. M(p) \subseteq Wanted /\ resources' = Append(resources, M(p) \cup Kept)
    BY <1>1, <1>3, MadeIsWanted
  <2>3. Requested' \ todo' = Past \cup {p}
    BY <1>1, <1>2, <1>3
  <2> HIDE DEF M, Past
  <2>4. /\ resources' \in Seq(SUBSET Wanted)
        /\ Gathered(resources') =
             Gathered(resources) \cup M(p)
    <3>1. Kept \subseteq Gathered(resources)
      BY DEF Kept, Gathered
    <3>2. Gathered(resources) \subseteq Wanted
      BY <2>1 DEF Gathered
    <3>3. resources \in Seq(SUBSET Wanted) /\ M(p) \cup Kept \in SUBSET Wanted
      BY <2>1, <2>2, <3>1, <3>2
    <3>4. Append(resources, M(p) \cup Kept) \in Seq(SUBSET Wanted)
      BY <3>3, UnionOfAppend
    <3>5. Gathered(Append(resources, M(p) \cup Kept)) = Gathered(resources) \cup (M(p) \cup Kept)
      <4> DEFINE x == M(p) \cup Kept
      <4>1. x \in SUBSET Wanted
        BY <3>3
      <4> HIDE DEF x
      <4>2. Gathered(Append(resources, x)) = Gathered(resources) \cup x
        BY <3>3, <4>1, UnionOfAppend
      <4> QED
        BY <4>2 DEF x
    <3> QED
      BY <2>2, <3>1, <3>4, <3>5
  <2>5. UNION {M(q) : q \in Past \cup {p}} = (UNION {M(q) : q \in Past}) \cup M(p)
    OBVIOUS
  <2>6. Gathered(resources') = UNION {M(q) : q \in Requested' \ todo'}
    BY <2>1, <2>3, <2>4, <2>5
  <2>7. \A q : Made(q, Stored(q), EmitterUsed)' = M(q)
    BY <1>2 DEF M, Made, Broken
  <2>8. \A q : Broken(Stored(q))' = Broken(Stored(q))
    BY <1>2 DEF Broken
  <2>9. errs' = {} <=> \A q \in Requested' \ todo' : Broken(Stored(q)) = {}
    <3> DEFINE B == Broken(Stored(p))
    <3>1. errs' = errs \cup {<<p, o>> : o \in B}
      BY <1>1, <1>3
    <3>2. (\A q \in Requested' \ todo' : Broken(Stored(q)) = {}) <=>
            (\A q \in Past : Broken(Stored(q)) = {}) /\ B = {}
      BY <2>3
    <3> HIDE DEF B
    <3>3. errs' = {} <=> errs = {} /\ B = {}
      BY <3>1
    <3> QED
      BY <2>1, <3>2, <3>3
  <2>10. UNION {Made(q, Stored(q), EmitterUsed)' : q \in Requested' \ todo'} = Gathered(resources')
    BY <2>6, <2>7
  <2>11. resources' \in Seq(SUBSET Wanted')
    BY <1>2, <2>4
  <2> QED
    BY <1>1, <2>8, <2>9, <2>10, <2>11 DEF ConvertSettled
<1>7. PrintSettled'
  BY <1>1 DEF IInv, PrintSettled
<1> QED
  BY <1>1, <1>4, <1>5, <1>6, <1>7 DEF IInv, Stages

LEMMA ConcludeInv == ASSUME IInv, Conclude, ~Fail PROVE IInv'
<1>1. /\ stage = "convert" /\ stage' = "print" /\ todo = {} /\ errs = {}
      /\ UNCHANGED <<input, emitter, filter, todo, stores, errs, resources, printed, row>>
  BY DEF Conclude
<1>2. /\ BadCombination' = BadCombination /\ EmitterUsed' = EmitterUsed
      /\ Unprepared' = Unprepared /\ NamespaceFilter' = NamespaceFilter
      /\ Unconstructed' = Unconstructed /\ Requested' = Requested
      /\ Unreadable(NamespaceFilter)' = Unreadable(NamespaceFilter)
      /\ Wanted' = Wanted
      /\ \A q : Stored(q)' = Stored(q)
  BY <1>1, SameCall
<1>3. FlagsSettled' /\ ReadSettled'
  BY <1>1, <1>2 DEF IInv, Stages, FlagsSettled, ReadSettled
<1>4. ConvertSettled'
  <2>1. \A q : Made(q, Stored(q), EmitterUsed)' = Made(q, Stored(q), EmitterUsed)
    BY <1>2 DEF Made, Broken
  <2>2. \A q : Broken(Stored(q))' = Broken(Stored(q))
    BY <1>2 DEF Broken
  <2> QED
    BY <1>1, <1>2, <2>1, <2>2 DEF IInv, ConvertSettled
<1>5. PrintSettled'
  <2>1. printed = <<>> /\ row = 1
    BY <1>1 DEF IInv, PrintSettled
  <2>2. Output' = {} /\ printed' \in Seq(SUBSET Wanted')
    BY <1>1, <2>1 DEF Output
  <2>3. row' \in 1 .. Len(Kinds) + 1
    BY <1>1, <2>1 DEF Kinds
  <2>4. {r \in Wanted' : \E k \in 1 .. row' - 1 : r.kind = Kinds[k]} = {}
    BY <1>1, <2>1
  <2> QED
    BY <1>1, <2>2, <2>3, <2>4 DEF PrintSettled
<1> QED
  BY <1>1, <1>3, <1>4, <1>5 DEF IInv, Stages

LEMMA PrintKindInv == ASSUME IInv, PrintKind PROVE IInv' /\ Output \subseteq Output' /\ Output' \subseteq Wanted
<1>1. /\ stage = "print" /\ row <= Len(Kinds) /\ row' = row + 1
      /\ printed' = printed \o [i \in 1 .. Len(resources) |->
                                 {r \in resources[i] : r.kind = Kinds[row]}]
      /\ UNCHANGED <<input, stage, emitter, filter, todo, stores, errs, resources>>
  BY DEF PrintKind
<1>2. /\ BadCombination' = BadCombination /\ EmitterUsed' = EmitterUsed
      /\ Unprepared' = Unprepared /\ NamespaceFilter' = NamespaceFilter
      /\ Unconstructed' = Unconstructed /\ Requested' = Requested
      /\ Unreadable(NamespaceFilter)' = Unreadable(NamespaceFilter)
      /\ Wanted' = Wanted
      /\ \A q : Stored(q)' = Stored(q)
  BY <1>1, SameCall
<1>3. FlagsSettled' /\ ReadSettled'
  BY <1>1, <1>2 DEF IInv, Stages, FlagsSettled, ReadSettled
<1>4. ConvertSettled'
  <2>1. \A q : Made(q, Stored(q), EmitterUsed)' = Made(q, Stored(q), EmitterUsed)
    BY <1>2 DEF Made, Broken
  <2>2. \A q : Broken(Stored(q))' = Broken(Stored(q))
    BY <1>2 DEF Broken
  <2> QED
    BY <1>1, <1>2, <2>1, <2>2 DEF IInv, ConvertSettled
<1>5. /\ todo = {} /\ errs = {} /\ row \in 1 .. Len(Kinds) + 1
      /\ printed \in Seq(SUBSET Wanted)
      /\ Output = {r \in Wanted : \E k \in 1 .. row - 1 : r.kind = Kinds[k]}
  BY <1>1 DEF IInv, PrintSettled
<1>6. resources \in Seq(SUBSET Wanted) /\ Gathered(resources) = Wanted
  BY <1>1, <1>5, WantedIsMade DEF IInv, FlagsSettled, ConvertSettled
<1>7. printed' \in Seq(SUBSET Wanted) /\ Output' = Output \cup {r \in Wanted : r.kind = Kinds[row]}
  <2>1. printed' = printed \o RowOf(resources, Kinds[row])
    BY <1>1 DEF RowOf
  <2>2. /\ printed' \in Seq(SUBSET Wanted)
        /\ Gathered(printed') = Gathered(printed) \cup OfKind(Gathered(resources), Kinds[row])
    <3>1. printed \in Seq(SUBSET Wanted) /\ resources \in Seq(SUBSET Wanted)
      BY <1>5, <1>6
    <3>2. printed \o RowOf(resources, Kinds[row]) \in Seq(SUBSET Wanted)
      BY <3>1, RowTyped
    <3>3. Gathered(printed \o RowOf(resources, Kinds[row]))
            = Gathered(printed) \cup OfKind(Gathered(resources), Kinds[row])
      BY <3>1, UnionOfRow
    <3> QED
      BY <2>1, <3>2, <3>3
  <2> QED
    BY <1>6, <2>2 DEF Gathered, OfKind, Output
<1>8. row \in Nat /\ Len(Kinds) \in Nat /\ row' \in 1 .. Len(Kinds) + 1
  BY <1>1, <1>5 DEF Kinds
<1>9. \A k : k \in 1 .. row' - 1 <=> k \in 1 .. row - 1 \/ k = row
  BY <1>1, <1>5, <1>8
<1>10. Output' = {r \in Wanted : \E k \in 1 .. row' - 1 : r.kind = Kinds[k]}
  BY <1>5, <1>7, <1>9
<1>11. PrintSettled'
  BY <1>1, <1>2, <1>5, <1>7, <1>8, <1>10 DEF PrintSettled
<1> QED
  BY <1>1, <1>3, <1>4, <1>5, <1>7, <1>10, <1>11 DEF IInv

LEMMA FinishInv == ASSUME IInv, Finish PROVE IInv' /\ Output' = Output /\ Output = Wanted
<1>1. /\ stage = "print" /\ row > Len(Kinds) /\ stage' = "done"
      /\ UNCHANGED <<input, emitter, filter, todo, stores, errs, resources, printed, row>>
  BY DEF Finish
<1>2. /\ BadCombination' = BadCombination /\ EmitterUsed' = EmitterUsed
      /\ Unprepared' = Unprepared /\ NamespaceFilter' = NamespaceFilter
      /\ Unconstructed' = Unconstructed /\ Requested' = Requested
      /\ Unreadable(NamespaceFilter)' = Unreadable(NamespaceFilter)
      /\ Wanted' = Wanted
      /\ \A q : Stored(q)' = Stored(q)
  BY <1>1, SameCall
<1>3. FlagsSettled' /\ ReadSettled'
  BY <1>1, <1>2 DEF IInv, Stages, FlagsSettled, ReadSettled
<1>4. ConvertSettled'
  <2>1. \A q : Made(q, Stored(q), EmitterUsed)' = Made(q, Stored(q), EmitterUsed)
    BY <1>2 DEF Made, Broken
  <2>2. \A q : Broken(Stored(q))' = Broken(Stored(q))
    BY <1>2 DEF Broken
  <2> QED
    BY <1>1, <1>2, <2>1, <2>2 DEF IInv, ConvertSettled
<1>5. Output' = Output
  BY <1>1 DEF Output
<1>6. /\ row \in 1 .. Len(Kinds) + 1 /\ Len(Kinds) = 10
      /\ Output = {r \in Wanted : \E k \in 1 .. row - 1 : r.kind = Kinds[k]}
  BY <1>1 DEF IInv, PrintSettled, Kinds
<1>7. row = Len(Kinds) + 1
  BY <1>1, <1>6
<1>8. PrintSettled'
  BY <1>1, <1>2, <1>5, <1>7 DEF IInv, PrintSettled
<1>9. Output = Wanted
  BY <1>6, <1>7, EveryKindPrinted
<1> QED
  BY <1>1, <1>3, <1>4, <1>5, <1>8, <1>9 DEF IInv, Stages

LEMMA StutterInv == ASSUME IInv, UNCHANGED vars PROVE IInv' /\ Output' = Output
<1>1. UNCHANGED <<input, stage, emitter, filter, todo, stores, errs, resources, printed, row>>
  BY DEF vars
<1>2. /\ BadCombination' = BadCombination /\ EmitterUsed' = EmitterUsed
      /\ Unprepared' = Unprepared /\ NamespaceFilter' = NamespaceFilter
      /\ Unconstructed' = Unconstructed /\ Requested' = Requested /\ cmd' = cmd
      /\ Unreadable(NamespaceFilter)' = Unreadable(NamespaceFilter)
      /\ Wanted' = Wanted
      /\ \A q : Stored(q)' = Stored(q)
  BY <1>1, SameCall
<1>3. FlagsSettled' /\ ReadSettled'
  BY <1>1, <1>2 DEF IInv, FlagsSettled, ReadSettled
<1>4. ConvertSettled'
  <2>1. \A q : Made(q, Stored(q), EmitterUsed)' = Made(q, Stored(q), EmitterUsed)
    BY <1>2 DEF Made, Broken
  <2>2. \A q : Broken(Stored(q))' = Broken(Stored(q))
    BY <1>2 DEF Broken
  <2> QED
    BY <1>1, <1>2, <2>1, <2>2 DEF IInv, ConvertSettled
<1>5. Output' = Output
  BY <1>1 DEF Output
<1>6. PrintSettled'
  BY <1>1, <1>2, <1>5 DEF IInv, PrintSettled
<1> QED
  BY <1>1, <1>3, <1>4, <1>5, <1>6 DEF IInv

(* A call fails only before it prints.                                     *)
LEMMA FailEarly ==
  ASSUME IInv, Next, Fail
  PROVE  stage \in Stages \ {"print", "done", "failed"}
<1>1. stage' = "failed" /\ row' = row
  BY DEF Fail
<1> QED
  BY <1>1 DEF Next, PreRun, Prepare, Construct, Read, ChooseEmitter, Convert, Conclude,
              PrintKind, Finish, Stages

LEMMA NextInv == ASSUME IInv, [Next]_vars PROVE IInv'
<1>1. CASE UNCHANGED vars
  BY <1>1, StutterInv
<1>2. CASE Next /\ Fail
  BY <1>2, FailEarly, FailInv
<1>3. CASE Next /\ ~Fail
  BY <1>3, PreRunInv, PrepareInv, ConstructInv, ReadInv, ChooseInv, ConvertInv, ConcludeInv,
     PrintKindInv, FinishInv DEF Next
<1> QED
  BY <1>1, <1>2, <1>3

(* The invariant holds throughout a call.                                  *)
LEMMA Invariance == Spec => []IInv
<1>1. Init => IInv
  BY InitInv
<1>2. IInv /\ [Next]_vars => IInv'
  BY NextInv
<1> QED
  BY <1>1, <1>2, PTL DEF Spec

(* At every stage the variables hold what belongs to it: no storage of a   *)
(* provider that was not requested, no output before the last error is     *)
(* excluded, no emitter that is not registered.                            *)
THEOREM Typed == Spec => []TypeOK
<1>1. ASSUME IInv PROVE TypeOK
  <2>1. row \in 1 .. Len(Kinds) + 1
    BY <1>1 DEF IInv, PrintSettled, Kinds
  <2> QED
    BY <1>1, <2>1 DEF IInv, TypeOK, Stages, FlagsSettled, ReadSettled, PrintSettled, Unconstructed
<1> QED
  BY <1>1, Invariance, PTL

-----------------------------------------------------------------------------
(* Pipeline implements Conversion.                                         *)

LEMMA InitRefines == ASSUME Init PROVE Promise!Init
<1>1. Output = {}
  <2>1. printed = <<>>
    BY DEF Init
  <2> QED
    BY <2>1 DEF Output
<1>2. Sound \in BOOLEAN
  BY DEF Sound
<1> QED
  BY <1>1, <1>2 DEF Init, Promise!Init, Outcome

(* A step that changes neither the stage, as far as the user sees it, nor  *)
(* the output.                                                             *)
LEMMA HiddenStep ==
  ASSUME input' = input, Outcome' = Outcome, Output' = Output
  PROVE  UNCHANGED Promise!vars
BY SameCall DEF Promise!vars

(* Whatever made a call fail is something unsound in it.                   *)
LEMMA FailRefines ==
  ASSUME IInv, Next, Fail
  PROVE  Promise!Next
<1>1. stage \in Stages \ {"print", "done", "failed"}
  BY FailEarly
<1>2. Outcome = "open" /\ Outcome' = "failed" /\ Output' = Output
  BY <1>1 DEF Fail, Outcome, Output, Stages
<1>3. ~Sound
  <2>1. CASE PreRun /\ stage' = "failed"
    BY <2>1 DEF PreRun, Sound
  <2>2. CASE Prepare /\ stage' = "failed"
    BY <2>2 DEF Prepare, Sound
  <2>3. CASE Construct /\ stage' = "failed"
    BY <2>3 DEF Construct, Sound
  <2>4. CASE \E p \in todo : Read(p) /\ stage' = "failed"
    <3>1. stage = "read" /\ Unreadable(filter)
      BY <2>4 DEF Read
    <3>2. filter = NamespaceFilter
      BY <3>1 DEF IInv, Stages, FlagsSettled
    <3> QED
      BY <3>1, <3>2 DEF Sound
  <2>5. CASE ChooseEmitter /\ stage' = "failed"
    <3>1. stage = "read" /\ emitter \notin Emitters
      BY <2>5 DEF ChooseEmitter
    <3>2. emitter = EmitterUsed
      BY <3>1 DEF IInv, Stages, FlagsSettled
    <3> QED
      BY <3>1, <3>2 DEF Sound
  <2>6. CASE Conclude /\ stage' = "failed"
    <3>1. stage = "convert" /\ todo = {} /\ errs # {}
      BY <2>6 DEF Conclude
    <3>2. ~\A p \in Requested : Broken(Stored(p)) = {}
      BY <3>1 DEF IInv, ConvertSettled
    <3> QED
      BY <3>2 DEF Sound, Stored
  <2>7. stage' = "failed" /\ row' = row
    BY DEF Fail
  <2> QED
    BY <1>1, <2>1, <2>2, <2>3, <2>4, <2>5, <2>6, <2>7
    DEF Next, Convert, PrintKind, Finish
<1>4. Sound' = Sound /\ Wanted' = Wanted
  BY SameCall DEF Fail
<1> QED
  BY <1>2, <1>3, <1>4 DEF Promise!Next, Promise!Fail

(* Printing begins when nothing is unsound.                                *)
LEMMA ConcludeRefines ==
  ASSUME IInv, Conclude, ~Fail
  PROVE  Promise!Next
<1>1. stage = "convert" /\ stage' = "print" /\ todo = {} /\ errs = {} /\ UNCHANGED <<input, printed>>
  BY DEF Conclude
<1>2. Sound
  <2>1. ~BadCombination /\ ~Unprepared /\ ~Unconstructed
    BY <1>1 DEF IInv, Stages, FlagsSettled
  <2>2. ~Unreadable(NamespaceFilter) /\ EmitterUsed \in Emitters
    BY <1>1 DEF IInv, ReadSettled
  <2>3. \A p \in Requested : Broken(Stored(p)) = {}
    BY <1>1 DEF IInv, ConvertSettled
  <2> QED
    BY <2>1, <2>2, <2>3 DEF Sound, Stored
<1>3. Outcome = "open" /\ Outcome' = "printing" /\ Output' = Output
  BY <1>1 DEF Outcome, Output
<1>4. Sound' = Sound /\ Wanted' = Wanted
  BY <1>1, SameCall
<1> QED
  BY <1>2, <1>3, <1>4 DEF Promise!Next, Promise!Begin

LEMMA PrintKindRefines ==
  ASSUME IInv, PrintKind
  PROVE  Promise!Next
<1>1. input' = input /\ Outcome = "printing" /\ Outcome' = "printing"
  BY DEF PrintKind, Outcome
<1>2. Output \subseteq Output' /\ Output' \subseteq Wanted
  BY PrintKindInv
<1>3. Sound' = Sound /\ Wanted' = Wanted
  BY <1>1, SameCall
<1> QED
  BY <1>1, <1>2, <1>3 DEF Promise!Next, Promise!Deliver

LEMMA FinishRefines ==
  ASSUME IInv, Finish
  PROVE  Promise!Next
<1>1. input' = input /\ Outcome = "printing" /\ Outcome' = "done"
  BY DEF Finish, Outcome
<1>2. Output = Wanted /\ Output' = Output
  BY FinishInv
<1>3. Sound' = Sound /\ Wanted' = Wanted
  BY <1>1, SameCall
<1> QED
  BY <1>1, <1>2, <1>3 DEF Promise!Next, Promise!End

LEMMA NextRefines ==
  ASSUME IInv, [Next]_vars
  PROVE  [Promise!Next]_(Promise!vars)
<1>1. CASE UNCHANGED vars
  BY <1>1, HiddenStep DEF vars, Outcome, Output
<1>2. CASE Next /\ Fail
  BY <1>2, FailRefines
<1>3. CASE (PreRun \/ Prepare \/ Construct \/ ChooseEmitter) /\ ~Fail
  <2>1. input' = input /\ Outcome' = Outcome /\ Output' = Output
    BY <1>3 DEF PreRun, Prepare, Construct, ChooseEmitter, Outcome, Output
  <2> QED
    BY <2>1, HiddenStep
<1>4. CASE (\E p \in todo : Read(p) \/ Convert(p)) /\ ~Fail
  <2>1. input' = input /\ Outcome' = Outcome /\ Output' = Output
    BY <1>4 DEF Read, Convert, Outcome, Output
  <2> QED
    BY <2>1, HiddenStep
<1> QED
  BY <1>1, <1>2, <1>3, <1>4, ConcludeRefines, PrintKindRefines, FinishRefines DEF Next

(* Every call is answered by all it asks for and nothing else, or fails    *)
(* with an empty output, exactly when something in it is unsound.          *)
THEOREM Refinement == Spec => ImplementsConversion
<1>1. Init => Promise!Init
  BY InitRefines
<1>2. IInv /\ [Next]_vars => [Promise!Next]_(Promise!vars)
  BY NextRefines
<1> QED
  BY <1>1, <1>2, Invariance, PTL DEF Spec, ImplementsConversion, Promise!Spec

-----------------------------------------------------------------------------
(* What is read is what the flags select.                                  *)

(* The namespace filter lets through what the user sees selected.          *)
LEMMA FilterSelects ==
  ASSUME input \in Inputs
  PROVE  Extracted(NamespaceFilter) = {a \in Places : Reached(a)}
<1>1. /\ cmd.all => cmd.namespace = ""
      /\ cmd.context # ""
      /\ \A i \in DOMAIN docs : docs[i].kind = "List" =>
           docs[i].ns = "" /\ DOMAIN docs[i].items \subseteq Nat \ {0}
  BY PipelineAssumption DEF cmd, docs
<1>2. CASE AllAsked
  <2>1. NamespaceFilter = ""
    BY <1>2 DEF AllAsked, NamespaceFilter
  <2> QED
    BY <1>2, <2>1 DEF Extracted, Reached, Asked
<1>3. CASE ~AllAsked
  <2>1. /\ NamespaceFilter = IF cmd.namespace = "" THEN cmd.context ELSE cmd.namespace
        /\ NamespaceFilter # ""
    BY <1>1, <1>3 DEF AllAsked, NamespaceFilter, ContextNeeded
  <2>2. ASSUME NEW a \in Places PROVE docs[a[1]].ns = NamespaceFilter <=> Reached(a)
    <3>1. CASE \E i \in DOMAIN docs : docs[i].kind # "List" /\ a = <<i, 0>>
      <4>1. PICK i \in DOMAIN docs : a = <<i, 0>>
        BY <3>1
      <4>2. a[1] = i /\ a[2] = 0
        BY <4>1
      <4>3. At(a) = docs[a[1]]
        BY <4>2 DEF At
      <4>4. Reached(a) <=> Asked(docs[a[1]].ns)
        BY <4>2, <4>3 DEF Reached
      <4> QED
        BY <1>3, <2>1, <4>4 DEF Asked
    <3>2. CASE \E i \in DOMAIN docs : docs[i].kind = "List" /\ \E j \in DOMAIN docs[i].items : a = <<i, j>>
      <4>1. docs[a[1]].ns = "" /\ a[2] # 0
        <5>1. PICK i \in DOMAIN docs : docs[i].kind = "List" /\ \E j \in DOMAIN docs[i].items : a = <<i, j>>
          BY <3>2
        <5>2. PICK j \in DOMAIN docs[i].items : a = <<i, j>>
          BY <5>1
        <5>3. a[1] = i /\ a[2] = j
          BY <5>2
        <5>4. j \in Nat \ {0}
          BY <1>1, <5>1, <5>2
        <5> QED
          BY <1>1, <5>1, <5>3, <5>4
      <4> QED
        BY <1>3, <2>1, <4>1 DEF Reached
    <3> QED
      BY <3>1, <3>2 DEF Places
  <2> QED
    BY <2>1, <2>2 DEF Extracted
<1> QED
  BY <1>2, <1>3

(* Of two places one is later.                                             *)
LEMMA LaterTotal ==
  ASSUME input \in Inputs, NEW a \in Places, NEW b \in Places
  PROVE  a = b \/ Later(a, b) \/ Later(b, a)
<1>1. /\ DOMAIN docs \subseteq Nat
      /\ \A i \in DOMAIN docs : docs[i].kind = "List" => DOMAIN docs[i].items \subseteq Nat
  BY PipelineAssumption DEF docs
<1>2. \A c \in Places : c = <<c[1], c[2]>> /\ c[1] \in Nat /\ c[2] \in Nat
  BY <1>1 DEF Places
<1> QED
  BY <1>2 DEF Later

(* What every provider holds once all have read: see ObjectsSelected.      *)
THEOREM Selection == Spec => []ObjectsSelected
<1>1. ASSUME IInv PROVE ObjectsSelected
  <2> SUFFICES ASSUME stage \in {"convert", "print", "done"}, NEW p \in Requested
               PROVE  LET seen == {a \in Places : Reached(a) /\ Claims(p, At(a))}
                          held == stores[p].ingresses
                          Last(a) == \A b \in seen : SameKey(At(a), At(b)) => ~Later(b, a)
                      IN /\ held \subseteq {At(a) : a \in seen}
                         /\ \A a \in seen : Last(a) => At(a) \in held
                         /\ \A o, u \in held : SameKey(o, u) => o = u
    BY DEF ObjectsSelected
  <2> DEFINE seen == {a \in Places : Reached(a) /\ Claims(p, At(a))}
             held == stores[p].ingresses
             Last(a) == \A b \in seen : SameKey(At(a), At(b)) => ~Later(b, a)
  <2>1. held = ReadIngresses(p, NamespaceFilter)
    <3>1. stores[p] = Storage(p, NamespaceFilter)
      BY <1>1 DEF IInv, ReadSettled, Stored
    <3> QED
      BY <3>1 DEF Storage
  <2>2. Extracted(NamespaceFilter) = {a \in Places : Reached(a)} /\ input \in Inputs
    BY <1>1, FilterSelects DEF IInv
  <2>3. \A o, u : SameKey(o, u) <=> SameKey(u, o)
    BY DEF SameKey
  <2>4. held = {At(a) : a \in {a \in seen : Last(a)}}
    BY <2>1, <2>2, <2>3 DEF ReadIngresses
  <2>5. ASSUME NEW a \in seen, NEW b \in seen, Last(a), Last(b), SameKey(At(a), At(b))
        PROVE  a = b
    BY <2>2, <2>3, <2>5, LaterTotal
  <2>6. \A o, u \in held : SameKey(o, u) => o = u
    BY <2>4, <2>5
  <2> QED
    BY <2>4, <2>6
<1> QED
  BY <1>1, Invariance, PTL

-----------------------------------------------------------------------------
(* Each resource is printed once.                                          *)

Excused(r) == r.kind = "GatewayExtension" /\ emitter \in Keeping

(* Two of the sets made share only what two providers make.                *)
MadeApart ==
  \A m, n \in DOMAIN resources : m # n =>
    \A r \in resources[m] \cap resources[n] :
      Excused(r) \/ \E p, q \in Requested \ todo :
        p # q /\ r \in Made(p, Stored(p), EmitterUsed) \cap Made(q, Stored(q), EmitterUsed)

(* Two of the rows printed share only what two of the sets made share; and *)
(* a row holds what was made, of a kind whose loop has begun.              *)
PrintedApart ==
  /\ \A i \in DOMAIN printed : \A r \in printed[i] : \E k \in 1 .. row - 1 : r.kind = Kinds[k]
  /\ \A i, j \in DOMAIN printed : i # j =>
       \A r \in printed[i] \cap printed[j] :
         \E m, n \in DOMAIN resources : m # n /\ r \in resources[m] \cap resources[n]

Apart ==
  /\ stage \in {"convert", "print", "done"} => MadeApart
  /\ stage \in {"print", "done"} => PrintedApart

(* Each kind has one loop.                                                 *)
LEMMA KindsDiffer ==
  ASSUME NEW k \in 1 .. Len(Kinds), NEW l \in 1 .. Len(Kinds), Kinds[k] = Kinds[l]
  PROVE  k = l
<1>1. Len(Kinds) = 10
  BY DEF Kinds
<1>2. /\ Kinds[1] = "GatewayClass" /\ Kinds[2] = "Gateway" /\ Kinds[3] = "HTTPRoute"
      /\ Kinds[4] = "GRPCRoute" /\ Kinds[5] = "TLSRoute" /\ Kinds[6] = "TCPRoute"
      /\ Kinds[7] = "UDPRoute" /\ Kinds[8] = "BackendTLSPolicy"
      /\ Kinds[9] = "ReferenceGrant" /\ Kinds[10] = "GatewayExtension"
  BY DEF Kinds
<1> QED
  BY <1>1, <1>2

(* What a provider makes depends on the call alone.                        *)
LEMMA MadeUnchanged ==
  ASSUME input' = input
  PROVE  \A q : Made(q, Stored(q), EmitterUsed)' = Made(q, Stored(q), EmitterUsed)
<1>1. EmitterUsed' = EmitterUsed /\ \A q : Stored(q)' = Stored(q)
  BY SameCall
<1>2. \A q : Broken(Stored(q))' = Broken(Stored(q))
  BY <1>1 DEF Broken
<1> QED
  BY <1>1, <1>2 DEF Made

(* What a provider shares with the ones before, two of them have made.     *)
LEMMA ConvertApart == ASSUME IInv, Apart, NEW p \in todo, Convert(p) PROVE Apart'
<1> DEFINE M(q) == Made(q, Stored(q), EmitterUsed)
           x == M(p) \cup Kept
<1> HIDE DEF M, x
<1>1. /\ input' = input /\ stage = "convert" /\ stage' = "convert" /\ todo' = todo \ {p}
      /\ resources' = Append(resources, Made(p, stores[p], emitter) \cup Kept)
      /\ emitter' = emitter
  BY DEF Convert
<1>2. /\ todo \subseteq Requested /\ emitter = EmitterUsed /\ stores[p] = Stored(p)
      /\ resources \in Seq(SUBSET Wanted)
      /\ Gathered(resources) = UNION {M(q) : q \in Requested \ todo}
  BY <1>1 DEF IInv, Stages, FlagsSettled, ReadSettled, ConvertSettled, M
<1>3. resources' = Append(resources, x)
  BY <1>1, <1>2 DEF M, x
<1>4. \A r \in Kept : Excused(r)
  BY DEF Kept, Excused
<1>5. \A q : Made(q, Stored(q), EmitterUsed)' = M(q)
  BY <1>1, MadeUnchanged DEF M
<1>6. Requested' = Requested /\ \A r : Excused(r)' = Excused(r)
  BY <1>1, SameCall DEF Excused
<1>7. /\ DOMAIN resources' = DOMAIN resources \cup {Len(resources) + 1}
      /\ resources'[Len(resources) + 1] = x
      /\ \A m \in DOMAIN resources : resources'[m] = resources[m]
  BY <1>2, <1>3
<1> DEFINE Pair(r) == \E a, b \in Requested \ todo' : a # b /\ r \in M(a) \cap M(b)
<1>8. ASSUME NEW m \in DOMAIN resources, NEW r \in resources[m] \cap x
      PROVE  Excused(r) \/ Pair(r)
  <2>1. CASE r \in Kept
    BY <1>4, <2>1
  <2>2. CASE r \in M(p)
    <3>1. r \in Gathered(resources)
      BY <1>8 DEF Gathered
    <3>2. PICK q \in Requested \ todo : r \in M(q)
      BY <1>2, <3>1
    <3>3. p # q /\ p \in Requested \ todo' /\ q \in Requested \ todo'
      BY <1>1, <1>2, <3>2
    <3> QED
      BY <2>2, <3>2, <3>3
  <2> QED
    BY <1>8, <2>1, <2>2 DEF x
<1>9. ASSUME NEW m \in DOMAIN resources, NEW n \in DOMAIN resources, m # n,
             NEW r \in resources[m] \cap resources[n]
      PROVE  Excused(r) \/ Pair(r)
  <2>1. Excused(r) \/ \E a, b \in Requested \ todo : a # b /\ r \in M(a) \cap M(b)
    BY <1>1, <1>9 DEF Apart, MadeApart, M
  <2> QED
    BY <1>1, <2>1
<1>10. ASSUME NEW m \in DOMAIN resources', NEW n \in DOMAIN resources', m # n,
              NEW r \in resources'[m] \cap resources'[n]
       PROVE  Excused(r) \/ Pair(r)
  <2> HIDE DEF Pair
  <2>1. CASE m \in DOMAIN resources /\ n \in DOMAIN resources
    BY <1>7, <1>9, <1>10, <2>1
  <2>2. CASE m \in DOMAIN resources /\ n \notin DOMAIN resources
    BY <1>7, <1>8, <1>10, <2>2
  <2>3. CASE m \notin DOMAIN resources /\ n \in DOMAIN resources
    BY <1>7, <1>8, <1>10, <2>3
  <2> QED
    BY <1>7, <1>10, <2>1, <2>2, <2>3
<1>11. MadeApart'
  BY <1>5, <1>6, <1>10 DEF MadeApart, M
<1> QED
  BY <1>1, <1>11 DEF Apart

(* A loop shares nothing with the loops of other kinds, and its own rows   *)
(* share what the sets of the providers share.                             *)
LEMMA PrintKindApart == ASSUME IInv, Apart, PrintKind PROVE Apart'
<1> DEFINE w == RowOf(resources, Kinds[row])
<1>1. /\ input' = input /\ stage = "print" /\ stage' = "print" /\ row <= Len(Kinds) /\ row' = row + 1
      /\ printed' = printed \o RowOf(resources, Kinds[row])
      /\ UNCHANGED <<todo, emitter, resources>>
  BY DEF PrintKind, RowOf
<1>2. /\ printed \in Seq(SUBSET Wanted) /\ resources \in Seq(SUBSET Wanted)
      /\ row \in 1 .. Len(Kinds) + 1 /\ Len(Kinds) = 10
  BY <1>1 DEF IInv, PrintSettled, ConvertSettled, Kinds
<1>3. MadeApart'
  <2>1. \A q : Made(q, Stored(q), EmitterUsed)' = Made(q, Stored(q), EmitterUsed)
    BY <1>1, MadeUnchanged
  <2>2. Requested' = Requested /\ \A r : Excused(r)' = Excused(r)
    BY <1>1, SameCall DEF Excused
  <2> QED
    BY <1>1, <2>1, <2>2 DEF Apart, MadeApart
<1>4. /\ w \in Seq(SUBSET Wanted) /\ DOMAIN w = DOMAIN resources
      /\ \A m \in DOMAIN w : w[m] = {r \in resources[m] : r.kind = Kinds[row]}
  BY <1>2 DEF RowOf
<1>5. printed' = printed \o w
  BY <1>1
<1> HIDE DEF w
<1>6. \A i \in DOMAIN printed' : \/ i \in DOMAIN printed /\ printed'[i] = printed[i]
                                 \/ i - Len(printed) \in DOMAIN w /\ printed'[i] = w[i - Len(printed)]
  BY <1>2, <1>4, <1>5
<1>7. \A i \in DOMAIN printed : \A r \in printed[i] : \E k \in 1 .. row - 1 : r.kind = Kinds[k]
  BY <1>1 DEF Apart, PrintedApart
<1>8. ASSUME NEW i \in DOMAIN printed', NEW r \in printed'[i]
      PROVE  \E k \in 1 .. row' - 1 : r.kind = Kinds[k]
  <2>1. CASE i \in DOMAIN printed /\ printed'[i] = printed[i]
    <3>1. PICK k \in 1 .. row - 1 : r.kind = Kinds[k]
      BY <1>7, <1>8, <2>1
    <3>2. k \in 1 .. row' - 1
      BY <1>1, <1>2
    <3> QED
      BY <3>1, <3>2
  <2>2. CASE i - Len(printed) \in DOMAIN w /\ printed'[i] = w[i - Len(printed)]
    <3>1. r.kind = Kinds[row]
      BY <1>4, <1>8, <2>2
    <3>2. row \in 1 .. row' - 1
      BY <1>1, <1>2
    <3> QED
      BY <3>1, <3>2
  <2> QED
    BY <1>6, <2>1, <2>2
<1> DEFINE Pair(r) == \E m, n \in DOMAIN resources : m # n /\ r \in resources[m] \cap resources[n]
<1>9. ASSUME NEW i \in DOMAIN printed, NEW m \in DOMAIN w
      PROVE  printed[i] \cap w[m] = {}
  <2> SUFFICES ASSUME NEW r \in printed[i], r \in w[m] PROVE FALSE
    OBVIOUS
  <2>1. PICK k \in 1 .. row - 1 : r.kind = Kinds[k]
    BY <1>7
  <2>2. Kinds[k] = Kinds[row]
    BY <1>4, <2>1
  <2>3. k \in 1 .. Len(Kinds) /\ row \in 1 .. Len(Kinds) /\ k # row
    BY <1>1, <1>2
  <2> QED
    BY <2>2, <2>3, KindsDiffer
<1>10. ASSUME NEW i \in DOMAIN printed', NEW j \in DOMAIN printed', i # j,
              NEW r \in printed'[i] \cap printed'[j]
       PROVE  Pair(r)
  <2>1. CASE i \in DOMAIN printed /\ j \in DOMAIN printed /\ printed'[i] = printed[i] /\ printed'[j] = printed[j]
    BY <1>1, <1>10, <2>1 DEF Apart, PrintedApart
  <2>2. CASE i \in DOMAIN printed /\ printed'[i] = printed[i] /\
             j - Len(printed) \in DOMAIN w /\ printed'[j] = w[j - Len(printed)]
    BY <1>9, <1>10, <2>2
  <2>3. CASE j \in DOMAIN printed /\ printed'[j] = printed[j] /\
             i - Len(printed) \in DOMAIN w /\ printed'[i] = w[i - Len(printed)]
    BY <1>9, <1>10, <2>3
  <2>4. CASE /\ i - Len(printed) \in DOMAIN w /\ printed'[i] = w[i - Len(printed)]
             /\ j - Len(printed) \in DOMAIN w /\ printed'[j] = w[j - Len(printed)]
    <3>1. r \in w[i - Len(printed)] /\ r \in w[j - Len(printed)]
      BY <1>10, <2>4
    <3>2. r \in resources[i - Len(printed)] /\ r \in resources[j - Len(printed)]
      BY <1>4, <2>4, <3>1
    <3>3. i - Len(printed) # j - Len(printed)
      <4>1. DOMAIN printed' = 1 .. Len(printed')
        BY <1>2, <1>4, <1>5
      <4>2. i \in Int /\ j \in Int /\ Len(printed) \in Int
        BY <1>2, <4>1
      <4> QED
        BY <1>10, <4>2
    <3> QED
      BY <1>4, <2>4, <3>2, <3>3
  <2> QED
    BY <1>6, <2>1, <2>2, <2>3, <2>4
<1>11. PrintedApart'
  BY <1>1, <1>8, <1>10 DEF PrintedApart
<1> QED
  BY <1>3, <1>11 DEF Apart

(* The steps around the two loops.                                         *)
LEMMA ChooseApart == ASSUME IInv, ChooseEmitter, ~Fail PROVE Apart'
<1>1. stage = "read" /\ stage' = "convert" /\ resources' = resources
  BY DEF ChooseEmitter
<1>2. resources = <<>>
  BY <1>1 DEF IInv, ConvertSettled
<1> QED
  BY <1>1, <1>2 DEF Apart, MadeApart

LEMMA LaterApart ==
  ASSUME Apart, IInv,
         input' = input, todo' = todo, emitter' = emitter, resources' = resources, printed' = printed,
         row' = row,
         stage' \in {"print", "done"} => \/ stage \in {"print", "done"}
                                         \/ stage = "convert" /\ printed = <<>>,
         stage' = "convert" => stage = "convert"
  PROVE  Apart'
<1>1. \A q : Made(q, Stored(q), EmitterUsed)' = Made(q, Stored(q), EmitterUsed)
  BY MadeUnchanged
<1>2. Requested' = Requested /\ \A r : Excused(r)' = Excused(r)
  BY SameCall DEF Excused
<1>3. MadeApart => MadeApart'
  BY <1>1, <1>2 DEF MadeApart
<1>4. PrintedApart => PrintedApart'
  BY DEF PrintedApart
<1>5. printed = <<>> => PrintedApart'
  BY DEF PrintedApart
<1> QED
  BY <1>3, <1>4, <1>5 DEF Apart

LEMMA NextApart == ASSUME IInv, Apart, [Next]_vars PROVE Apart'
<1>1. CASE UNCHANGED vars
  <2>1. UNCHANGED <<input, stage, todo, emitter, resources, printed, row>>
    BY <1>1 DEF vars
  <2> QED
    BY <2>1, LaterApart
<1>2. CASE stage' \notin {"convert", "print", "done"}
  BY <1>2 DEF Apart
<1>3. CASE ChooseEmitter /\ ~Fail
  BY <1>3, ChooseApart
<1>4. CASE \E p \in todo : Convert(p)
  BY <1>4, ConvertApart
<1>5. CASE PrintKind
  BY <1>5, PrintKindApart
<1>6. CASE Conclude /\ ~Fail
  <2>1. /\ stage = "convert" /\ stage' = "print"
        /\ UNCHANGED <<input, todo, emitter, resources, printed, row>>
    BY <1>6 DEF Conclude
  <2>2. printed = <<>>
    BY <2>1 DEF IInv, PrintSettled
  <2> QED
    BY <2>1, <2>2, LaterApart
<1>7. CASE Finish
  <2>1. /\ stage = "print" /\ stage' = "done"
        /\ UNCHANGED <<input, todo, emitter, resources, printed, row>>
    BY <1>7 DEF Finish
  <2> QED
    BY <2>1, LaterApart
<1>8. CASE Fail
  BY <1>2, <1>8 DEF Fail
<1>9. CASE (PreRun \/ Prepare \/ Construct \/ \E p \in todo : Read(p)) /\ ~Fail
  <2>1. stage' \in {"prepare", "construct", "read"}
    BY <1>9 DEF PreRun, Prepare, Construct, Read
  <2> QED
    BY <1>2, <2>1
<1> QED
  BY <1>1, <1>3, <1>4, <1>5, <1>6, <1>7, <1>8, <1>9 DEF Next

(* A resource is on Ingresses of the providers that made it.               *)
LEMMA MadeFromPlace ==
  ASSUME NEW p \in Requested, NEW r \in Made(p, Stored(p), EmitterUsed)
  PROVE  \E a \in Places : Claims(p, At(a)) /\ Gives(At(a), r)
<1>1. PICK o \in Stored(p).ingresses :
        \/ r = [kind |-> "Gateway", ns |-> o.ns, name |-> GatewayOf(o.class)]
        \/ r = [kind |-> "HTTPRoute", ns |-> o.ns, name |-> o.name]
        \/ r = [kind |-> "GatewayExtension", ns |-> o.ns, name |-> o.name]
  BY DEF Made
<1>2. Gives(o, r)
  BY <1>1 DEF Gives
<1>3. o \in ReadIngresses(p, NamespaceFilter)
  BY <1>1 DEF Stored, Storage
<1>4. PICK a \in Extracted(NamespaceFilter) : o = At(a) /\ Claims(p, At(a))
  BY <1>3 DEF ReadIngresses
<1>5. a \in Places
  BY <1>4 DEF Extracted
<1> QED
  BY <1>2, <1>4, <1>5

(* Each resource is printed once: see EachOnce.                            *)
THEOREM PrintedOnce == Spec => []EachOnce
<1>1. Init => Apart
  BY DEF Init, Apart
<1>2. IInv /\ Apart /\ [Next]_vars => Apart'
  BY NextApart
<1>3. ASSUME IInv, Apart PROVE EachOnce
  <2> SUFFICES ASSUME NEW i \in DOMAIN printed, NEW j \in DOMAIN printed, i # j,
                      NEW r \in printed[i] \cap printed[j], ~Excused(r)
               PROVE  \E p, q \in Requested :
                        /\ p # q
                        /\ \E a, b \in Places : /\ Claims(p, At(a)) /\ Gives(At(a), r)
                                                /\ Claims(q, At(b)) /\ Gives(At(b), r)
    BY DEF EachOnce, Excused
  <2>1. stage \in {"print", "done"}
    BY <1>3 DEF IInv, PrintSettled
  <2>2. PICK m, n \in DOMAIN resources : m # n /\ r \in resources[m] \cap resources[n]
    BY <1>3, <2>1 DEF Apart, PrintedApart
  <2>3. PICK p, q \in Requested \ todo :
          p # q /\ r \in Made(p, Stored(p), EmitterUsed) \cap Made(q, Stored(q), EmitterUsed)
    BY <1>3, <2>1, <2>2 DEF Apart, MadeApart
  <2>4. /\ \E a \in Places : Claims(p, At(a)) /\ Gives(At(a), r)
        /\ \E b \in Places : Claims(q, At(b)) /\ Gives(At(b), r)
    BY <2>3, MadeFromPlace
  <2> QED
    BY <2>3, <2>4
<1> QED
  BY <1>1, <1>2, <1>3, Invariance, PTL DEF Spec
=============================================================================
