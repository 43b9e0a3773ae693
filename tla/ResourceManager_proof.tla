------------------------ MODULE ResourceManager_proof ------------------------
(***************************************************************************)
(* TLAPS proofs about ResourceManager, for any number of keys and calls.   *)
(*                                                                         *)
(* The inductive invariant IInv says who may refer to a resourceState in   *)
(* which phase of its life: before its creation nobody, then the counted   *)
(* holders, then exactly one cleaner, and afterwards only calls parked on  *)
(* its closed channel.                                                     *)
(***************************************************************************)
EXTENDS ResourceManager, FiniteSetTheorems, TLAPS

Waiting == {"idle", "acquiring", "parked"}
Holding == {"held", "using", "failed", "releasing"}
Cleaning == {"draining", "tearing", "deleting"}

Types ==
  /\ pc \in [Handles -> PC]
  /\ state \in [Handles -> Handles \cup {None}]
  /\ resources \in [Keys -> Handles \cup {None}]
  /\ count \in [Handles -> Int]
  /\ cleaningUp \in [Handles -> {"nil", "open", "closed"}]
  /\ install \in [Handles -> {"none", "running", "ok", "err"}]
  /\ teardown \in [Handles -> {"none", "running", "done"}]

(* A resourceState exists from the moment its creator ran Create.          *)
Created ==
  /\ \A h \in Handles : install[h] # "none" => pc[h] \notin Waiting
  /\ \A h \in Handles : install[h] = "none" => cleaningUp[h] = "nil" /\ teardown[h] = "none"
  /\ \A h \in Handles : state[h] # None => install[state[h]] # "none"
  /\ \A k \in Keys : resources[k] # None =>
        /\ install[resources[k]] # "none"
        /\ KeyOf[resources[k]] = k
        /\ cleaningUp[resources[k]] # "closed"

(* Calls that hold or clean up work with the state listed for their key.   *)
Pointers ==
  /\ \A h \in Handles : pc[h] \in {"parked"} \cup Holding \cup Cleaning => state[h] # None
  /\ \A h \in Handles : pc[h] \in Holding \cup Cleaning =>
        resources[KeyOf[h]] = state[h] /\ KeyOf[state[h]] = KeyOf[h]
  /\ \A h \in Handles : pc[h] \in Holding => cleaningUp[state[h]] = "nil"
  /\ \A h \in Handles : pc[h] \in Cleaning => cleaningUp[state[h]] = "open"
  /\ \A g, h \in Handles :
        pc[g] \in Cleaning /\ pc[h] \in Cleaning /\ state[g] = state[h] => g = h

(* The count is exact as long as nobody cleans up, and then positive; an   *)
(* entry that is being cleaned up has a cleaner.                           *)
Counted ==
  \A i \in Handles : resources[KeyOf[i]] = i =>
    /\ cleaningUp[i] = "nil" =>
          count[i] = Cardinality(Holders(i)) /\ count[i] > 0
    /\ cleaningUp[i] = "open" =>
          count[i] = 0 /\ \E h \in Handles : pc[h] \in Cleaning /\ state[h] = i

(* What the install and cleanup functions have done so far.                *)
Effects ==
  /\ \A i \in Handles : Live(i) => resources[KeyOf[i]] = i
  /\ \A h \in Handles : pc[h] \in Holding \cup {"draining"} => teardown[state[h]] = "none"
  /\ \A h \in Handles : pc[h] = "using" => install[state[h]] = "ok"
  /\ \A h \in Handles : pc[h] = "tearing" =>
        install[state[h]] = "ok" /\ teardown[state[h]] = "running"
  /\ \A h \in Handles : pc[h] = "deleting" => ~Live(state[h])

(* The count of an entry that is gone is irrelevant but never negative.    *)
NonNegative == \A i \in Handles : count[i] >= 0

IInv == Types /\ Created /\ Pointers /\ Counted /\ Effects /\ NonNegative

-----------------------------------------------------------------------------
(* Sets of holders are finite; sharing adds one, releasing removes one.    *)
LEMMA HoldersFinite ==
  ASSUME NEW i PROVE IsFiniteSet(Holders(i)) /\ Cardinality(Holders(i)) \in Nat
  BY FiniteHandles, FS_Subset, FS_CardinalityType DEF Holders

LEMMA InitIInv == Init => IInv
  <1> SUFFICES ASSUME Init PROVE IInv
    OBVIOUS
  <1> USE DEF Init
  <1>1. Types /\ NonNegative  BY DEF Types, PC, NonNegative
  <1>2. Created /\ Pointers
    BY DEF Created, Pointers, Waiting, Holding, Cleaning
  <1>3. Counted  BY KeyOfType, NoneIsNoHandle DEF Counted
  <1>4. Effects  BY DEF Effects, Holding, Live
  <1>5. QED  BY <1>1, <1>2, <1>3, <1>4 DEF IInv

(* Steps that change neither the registry nor a holder set leave the count *)
(* of every entry exact.                                                   *)
LEMMA SameCounted ==
  ASSUME Counted, UNCHANGED <<resources, count, cleaningUp>>,
         \A i \in Handles : Holders(i)' = Holders(i),
         \A h \in Handles : pc[h] \in Cleaning =>
            pc'[h] \in Cleaning /\ state'[h] = state[h]
  PROVE  Counted'
  BY DEF Counted

LEMMA CallStep ==
  ASSUME IInv, NEW h \in Handles, Call(h) PROVE IInv'
  <1> USE DEF Call, Goto
  <1>1. Types'  BY DEF IInv, Types, PC
  <1>2. Created'  BY DEF IInv, Types, Created, Waiting
  <1>3. Pointers'  BY DEF IInv, Types, Pointers, Holding, Cleaning
  <1>4. Counted'
    <2>1. \A i \in Handles : Holders(i)' = Holders(i)
      BY DEF Holders, IInv, Types
    <2>2. QED  BY <2>1, SameCounted DEF IInv, Types, Cleaning
  <1>5. Effects' /\ NonNegative'
    BY DEF IInv, Types, Effects, NonNegative, Holding, Live
  <1>6. QED  BY <1>1, <1>2, <1>3, <1>4, <1>5 DEF IInv

LEMMA AcquireStep ==
  ASSUME IInv, NEW h \in Handles, Acquire(h) PROVE IInv'
  <1>1. CASE Park(h)
    <2> USE <1>1 DEF Park, Goto, Entry
    <2>1. Types'  BY KeyOfType DEF IInv, Types, PC
    <2>2. Created'  BY KeyOfType DEF IInv, Types, Created, Waiting
    <2>3. Pointers'  BY KeyOfType DEF IInv, Types, Pointers, Holding, Cleaning
    <2>4. Counted'
      <3>1. \A i \in Handles : Holders(i)' = Holders(i)
        BY DEF Holders, IInv, Types
      <3>2. QED  BY <3>1, SameCounted DEF IInv, Types, Cleaning
    <2>5. Effects' /\ NonNegative'
      BY DEF IInv, Types, Effects, NonNegative, Holding, Live
    <2>6. QED  BY <2>1, <2>2, <2>3, <2>4, <2>5 DEF IInv
  <1>2. CASE Retry(h)
    <2> USE <1>2 DEF Retry, Goto
    <2>1. Types'  BY DEF IInv, Types, PC
    <2>2. Created'  BY DEF IInv, Types, Created, Waiting
    <2>3. Pointers'  BY DEF IInv, Types, Pointers, Holding, Cleaning
    <2>4. Counted'
      <3>1. \A i \in Handles : Holders(i)' = Holders(i)
        BY DEF Holders, IInv, Types
      <3>2. QED  BY <3>1, SameCounted DEF IInv, Types, Cleaning
    <2>5. Effects' /\ NonNegative'
      BY DEF IInv, Types, Effects, NonNegative, Holding, Live
    <2>6. QED  BY <2>1, <2>2, <2>3, <2>4, <2>5 DEF IInv
  <1>3. CASE Create(h)
    <2> USE <1>3 DEF Create, Goto, Entry
    <2>1. install[h] = "none" /\ teardown[h] = "none" /\ cleaningUp[h] = "nil"
      BY DEF IInv, Types, Created, Waiting
    <2>2. \A g \in Handles : state[g] # h
      BY <2>1, NoneIsNoHandle DEF IInv, Created
    <2>3. \A k \in Keys : resources[k] # h
      BY <2>1, NoneIsNoHandle DEF IInv, Created
    <2>4. Types'
      <3>1. pc' \in [Handles -> PC] /\ state' \in [Handles -> Handles \cup {None}]
        BY DEF IInv, Types, PC
      <3>2. resources' \in [Keys -> Handles \cup {None}]
        BY DEF IInv, Types
      <3>3. install' \in [Handles -> {"none", "running", "ok", "err"}]
        BY DEF IInv, Types
      <3>4. count' \in [Handles -> Int]
        BY DEF IInv, Types
      <3>5. QED  BY <3>1, <3>2, <3>3, <3>4 DEF IInv, Types
    <2>5. Created'
      BY <2>1, NoneIsNoHandle, KeyOfType DEF IInv, Types, Created, Waiting
    <2>6. \A g \in Handles : g # h /\ pc[g] \in Holding \cup Cleaning => KeyOf[g] # KeyOf[h]
      BY NoneIsNoHandle DEF IInv, Pointers
    <2>7. Pointers'
      BY <2>1, <2>2, <2>6, KeyOfType, NoneIsNoHandle
      DEF IInv, Types, Pointers, Holding, Cleaning
    <2>8. Counted'
      <3>1. Holders(h)' = {h}
        BY <2>2 DEF Holders, IInv, Types
      <3>2. \A i \in Handles \ {h} : Holders(i)' = Holders(i)
        BY DEF Holders, IInv, Types
      <3>3. Cardinality(Holders(h)') = 1
        BY <3>1, FS_Singleton
      <3>4. QED
        BY <2>1, <3>2, <3>3, KeyOfType, NoneIsNoHandle
        DEF IInv, Types, Counted, Cleaning
    <2>9. Effects' /\ NonNegative'
      <3>1. ASSUME NEW i \in Handles, Live(i)' PROVE resources'[KeyOf[i]] = i
        <4>1. CASE i = h
          BY <4>1, KeyOfType DEF IInv, Types
        <4>2. CASE i # h
          <5>1. Live(i)  BY <3>1, <4>2 DEF IInv, Types, Live
          <5>2. resources[KeyOf[i]] = i  BY <5>1 DEF IInv, Effects
          <5>3. KeyOf[i] # KeyOf[h]  BY <5>2, NoneIsNoHandle
          <5>4. QED  BY <5>2, <5>3, KeyOfType DEF IInv, Types
        <4>3. QED  BY <4>1, <4>2
      <3>2. \A g \in Handles \ {h} : state'[g] = state[g] /\ state'[g] # h
        BY <2>2 DEF IInv, Types
      <3>3. QED
        BY <2>1, <3>1, <3>2 DEF IInv, Types, Effects, NonNegative, Holding, Live
    <2>10. QED  BY <2>4, <2>5, <2>7, <2>8, <2>9 DEF IInv
  <1>4. CASE Share(h)
    <2> USE <1>4 DEF Share, Goto, Entry
    <2> DEFINE i == resources[KeyOf[h]]
    <2>1. i \in Handles /\ KeyOf[i] = KeyOf[h]
      <3>1. KeyOf[h] \in Keys /\ i # None  BY KeyOfType
      <3>2. QED  BY <3>1 DEF IInv, Types, Created
    <2>2. Types'  BY <2>1 DEF IInv, Types, PC
    <2>3. Created'  BY <2>1, KeyOfType DEF IInv, Types, Created, Waiting
    <2>4. Pointers'
      BY <2>1, NoneIsNoHandle DEF IInv, Types, Pointers, Holding, Cleaning
    <2>5. Counted'
      <3>1. Holders(i)' = Holders(i) \cup {h} /\ h \notin Holders(i)
        BY <2>1 DEF Holders, IInv, Types
      <3>2. \A j \in Handles \ {i} : Holders(j)' = Holders(j)
        BY DEF Holders, IInv, Types
      <3>3. Cardinality(Holders(i)') = Cardinality(Holders(i)) + 1
        BY <3>1, HoldersFinite, FS_AddElement
      <3>4. QED
        BY <2>1, <3>2, <3>3 DEF IInv, Types, Counted, Cleaning
    <2>6. Effects' /\ NonNegative'
      <3>1. teardown[i] = "none"
        BY <2>1, HoldersFinite, FS_EmptySet DEF IInv, Counted, Effects, Holders, Holding
      <3>2. QED
        BY <2>1, <3>1 DEF IInv, Types, Effects, NonNegative, Holding, Live
    <2>7. QED  BY <2>2, <2>3, <2>4, <2>5, <2>6 DEF IInv
  <1>5. QED  BY <1>1, <1>2, <1>3, <1>4 DEF Acquire

LEMMA InstallStep ==
  ASSUME IInv, NEW h \in Handles, InstallReturns(h) PROVE IInv'
  <1> USE DEF InstallReturns
  <1>1. Types'  BY DEF IInv, Types
  <1>2. Created'  BY DEF IInv, Types, Created
  <1>3. Pointers' /\ NonNegative'  BY DEF IInv, Pointers, NonNegative
  <1>4. Counted'
    <2>1. \A i \in Handles : Holders(i)' = Holders(i)
      BY DEF Holders
    <2>2. QED  BY <2>1, SameCounted DEF IInv
  <1>5. Effects'
    <2>1. \A i \in Handles : Live(i)' => Live(i)
      BY DEF IInv, Types, Live
    <2>2. \A g \in Handles : state[g] # None /\ pc[g] \in {"using", "tearing"} => state[g] # h
      BY DEF IInv, Effects
    <2>3. \A g \in Handles : pc[g] \in Holding \cup Cleaning => state[g] \in Handles
      BY DEF IInv, Types, Pointers
    <2>4. QED
      BY <2>1, <2>2, <2>3 DEF IInv, Types, Effects, Holding, Cleaning
  <1>6. QED  BY <1>1, <1>2, <1>3, <1>4, <1>5 DEF IInv

LEMMA WaitStep ==
  ASSUME IInv, NEW h \in Handles, Wait(h) \/ Cleanup(h) PROVE IInv'
  <1> USE DEF Wait, Cleanup, Ready
  <1>1. Types'  BY DEF IInv, Types, PC
  <1>2. Created'  BY DEF IInv, Types, Created, Waiting
  <1>3. Pointers' /\ NonNegative'
    BY DEF IInv, Types, Pointers, NonNegative, Holding, Cleaning
  <1>4. Counted'
    <2>1. \A i \in Handles : Holders(i)' = Holders(i)
      BY DEF Holders, IInv, Types
    <2>2. QED  BY <2>1, SameCounted DEF IInv, Types, Cleaning
  <1>5. Effects'
    BY DEF IInv, Types, Effects, Holding, Live
  <1>6. QED  BY <1>1, <1>2, <1>3, <1>4, <1>5 DEF IInv

(* A release that finds its own entry: it is the last one exactly when it  *)
(* is the only holder left.                                                *)
LEMMA ReleaseFacts ==
  ASSUME IInv, NEW h \in Handles, pc[h] = "releasing"
  PROVE  /\ Entry(h) = state[h] /\ state[h] \in Handles /\ Entry(h) # None
         /\ resources[KeyOf[state[h]]] = state[h] /\ KeyOf[state[h]] = KeyOf[h]
         /\ cleaningUp[state[h]] = "nil"
         /\ h \in Holders(state[h])
         /\ count[state[h]] = Cardinality(Holders(state[h]))
         /\ count[state[h]] \in Nat \ {0}
         /\ count[state[h]] - 1 <= 0 <=> Holders(state[h]) = {h}
  <1> DEFINE i == state[h]
  <1>1. i \in Handles /\ Entry(h) = i /\ KeyOf[i] = KeyOf[h] /\ cleaningUp[i] = "nil"
    BY DEF IInv, Types, Pointers, Holding, Entry
  <1>2. resources[KeyOf[i]] = i  BY <1>1 DEF Entry
  <1>3. h \in Holders(i)  BY DEF Holders
  <1>4. count[i] = Cardinality(Holders(i)) /\ count[i] > 0 /\ count[i] \in Int
    BY <1>1, <1>2 DEF IInv, Types, Counted
  <1>5. Cardinality(Holders(i)) = 1 <=> Holders(i) = {h}
    BY <1>3, HoldersFinite, FS_Singleton
  <1>6. QED  BY <1>1, <1>2, <1>3, <1>4, <1>5, NoneIsNoHandle

LEMMA ReleaseStep ==
  ASSUME IInv, NEW h \in Handles, Release(h) PROVE IInv'
  <1>0. PICK i \in Handles : i = state[h]
    BY ReleaseFacts DEF Release
  <1> DEFINE last == count[i] - 1 <= 0
  <1>1. /\ pc[h] = "releasing" /\ Entry(h) = i /\ i \in Handles /\ i # None
        /\ count' = [count EXCEPT ![i] = @ - 1]
        /\ state' = [state EXCEPT ![h] = i]
        /\ pc' = [pc EXCEPT ![h] = IF last THEN "draining" ELSE "done"]
        /\ cleaningUp' = [cleaningUp EXCEPT ![i] = IF last THEN "open" ELSE @]
        /\ UNCHANGED <<resources, install, teardown>>
    BY <1>0, ReleaseFacts DEF Release
  <1>2. state' = state  BY <1>0, <1>1 DEF IInv, Types
  <1>3. /\ resources[KeyOf[i]] = i /\ KeyOf[i] = KeyOf[h]
        /\ cleaningUp[i] = "nil"
        /\ h \in Holders(i)
        /\ count[i] = Cardinality(Holders(i))
        /\ count[i] \in Nat \ {0}
        /\ last <=> Holders(i) = {h}
    BY <1>0, <1>1, ReleaseFacts
  <1> HIDE DEF last
  <1>4. Types'
    <2>1. pc' \in [Handles -> PC]  BY <1>1 DEF IInv, Types, PC
    <2>2. count' \in [Handles -> Int]  BY <1>1, <1>3 DEF IInv, Types
    <2>3. cleaningUp' \in [Handles -> {"nil", "open", "closed"}]
      BY <1>1 DEF IInv, Types
    <2>4. QED  BY <1>1, <1>2, <2>1, <2>2, <2>3 DEF IInv, Types
  <1>5. Created'
    BY <1>0, <1>1, <1>2, <1>3, KeyOfType DEF IInv, Types, Created, Waiting
  <1>6. Pointers'
    <2>1. \A g \in Handles : pc[g] \in Cleaning => state[g] # i
      BY <1>3 DEF IInv, Pointers
    <2>2. \A g \in Handles : pc'[g] \in Holding => g # h /\ pc[g] \in Holding
      BY <1>1 DEF IInv, Types, Holding
    <2>3. \A g \in Handles : last /\ pc[g] \in Holding /\ state[g] = i => g = h
      BY <1>3 DEF Holders, Holding
    <2>4. \A g \in Handles : pc'[g] \in Cleaning => pc[g] \in Cleaning \/ (g = h /\ last)
      BY <1>1 DEF IInv, Types, Cleaning
    <2>5. \A g \in Handles : pc'[g] \in {"parked"} \cup Holding \cup Cleaning => state'[g] # None
      BY <1>0, <1>1, <1>2, <2>2, <2>4 DEF IInv, Types, Pointers, Cleaning
    <2>6. \A g \in Handles : pc'[g] \in Holding \cup Cleaning =>
             resources'[KeyOf[g]] = state'[g] /\ KeyOf[state'[g]] = KeyOf[g]
      BY <1>0, <1>1, <1>2, <1>3, <2>2, <2>4 DEF IInv, Pointers
    <2>7. \A g \in Handles : pc'[g] \in Holding => cleaningUp'[state'[g]] = "nil"
      <3>1. SUFFICES ASSUME NEW g \in Handles, pc'[g] \in Holding
                     PROVE  cleaningUp'[state'[g]] = "nil"
        OBVIOUS
      <3>2. pc[g] \in Holding /\ g # h  BY <3>1, <2>2
      <3>3. cleaningUp[state[g]] = "nil" /\ state[g] \in Handles
        BY <3>2 DEF IInv, Types, Pointers
      <3>4. state[g] = i => ~last  BY <3>2, <2>3
      <3>5. QED  BY <1>1, <1>2, <3>3, <3>4 DEF IInv, Types
    <2>8. \A g \in Handles : pc'[g] \in Cleaning => cleaningUp'[state'[g]] = "open"
      <3>1. SUFFICES ASSUME NEW g \in Handles, pc'[g] \in Cleaning
                     PROVE  cleaningUp'[state'[g]] = "open"
        OBVIOUS
      <3>2. CASE pc[g] \in Cleaning
        BY <1>1, <1>2, <2>1, <3>2 DEF IInv, Types, Pointers
      <3>3. CASE g = h /\ last
        BY <1>0, <1>1, <1>2, <3>3 DEF IInv, Types
      <3>4. QED  BY <3>1, <3>2, <3>3, <2>4
    <2>9. \A f, g \in Handles :
             pc'[f] \in Cleaning /\ pc'[g] \in Cleaning /\ state'[f] = state'[g] => f = g
      BY <1>0, <1>2, <2>1, <2>4 DEF IInv, Pointers
    <2>10. QED  BY <2>5, <2>6, <2>7, <2>8, <2>9 DEF Pointers
  <1>7. Counted'
    <2>1. Holders(i)' = Holders(i) \ {h}
      BY <1>1, <1>2 DEF Holders, IInv, Types
    <2>2. Cardinality(Holders(i)') = Cardinality(Holders(i)) - 1
      BY <2>1, <1>3, HoldersFinite, FS_RemoveElement
    <2>3. \A j \in Handles \ {i} : Holders(j)' = Holders(j)
      BY <1>0, <1>1, <1>2 DEF Holders, IInv, Types
    <2>4. SUFFICES ASSUME NEW j \in Handles, resources[KeyOf[j]] = j
          PROVE  /\ cleaningUp'[j] = "nil" => count'[j] = Cardinality(Holders(j)') /\ count'[j] > 0
                 /\ cleaningUp'[j] = "open" =>
                      count'[j] = 0 /\ \E g \in Handles : pc'[g] \in Cleaning /\ state'[g] = j
      BY <1>1 DEF Counted
    <2>5. CASE j = i /\ last
      <3>1. count'[i] = 0 /\ cleaningUp'[i] = "open" /\ pc'[h] = "draining"
        BY <1>1, <1>3, <2>5 DEF IInv, Types, last
      <3>2. QED  BY <1>0, <2>5, <3>1, <1>2 DEF Cleaning
    <2>6. CASE j = i /\ ~last
      BY <1>1, <1>3, <2>2, <2>6 DEF IInv, Types, last
    <2>7. CASE j # i
      <3>1. /\ cleaningUp'[j] = cleaningUp[j] /\ count'[j] = count[j]
            /\ Holders(j)' = Holders(j)
        BY <1>1, <2>3, <2>7 DEF IInv, Types
      <3>2. \A g \in Handles : pc[g] \in Cleaning => pc'[g] \in Cleaning
        BY <1>1 DEF IInv, Types, Cleaning
      <3>3. QED  BY <1>2, <2>4, <3>1, <3>2 DEF IInv, Counted
    <2>8. QED  BY <2>5, <2>6, <2>7
  <1>8. NonNegative'  BY <1>1, <1>3 DEF IInv, Types, NonNegative
  <1>9. Effects'
    <2>1. \A j : Live(j)' = Live(j)  BY <1>1 DEF Live
    <2>2. QED  BY <1>1, <1>2, <2>1 DEF IInv, Types, Effects, Holding
  <1>10. QED  BY <1>4, <1>5, <1>6, <1>7, <1>8, <1>9 DEF IInv

(* The only cleaner of an entry advances: no holder is left to disturb.    *)
LEMMA CleanerStep ==
  ASSUME IInv, NEW h \in Handles, TearDown(h) \/ TearDownReturns(h) PROVE IInv'
  <1>0. pc[h] \in {"draining", "tearing"}  BY DEF TearDown, TearDownReturns, Goto
  <1>1. PICK i \in Handles : /\ i = state[h] /\ cleaningUp[i] = "open"
                             /\ resources[KeyOf[h]] = i /\ KeyOf[i] = KeyOf[h]
    BY <1>0 DEF IInv, Types, Pointers, Cleaning
  <1>2. \A g \in Handles : pc[g] \in Holding \cup Cleaning /\ state[g] = i => g = h
    BY <1>0, <1>1 DEF IInv, Pointers, Holding, Cleaning
  <1>3. /\ UNCHANGED <<state, resources, count, cleaningUp, install>>
        /\ teardown' = [teardown EXCEPT ![i] = teardown'[i]]
        /\ pc' = [pc EXCEPT ![h] = pc'[h]]
        /\ pc'[h] \in {"tearing", "deleting"}
        /\ teardown'[i] \in {"none", "running", "done"}
    BY <1>1 DEF TearDown, TearDownReturns, Goto, IInv, Types
  <1>4. /\ install[i] \in {"ok", "err"}
        /\ pc'[h] = "tearing" => install[i] = "ok" /\ teardown'[i] = "running"
        /\ pc'[h] = "deleting" /\ install[i] = "ok" => teardown'[i] = "done"
    BY <1>1 DEF TearDown, TearDownReturns, Goto, Ready, IInv, Types, Effects
  <1>5. Types'  BY <1>3 DEF IInv, Types, PC
  <1>6. Created'
    BY <1>0, <1>1, <1>3, <1>4 DEF IInv, Types, Created, Waiting
  <1>7. Pointers' /\ NonNegative'
    BY <1>0, <1>3 DEF IInv, Types, Pointers, NonNegative, Holding, Cleaning
  <1>8. Counted'
    <2>1. \A j \in Handles : Holders(j)' = Holders(j)
      BY <1>0, <1>3 DEF Holders, IInv, Types
    <2>2. QED  BY <1>0, <1>3, <2>1, SameCounted DEF IInv, Types, Cleaning
  <1>9. Effects'
    <2>1. \A j \in Handles : Live(j)' => resources'[KeyOf[j]] = j
      <3>1. \A j \in Handles : j # i => teardown'[j] = teardown[j]
        BY <1>3 DEF IInv, Types
      <3>2. QED  BY <1>1, <1>3, <3>1 DEF IInv, Effects, Live
    <2>2. \A g \in Handles : g # h /\ pc[g] \in Holding \cup Cleaning =>
             pc'[g] = pc[g] /\ teardown'[state[g]] = teardown[state[g]]
      <3>1. SUFFICES ASSUME NEW g \in Handles, g # h, pc[g] \in Holding \cup Cleaning
                     PROVE  pc'[g] = pc[g] /\ teardown'[state[g]] = teardown[state[g]]
        OBVIOUS
      <3>2. state[g] \in Handles /\ state[g] # i
        BY <1>2, <3>1 DEF IInv, Types, Pointers
      <3>3. QED  BY <1>3, <3>1, <3>2 DEF IInv, Types
    <2>3. \A g \in Handles : g # h => pc'[g] = pc[g]
      BY <1>3 DEF IInv, Types
    <2>4. QED
      BY <1>1, <1>3, <1>4, <2>1, <2>2, <2>3
      DEF IInv, Types, Effects, Live, Holding, Cleaning
  <1>10. QED  BY <1>5, <1>6, <1>7, <1>8, <1>9 DEF IInv

LEMMA DeleteStep ==
  ASSUME IInv, NEW h \in Handles, Delete(h) PROVE IInv'
  <1> USE DEF Delete, Goto
  <1>1. PICK i \in Handles : /\ i = state[h] /\ cleaningUp[i] = "open"
                             /\ resources[KeyOf[h]] = i /\ KeyOf[i] = KeyOf[h]
    BY DEF IInv, Types, Pointers, Cleaning
  <1>2. \A g \in Handles : g # h /\ pc[g] \in Holding \cup Cleaning =>
           state[g] # i /\ KeyOf[g] # KeyOf[h]
    BY <1>1 DEF IInv, Pointers, Holding, Cleaning
  <1>3. Types'  BY NoneIsNoHandle DEF IInv, Types, PC
  <1>4. Created'
    <2>1. install[i] # "none"  BY <1>1, NoneIsNoHandle DEF IInv, Created
    <2>2. \A k \in Keys : k # KeyOf[h] /\ resources[k] # None => resources[k] # i
      BY <1>1 DEF IInv, Created
    <2>3. QED
      BY <1>1, <2>1, <2>2, KeyOfType DEF IInv, Types, Created, Waiting
  <1>5. Pointers'
    BY <1>1, <1>2, KeyOfType DEF IInv, Types, Pointers, Holding, Cleaning
  <1>6. Counted'
    <2>1. \A j \in Handles : Holders(j)' = Holders(j)
      BY DEF Holders, IInv, Types
    <2>2. \A j \in Handles : resources'[KeyOf[j]] = j =>
             /\ resources[KeyOf[j]] = j /\ KeyOf[j] # KeyOf[h] /\ j # i
             /\ cleaningUp'[j] = cleaningUp[j]
      BY <1>1, NoneIsNoHandle, KeyOfType DEF IInv, Types
    <2>3. \A g \in Handles : g # h => pc'[g] = pc[g]
      BY DEF IInv, Types
    <2>4. QED
      BY <1>1, <2>1, <2>2, <2>3 DEF IInv, Counted
  <1>7. Effects' /\ NonNegative'
    <2>1. ~Live(i)  BY <1>1 DEF IInv, Effects
    <2>2. \A j \in Handles : Live(j) => resources'[KeyOf[j]] = j
      <3>1. SUFFICES ASSUME NEW j \in Handles, Live(j) PROVE resources'[KeyOf[j]] = j
        OBVIOUS
      <3>2. resources[KeyOf[j]] = j  BY <3>1 DEF IInv, Effects
      <3>3. KeyOf[j] # KeyOf[h]  BY <3>1, <3>2, <2>1, <1>1
      <3>4. QED  BY <3>2, <3>3, KeyOfType DEF IInv, Types
    <2>3. QED
      BY <2>2 DEF IInv, Types, Effects, NonNegative, Holding, Live
  <1>8. QED  BY <1>3, <1>4, <1>5, <1>6, <1>7 DEF IInv

-----------------------------------------------------------------------------
LEMMA Inductive == IInv /\ [Next]_vars => IInv'
  <1> SUFFICES ASSUME IInv, [Next]_vars PROVE IInv'
    OBVIOUS
  <1>1. ASSUME NEW h \in Handles, Call(h) PROVE IInv'
    BY <1>1, CallStep
  <1>2. ASSUME NEW h \in Handles, Step(h) PROVE IInv'
    BY <1>2, AcquireStep, InstallStep, WaitStep, ReleaseStep, CleanerStep, DeleteStep
    DEF Step
  <1>3. CASE UNCHANGED vars
    BY <1>3 DEF vars, IInv, Types, Created, Pointers, Counted, Effects, NonNegative,
                Holders, Live
  <1>4. QED  BY <1>1, <1>2, <1>3 DEF Next

LEMMA Invariance == Spec => []IInv
  BY InitIInv, Inductive, PTL DEF Spec

(* Every variable keeps its type; in particular no reference count of      *)
(* release (resource_manager.go:115) ever drops below zero.                *)
THEOREM TypeCorrect == Spec => []TypeOK
  <1>1. IInv => TypeOK
    BY DEF IInv, Types, NonNegative, TypeOK
  <1>2. QED  BY <1>1, Invariance, PTL

(* At most one install of a key exists at a time: Acquire starts a second  *)
(* one only after the cleanup of the first has returned.                   *)
THEOREM OneInstall == Spec => []OneInstallPerKey
  <1>1. IInv => OneInstallPerKey
    BY DEF IInv, Effects, OneInstallPerKey
  <1>2. QED  BY <1>1, Invariance, PTL

(* No caller that was told its resource is ready loses it before it calls  *)
(* Cleanup.                                                                *)
THEOREM UsersAreSafe == Spec => []UsedIsIntact
  <1>1. IInv => UsedIsIntact
    BY DEF IInv, Pointers, Effects, Holding, UsedIsIntact
  <1>2. QED  BY <1>1, Invariance, PTL

(* The lookup by key in release finds the state Acquire handed out.        *)
THEOREM ReleaseFindsOwn == Spec => []ReleasesItsOwn
  <1>1. IInv => ReleasesItsOwn
    BY DEF IInv, Pointers, Holding, ReleasesItsOwn
  <1>2. QED  BY <1>1, Invariance, PTL

(* Whatever an install left in the cluster is listed in the registry, and  *)
(* somebody is responsible for it.                                         *)
THEOREM NoLeak == Spec => []NothingForgotten
  <1>1. IInv => NothingForgotten
    <2> SUFFICES ASSUME IInv, NEW i \in Handles, resources[KeyOf[i]] = i
                 PROVE  \/ count[i] > 0 /\ cleaningUp[i] = "nil" /\ Holders(i) # {}
                        \/ \E h \in Handles : state[h] = i /\ pc[h] \in {"draining", "tearing", "deleting"}
      BY DEF IInv, Effects, NothingForgotten
    <2>1. KeyOf[i] \in Keys /\ resources[KeyOf[i]] # None
      BY KeyOfType, NoneIsNoHandle
    <2>2. cleaningUp[i] \in {"nil", "open"}
      BY <2>1 DEF IInv, Types, Created
    <2>3. CASE cleaningUp[i] = "nil"
      <3>1. count[i] = Cardinality(Holders(i)) /\ count[i] > 0
        BY <2>3 DEF IInv, Counted
      <3>2. QED  BY <2>3, <3>1, FS_EmptySet
    <2>4. CASE cleaningUp[i] = "open"
      BY <2>4 DEF IInv, Counted, Cleaning
    <2>5. QED  BY <2>2, <2>3, <2>4
  <1>2. QED  BY <1>1, Invariance, PTL

(* A cleanup function runs at most once, after its install has succeeded.  *)
THEOREM TeardownRunsOnce == Spec => TeardownOnce
  <1>1. IInv /\ [Next]_vars =>
          [\A i \in Handles : teardown'[i] # teardown[i] =>
             /\ install[i] = "ok"
             /\ <<teardown[i], teardown'[i]>> \in {<<"none", "running">>, <<"running", "done">>}]_vars
    <2> SUFFICES ASSUME IInv, Next, NEW i \in Handles, teardown'[i] # teardown[i]
                 PROVE  /\ install[i] = "ok"
                        /\ <<teardown[i], teardown'[i]>> \in {<<"none", "running">>, <<"running", "done">>}
      OBVIOUS
    <2>1. PICK h \in Handles : TearDown(h) \/ TearDownReturns(h)
      BY DEF Next, Call, Step, Acquire, Park, Retry, Create, Share, InstallReturns, Wait,
             Cleanup, Release, Delete
    <2>2. CASE TearDown(h)
      BY <2>2 DEF TearDown, IInv, Types, Effects
    <2>3. CASE TearDownReturns(h)
      BY <2>3 DEF TearDownReturns, Goto, IInv, Types, Effects
    <2>4. QED  BY <2>1, <2>2, <2>3
  <1>2. QED  BY <1>1, Invariance, PTL DEF Spec, TeardownOnce

-----------------------------------------------------------------------------
(* Refinement of SharedResource.  Steps that leave the holders and the     *)
(* phase of every key alone are invisible to the abstract specification.   *)
LEMMA Invisible ==
  ASSUME \A k \in Keys : OwnersOf(k)' = OwnersOf(k) /\ PhaseOf(k)' = PhaseOf(k)
  PROVE  UNCHANGED Shared!vars
  BY DEF Shared!vars

LEMMA OwnersAreHolders ==
  ASSUME IInv, NEW k \in Keys, resources[k] # None
  PROVE  OwnersOf(k) = Holders(resources[k])
  BY DEF IInv, Types, Created, Pointers, Holding, OwnersOf, Holders

LEMMA TakeSimulated ==
  ASSUME IInv, NEW h \in Handles, Create(h) \/ Share(h)
  PROVE  Shared!Take(h)
  <1> DEFINE k == KeyOf[h]
  <1>1. k \in Keys  BY KeyOfType
  <1>2. pc[h] = "acquiring" /\ pc' = [pc EXCEPT ![h] = "held"]
    BY DEF Create, Share, Goto
  <1>3. h \notin OwnersOf(k)  BY <1>2 DEF OwnersOf
  <1>4. OwnersOf(k)' = OwnersOf(k) \cup {h}
    BY <1>2 DEF OwnersOf, IInv, Types
  <1>5. \A l \in Keys \ {k} : OwnersOf(l)' = OwnersOf(l)
    BY <1>2 DEF OwnersOf, IInv, Types
  <1>6. /\ PhaseOf(k) # "removing"
        /\ PhaseOf(k)' = IF PhaseOf(k) = "absent" THEN "installing" ELSE PhaseOf(k)
    <2>1. CASE Create(h)
      <3>1. cleaningUp[h] = "nil"  BY <1>2 DEF IInv, Created, Waiting
      <3>2. resources'[k] = h /\ install'[h] = "running" /\ cleaningUp'[h] = "nil"
        BY <2>1, <1>1, <3>1 DEF Create, IInv, Types
      <3>3. QED  BY <2>1, <3>2, NoneIsNoHandle DEF Create, Entry, PhaseOf
    <2>2. CASE Share(h)
      BY <2>2 DEF Share, Entry, PhaseOf
    <2>3. QED  BY <2>1, <2>2
  <1>7. \A l \in Keys \ {k} : PhaseOf(l)' = PhaseOf(l)
    <2>1. CASE Create(h)
      <3>1. install[h] = "none"  BY <1>2 DEF IInv, Types, Created, Waiting
      <3>2. \A l \in Keys : resources[l] # h  BY <3>1, NoneIsNoHandle DEF IInv, Created
      <3>3. QED  BY <2>1, <3>2 DEF Create, IInv, Types, PhaseOf
    <2>2. CASE Share(h)
      BY <2>2 DEF Share, PhaseOf
    <2>3. QED  BY <2>1, <2>2
  <1> HIDE DEF k
  <1>8. QED
    BY <1>1, <1>3, <1>4, <1>5, <1>6, <1>7 DEF Shared!Take, k

LEMMA SettleSimulated ==
  ASSUME IInv, NEW i \in Handles, InstallReturns(i)
  PROVE  Shared!Settle(KeyOf[i]) \/ UNCHANGED Shared!vars
  <1> USE DEF InstallReturns
  <1>1. KeyOf[i] \in Keys /\ resources[KeyOf[i]] = i /\ i # None
    BY KeyOfType, NoneIsNoHandle DEF IInv, Effects, Live
  <1>2. \A k \in Keys : OwnersOf(k)' = OwnersOf(k)
    BY DEF OwnersOf
  <1>3. \A k \in Keys \ {KeyOf[i]} : PhaseOf(k)' = PhaseOf(k)
    BY <1>1 DEF IInv, Types, Created, PhaseOf
  <1>4. CASE cleaningUp[i] = "nil"
    <2>1. PhaseOf(KeyOf[i]) = "installing"  BY <1>1, <1>4 DEF PhaseOf
    <2>2. PhaseOf(KeyOf[i])' \in {"present", "failed"}
      BY <1>1, <1>4 DEF PhaseOf, IInv, Types
    <2>3. QED  BY <1>1, <1>2, <1>3, <2>1, <2>2 DEF Shared!Settle
  <1>5. CASE cleaningUp[i] # "nil"
    <2>1. PhaseOf(KeyOf[i])' = PhaseOf(KeyOf[i])  BY <1>1, <1>5 DEF PhaseOf
    <2>2. QED  BY <1>2, <1>3, <2>1, Invisible
  <1>6. QED  BY <1>4, <1>5

LEMMA DropSimulated ==
  ASSUME IInv, NEW h \in Handles, Release(h)
  PROVE  Shared!Drop(h)
  <1>0. PICK i \in Handles : i = state[h]
    BY ReleaseFacts DEF Release
  <1>1. /\ pc[h] = "releasing" /\ i # None
        /\ resources[KeyOf[h]] = i /\ cleaningUp[i] = "nil"
        /\ KeyOf[h] \in Keys /\ KeyOf[i] = KeyOf[h]
        /\ count[i] - 1 <= 0 <=> Holders(i) = {h}
    BY <1>0, ReleaseFacts, KeyOfType DEF Release, Entry
  <1>2. OwnersOf(KeyOf[h]) = Holders(i)
    BY <1>1, OwnersAreHolders
  <1>3. /\ pc' = [pc EXCEPT ![h] = IF Holders(i) = {h} THEN "draining" ELSE "done"]
        /\ cleaningUp' = [cleaningUp EXCEPT ![i] = IF Holders(i) = {h} THEN "open" ELSE @]
        /\ UNCHANGED <<resources, install>>
    BY <1>1 DEF Release, Entry
  <1>4. h \in OwnersOf(KeyOf[h])  BY <1>1 DEF OwnersOf
  <1>5. OwnersOf(KeyOf[h])' = OwnersOf(KeyOf[h]) \ {h}
    BY <1>3 DEF OwnersOf, IInv, Types
  <1>6. \A k \in Keys \ {KeyOf[h]} : OwnersOf(k)' = OwnersOf(k)
    BY <1>3 DEF OwnersOf, IInv, Types
  <1>7. PhaseOf(KeyOf[h])' =
          IF OwnersOf(KeyOf[h]) = {h} THEN "removing" ELSE PhaseOf(KeyOf[h])
    BY <1>1, <1>2, <1>3 DEF PhaseOf, IInv, Types
  <1>8. \A k \in Keys \ {KeyOf[h]} : PhaseOf(k)' = PhaseOf(k)
    <2>1. \A k \in Keys \ {KeyOf[h]} : resources[k] # i
      BY <1>1 DEF IInv, Created
    <2>2. QED  BY <2>1, <1>3 DEF PhaseOf, IInv, Types
  <1>9. QED
    BY <1>1, <1>4, <1>5, <1>6, <1>7, <1>8 DEF Shared!Drop

LEMMA RemoveSimulated ==
  ASSUME IInv, NEW h \in Handles, Delete(h)
  PROVE  Shared!Remove(KeyOf[h])
  <1> USE DEF Delete, Goto
  <1>1. PICK i \in Handles : /\ i = state[h] /\ cleaningUp[i] = "open"
                             /\ resources[KeyOf[h]] = i /\ i # None
    BY NoneIsNoHandle DEF IInv, Types, Pointers, Cleaning
  <1>2. KeyOf[h] \in Keys  BY KeyOfType
  <1>3. PhaseOf(KeyOf[h]) = "removing"  BY <1>1 DEF PhaseOf
  <1>4. PhaseOf(KeyOf[h])' = "absent"  BY <1>2 DEF PhaseOf, IInv, Types
  <1>5. \A k \in Keys : OwnersOf(k)' = OwnersOf(k)
    BY DEF OwnersOf, IInv, Types
  <1>6. \A k \in Keys \ {KeyOf[h]} : PhaseOf(k)' = PhaseOf(k)
    <2>1. \A k \in Keys \ {KeyOf[h]} : resources[k] # i
      BY <1>1, NoneIsNoHandle DEF IInv, Types, Created, Pointers, Cleaning
    <2>2. QED  BY <2>1, <1>1 DEF PhaseOf, IInv, Types
  <1>7. QED  BY <1>2, <1>3, <1>4, <1>5, <1>6 DEF Shared!Remove

LEMMA OthersInvisible ==
  ASSUME IInv, NEW h \in Handles,
         \/ Call(h) \/ Park(h) \/ Retry(h) \/ Wait(h) \/ Cleanup(h)
         \/ TearDown(h) \/ TearDownReturns(h)
  PROVE  UNCHANGED Shared!vars
  <1> USE DEF Call, Park, Retry, Wait, Cleanup, TearDown, TearDownReturns, Goto
  <1>1. \A k \in Keys : OwnersOf(k)' = OwnersOf(k)
    BY DEF OwnersOf, IInv, Types
  <1>2. \A k \in Keys : PhaseOf(k)' = PhaseOf(k)
    BY DEF PhaseOf
  <1>3. QED  BY <1>1, <1>2, Invisible

(* The registry of resource_manager.go, with its goroutines, channels and  *)
(* counts, keeps the promise of SharedResource.                            *)
THEOREM Refinement == Spec => ImplementsSharedResource
  <1>1. Init => Shared!Init
    BY KeyOfType DEF Init, OwnersOf, PhaseOf, Shared!Init
  <1>2. IInv /\ [Next]_vars => [Shared!Next]_(Shared!vars)
    <2> SUFFICES ASSUME IInv, [Next]_vars
                 PROVE  Shared!Next \/ UNCHANGED Shared!vars
      OBVIOUS
    <2>1. CASE UNCHANGED vars
      <3>1. \A k \in Keys : OwnersOf(k)' = OwnersOf(k) /\ PhaseOf(k)' = PhaseOf(k)
        BY <2>1 DEF vars, OwnersOf, PhaseOf
      <3>2. QED  BY <3>1, Invisible
    <2>2. ASSUME NEW h \in Handles, Call(h) \/ Step(h)
          PROVE  Shared!Next \/ UNCHANGED Shared!vars
      <3>1. CASE Create(h) \/ Share(h)
        BY <3>1, TakeSimulated DEF Shared!Next
      <3>2. CASE InstallReturns(h)
        BY <3>2, SettleSimulated, KeyOfType DEF Shared!Next
      <3>3. CASE Release(h)
        BY <3>3, DropSimulated DEF Shared!Next
      <3>4. CASE Delete(h)
        BY <3>4, RemoveSimulated, KeyOfType DEF Shared!Next
      <3>5. QED
        BY <2>2, <3>1, <3>2, <3>3, <3>4, OthersInvisible DEF Step, Acquire
    <2>3. QED  BY <2>1, <2>2 DEF Next
  <1>3. QED
    BY <1>1, <1>2, Invariance, PTL DEF Spec, ImplementsSharedResource, Shared!Spec
=============================================================================
