-------------------------- MODULE PortForward_proof --------------------------
(***************************************************************************)
(* TLAPS proofs about PortForward, for any number of tests, forwards and   *)
(* slots.                                                                  *)
(*                                                                         *)
(* The inductive invariant IInv has two halves that lean on each other.    *)
(* Slots says how the semaphore's counter and queue relate to the states   *)
(* of the forwards; Place and Where say in which state a forward can be,   *)
(* given how far its test is, so that each release finds a slot to give    *)
(* back and each test knows what it leaves behind.                         *)
(***************************************************************************)
EXTENDS PortForward, FiniteSetTheorems, TLAPS

Grip == {"granted", "dialing", "up", "lost"}

(* The queue: forwards that wait, each once.                               *)
QueueOK ==
  /\ \A i \in 1 .. Len(waiters) : conn[waiters[i]] = "waiting"
  /\ \A i, j \in 1 .. Len(waiters) : waiters[i] = waiters[j] => i = j

SlotTypes ==
  /\ conn \in [Forwards -> Conn]
  /\ used \in Nat
  /\ waiters \in Seq(Forwards)

SlotsInv == SlotTypes /\ IsFiniteSet(Holders) /\ SlotsAccounted /\ QueueOK

TestTypes ==
  /\ pc \in [Tests -> PC]
  /\ setUp \in [Tests -> SetUps]
  /\ started \in [Tests -> Nat]
  /\ verified \in [Tests -> Nat]
  /\ attempts \in [Tests -> 0 .. MaxAttempts - 1]
  /\ cleanups \in [Tests -> 0 .. 2]
  /\ failedAt \in [Tests -> PC \cup {"none"}]

Ended(t) == pc[t] \in {"cleanup", "done"}

Leaky(t) == failedAt[t] \in {"find", "start"}

(* How many forwards are started and which cleanups are registered, for    *)
(* each place a test can be at.                                            *)
Place(t) ==
  /\ pc[t] \in {"find", "start"} =>
       /\ failedAt[t] = "none"
       /\ cleanups[t] = setUp[t] - 1
       /\ started[t] < Needs(t, setUp[t])
  /\ pc[t] \in {"verify", "convert"} =>
       /\ failedAt[t] = "none"
       /\ cleanups[t] = setUp[t]
       /\ started[t] = Needs(t, setUp[t])
  /\ pc[t] = "convert" => setUp[t] = 1
  /\ Ended(t) => IF Leaky(t) THEN cleanups[t] < setUp[t] /\ started[t] < Needs(t, setUp[t])
                 ELSE cleanups[t] <= setUp[t] /\ started[t] = Needs(t, setUp[t])
  /\ pc[t] = "done" => cleanups[t] = 0

(* Forwards of a later turn, the one whose turn it is, earlier ones.       *)
Later(f) == f[2] > setUp[f[1]] \/ (f[2] = setUp[f[1]] /\ f[3] > started[f[1]] + 1)

Now(f) == f[2] = setUp[f[1]] /\ f[3] = started[f[1]] + 1

Before(f) == f[2] < setUp[f[1]] \/ (f[2] = setUp[f[1]] /\ f[3] <= started[f[1]])

Where(f) ==
  LET t == f[1] IN
  /\ Later(f) => conn[f] = "none"
  /\ Now(f) => IF pc[t] = "start" THEN conn[f] \notin {"stopping", "over"}
               ELSE conn[f] = IF failedAt[t] = "start" THEN "over" ELSE "none"
  /\ Before(f) => IF ~Ended(t) \/ (f[2] = setUp[t] /\ Leaky(t)) THEN conn[f] \in {"up", "lost"}
                  ELSE /\ conn[f] \in {"up", "lost", "stopping", "over"}
                       /\ f[2] > cleanups[t] => conn[f] \in {"stopping", "over"}

Places == \A t \in Tests : Place(t)

Wheres == \A f \in Forwards : Where(f)

IInv == TestTypes /\ SlotsInv /\ Places /\ Wheres

-----------------------------------------------------------------------------
(* A forward is a test, one of its set-ups and a number.                   *)
LEMMA ForwardShape ==
  \A f \in Forwards : /\ f[1] \in Tests /\ f[2] \in SetUps /\ f[3] \in 1 .. Needs(f[1], f[2])
                      /\ f = <<f[1], f[2], f[3]>>
<1> SUFFICES ASSUME NEW f \in Forwards
             PROVE  /\ f[1] \in Tests /\ f[2] \in SetUps /\ f[3] \in 1 .. Needs(f[1], f[2])
                    /\ f = <<f[1], f[2], f[3]>>
  OBVIOUS
<1>1. PICK t \in Tests, s \in SetUps : f \in ForwardsOf(t, s)
  BY DEF Forwards
<1>2. PICK n \in 1 .. Needs(t, s) : f = <<t, s, n>>
  BY <1>1 DEF ForwardsOf
<1> QED BY <1>2

LEMMA ForwardIn ==
  ASSUME NEW t \in Tests, NEW s \in SetUps, NEW n \in 1 .. Needs(t, s)
  PROVE  <<t, s, n>> \in Forwards
<1>1. <<t, s, n>> \in ForwardsOf(t, s)
  BY DEF ForwardsOf
<1> QED BY <1>1 DEF Forwards

(* A set-up starts at least one forward.                                   *)
LEMMA NeedsPositive == \A t \in Tests, s \in SetUps : Needs(t, s) \in Nat \ {0}
<1> SUFFICES ASSUME NEW t \in Tests, NEW s \in SetUps PROVE Needs(t, s) \in Nat \ {0}
  OBVIOUS
<1>1. Services[t][s] \in Nat \ {0}
  BY ServicesType
<1> QED BY <1>1 DEF Needs

(* A turn that neither takes nor gives back a slot.                        *)
LEMMA TurnKeepsSlots ==
  ASSUME SlotsInv, NEW f \in Forwards, NEW to \in Conn, Turn(f, to),
         UNCHANGED <<used, waiters>>,
         conn[f] # "waiting", conn[f] \in Grip <=> to \in Grip
  PROVE  SlotsInv'
<1>1. conn' = [conn EXCEPT ![f] = to] /\ conn \in [Forwards -> Conn] /\ waiters \in Seq(Forwards)
  BY DEF SlotsInv, SlotTypes, Turn
<1>2. Holders' = Holders
  BY <1>1 DEF Holders, Grip
<1>3. QueueOK'
  BY <1>1 DEF SlotsInv, QueueOK
<1> QED BY <1>1, <1>2, <1>3 DEF SlotsInv, SlotTypes, SlotsAccounted

(* Acquire counts the slot it takes, or queues when there is none.         *)
LEMMA AcquireKeepsSlots ==
  ASSUME SlotsInv, NEW f \in Forwards, conn[f] = "none", Acquire(f)
  PROVE  SlotsInv'
<1>1. conn \in [Forwards -> Conn] /\ used \in Nat /\ waiters \in Seq(Forwards)
  BY DEF SlotsInv, SlotTypes
<1>2. IsFiniteSet(Holders) /\ SlotsAccounted /\ f \notin Holders
  BY DEF SlotsInv, Holders
<1>3. CASE used < Slots /\ waiters = <<>>
  <2>1. conn' = [conn EXCEPT ![f] = "granted"] /\ used' = used + 1 /\ waiters' = waiters
    BY <1>3 DEF Acquire, Turn
  <2>2. Holders' = Holders \cup {f}
    BY <1>1, <2>1 DEF Holders
  <2>3. IsFiniteSet(Holders') /\ Cardinality(Holders') = Cardinality(Holders) + 1
    BY <1>2, <2>2, FS_AddElement
  <2>4. SlotTypes'
    BY <1>1, <2>1 DEF SlotTypes, Conn
  <2>5. SlotsAccounted'
    BY <1>1, <1>2, <1>3, <2>1, <2>3, SlotsType DEF SlotsAccounted
  <2>6. QueueOK'
    BY <1>3, <2>1 DEF QueueOK
  <2> QED BY <2>3, <2>4, <2>5, <2>6 DEF SlotsInv
<1>4. CASE ~(used < Slots /\ waiters = <<>>)
  <2>1. conn' = [conn EXCEPT ![f] = "waiting"] /\ used' = used /\ waiters' = Append(waiters, f)
    BY <1>4 DEF Acquire, Turn
  <2>2. Holders' = Holders
    BY <1>1, <1>2, <2>1 DEF Holders
  <2>3. SlotTypes'
    BY <1>1, <2>1 DEF SlotTypes, Conn
  <2>4. SlotsAccounted'
    BY <1>1, <1>2, <1>4, <2>1, <2>2, SlotsType DEF SlotsAccounted
  <2>5. Len(waiters') = Len(waiters) + 1 /\ Len(waiters) \in Nat
        /\ waiters'[Len(waiters) + 1] = f
        /\ \A i \in 1 .. Len(waiters) : waiters'[i] = waiters[i]
    BY <1>1, <2>1
  <2>6. \A i \in 1 .. Len(waiters) : waiters[i] \in Forwards /\ waiters[i] # f
    BY <1>1 DEF SlotsInv, QueueOK
  <2>7. \A i \in 1 .. Len(waiters') : conn'[waiters'[i]] = "waiting"
    BY <1>1, <2>1, <2>5, <2>6 DEF SlotsInv, QueueOK
  <2>8. \A i, j \in 1 .. Len(waiters') : waiters'[i] = waiters'[j] => i = j
    BY <2>5, <2>6 DEF SlotsInv, QueueOK
  <2> QED BY <1>2, <2>2, <2>3, <2>4, <2>7, <2>8 DEF SlotsInv, QueueOK
<1> QED BY <1>3, <1>4

(* What Release does to the states of the forwards.                        *)
Woken(f, to, w) == conn' = [conn EXCEPT ![f] = to, ![w] = "granted"]

LEMMA ReleaseTurns ==
  ASSUME SlotsInv, NEW f \in Forwards, NEW to \in Conn \ Grip, Release(f, to)
  PROVE  \/ conn' = [conn EXCEPT ![f] = to]
         \/ \E w \in Forwards : conn[w] = "waiting" /\ Woken(f, to, w)
<1>1. CASE waiters = <<>>
  BY <1>1 DEF Release, Turn
<1>2. CASE waiters # <<>>
  <2>1. Head(waiters) = waiters[1] /\ 1 \in 1 .. Len(waiters) /\ waiters[1] \in Forwards
    BY <1>2 DEF SlotsInv, SlotTypes
  <2>2. conn[Head(waiters)] = "waiting"
    BY <2>1 DEF SlotsInv, QueueOK
  <2>3. Woken(f, to, Head(waiters))
    BY <1>2 DEF Release, Woken
  <2> QED BY <2>1, <2>2, <2>3
<1> QED BY <1>1, <1>2

(* Release takes one holder off the count, or hands its slot to the first  *)
(* in the queue.                                                           *)
LEMMA ReleaseKeepsSlots ==
  ASSUME SlotsInv, NEW f \in Forwards, conn[f] \in Grip, NEW to \in Conn \ Grip,
         to # "waiting", Release(f, to)
  PROVE  SlotsInv'
<1>1. conn \in [Forwards -> Conn] /\ used \in Nat /\ waiters \in Seq(Forwards)
  BY DEF SlotsInv, SlotTypes
<1>2. IsFiniteSet(Holders) /\ SlotsAccounted /\ f \in Holders
  BY DEF SlotsInv, Holders, Grip
<1>3. IsFiniteSet(Holders \ {f}) /\ Cardinality(Holders \ {f}) = Cardinality(Holders) - 1
  BY <1>2, FS_RemoveElement
<1>4. CASE waiters = <<>>
  <2>1. conn' = [conn EXCEPT ![f] = to] /\ used' = used - 1 /\ waiters' = waiters
    BY <1>4 DEF Release, Turn
  <2>2. Holders' = Holders \ {f}
    BY <1>1, <2>1 DEF Holders, Grip
  <2>3. used' \in Nat
    <3>1. Cardinality(Holders \ {f}) \in Nat
      BY <1>3, FS_CardinalityType
    <3> QED BY <1>2, <1>3, <2>1, <3>1 DEF SlotsAccounted
  <2>4. SlotTypes'
    BY <1>1, <2>1, <2>3 DEF SlotTypes
  <2>5. SlotsAccounted'
    BY <1>1, <1>2, <1>3, <1>4, <2>1, <2>2, SlotsType DEF SlotsAccounted
  <2>6. QueueOK'
    BY <1>4, <2>1 DEF QueueOK
  <2> QED BY <1>3, <2>2, <2>4, <2>5, <2>6 DEF SlotsInv
<1>5. CASE waiters # <<>>
  <2> DEFINE w == waiters[1]
  <2>1. /\ Len(waiters) \in Nat \ {0} /\ w \in Forwards /\ w = Head(waiters)
        /\ Tail(waiters) \in Seq(Forwards)
        /\ Len(Tail(waiters)) = Len(waiters) - 1
        /\ \A i \in 1 .. Len(Tail(waiters)) : Tail(waiters)[i] = waiters[i + 1]
    BY <1>1, <1>5
  <2>2. conn' = [conn EXCEPT ![f] = to, ![w] = "granted"]
        /\ used' = used /\ waiters' = Tail(waiters)
    BY <1>5, <2>1 DEF Release
  <2>3. conn[w] = "waiting" /\ w # f /\ w \notin Holders
    BY <2>1 DEF SlotsInv, QueueOK, Holders, Grip
  <2>4. Holders' = (Holders \ {f}) \cup {w}
    BY <1>1, <2>1, <2>2, <2>3 DEF Holders, Grip
  <2>5. IsFiniteSet(Holders') /\ Cardinality(Holders') = Cardinality(Holders)
    <3>1. IsFiniteSet(Holders') /\ Cardinality(Holders') = Cardinality(Holders \ {f}) + 1
      BY <1>3, <2>3, <2>4, FS_AddElement
    <3>2. Cardinality(Holders) \in Nat
      BY <1>2, FS_CardinalityType
    <3> QED BY <1>3, <3>1, <3>2
  <2>6. SlotTypes'
    BY <1>1, <2>1, <2>2 DEF SlotTypes, Conn
  <2>7. SlotsAccounted'
    BY <1>2, <1>5, <2>2, <2>5 DEF SlotsAccounted
  <2>8. QueueOK'
    <3>1. \A i \in 1 .. Len(waiters) : waiters[i] \in Forwards /\ conn[waiters[i]] = "waiting"
      BY <1>1 DEF SlotsInv, QueueOK
    <3>2. \A i \in 1 .. Len(waiters') : /\ i + 1 \in 1 .. Len(waiters)
                                         /\ waiters'[i] = waiters[i + 1]
      BY <2>1, <2>2
    <3>3. \A i \in 1 .. Len(waiters') : conn'[waiters'[i]] = "waiting"
      <4> SUFFICES ASSUME NEW i \in 1 .. Len(waiters') PROVE conn'[waiters'[i]] = "waiting"
        OBVIOUS
      <4>1. waiters[i + 1] \in Forwards /\ conn[waiters[i + 1]] = "waiting"
        BY <3>1, <3>2
      <4>2. waiters[i + 1] # w
        BY <2>1, <3>2 DEF SlotsInv, QueueOK
      <4>3. waiters[i + 1] # f
        BY <4>1 DEF Grip
      <4> QED BY <1>1, <2>2, <3>2, <4>1, <4>2, <4>3
    <3>4. \A i, j \in 1 .. Len(waiters') : waiters'[i] = waiters'[j] => i = j
      BY <2>1, <2>2, <3>2 DEF SlotsInv, QueueOK
    <3> QED BY <3>3, <3>4 DEF QueueOK
  <2> QED BY <2>5, <2>6, <2>7, <2>8 DEF SlotsInv
<1> QED BY <1>4, <1>5

-----------------------------------------------------------------------------
(* The forward a test starts is one of its own, and its turn has come.     *)
LEMMA CurrentForward ==
  ASSUME TestTypes, NEW t \in Tests, Place(t), pc[t] = "start"
  PROVE  Current(t) \in Forwards /\ Now(Current(t)) /\ Current(t)[1] = t
<1>1. setUp[t] \in SetUps /\ started[t] \in Nat /\ started[t] < Needs(t, setUp[t])
  BY DEF TestTypes, Place
<1>2. started[t] + 1 \in 1 .. Needs(t, setUp[t])
  BY <1>1, NeedsPositive
<1> QED BY <1>1, <1>2, ForwardIn DEF Current, Now

(* Only the forward whose turn it is waits for a slot or for its           *)
(* connection.                                                             *)
LEMMA Pending ==
  ASSUME TestTypes, Wheres, NEW f \in Forwards, conn[f] \in {"waiting", "granted", "dialing"}
  PROVE  Now(f) /\ pc[f[1]] = "start"
<1>1. f[1] \in Tests /\ f[2] \in SetUps /\ f[3] \in Nat
  BY ForwardShape
<1>2. setUp[f[1]] \in SetUps /\ started[f[1]] \in Nat
  BY <1>1 DEF TestTypes
<1>3. Later(f) \/ Now(f) \/ Before(f)
  BY <1>1, <1>2 DEF Later, Now, Before, SetUps
<1> QED BY <1>3 DEF Wheres, Where

(* The goroutines' turns change no test's place in its forwards.           *)
LEMMA TurnKeepsWhere ==
  ASSUME TestTypes, SlotsInv, Wheres, NEW f \in Forwards, NEW to \in Conn, Turn(f, to),
         UNCHANGED testVars,
         \/ conn[f] \in {"dialing", "up", "lost"} /\ to \in {"up", "lost"}
         \/ conn[f] = "stopping" /\ to = "over"
  PROVE  Wheres'
<1> SUFFICES ASSUME NEW g \in Forwards PROVE Where(g)'
  BY DEF Wheres
<1>1. conn' = [conn EXCEPT ![f] = to] /\ conn \in [Forwards -> Conn]
  BY DEF Turn, SlotsInv, SlotTypes
<1>2. Where(g)
  BY DEF Wheres
<1>3. Later(g)' = Later(g) /\ Now(g)' = Now(g) /\ Before(g)' = Before(g)
  BY DEF testVars, Later, Now, Before
<1>4. CASE g # f
  BY <1>1, <1>2, <1>3, <1>4 DEF Where, testVars, Ended, Leaky
<1>5. CASE g = f
  BY <1>1, <1>2, <1>3, <1>5 DEF Where, testVars, Ended, Leaky
<1> QED BY <1>4, <1>5

(* Steps of a test that turn no forward.                                   *)
LEMMA SameSlots == ASSUME SlotsInv, UNCHANGED <<conn, used, waiters>> PROVE SlotsInv'
BY DEF SlotsInv, SlotTypes, SlotsAccounted, QueueOK, Holders

-----------------------------------------------------------------------------
LEMMA InitIInv == Init => IInv
<1> SUFFICES ASSUME Init PROVE IInv
  OBVIOUS
<1>1. TestTypes
  BY MaxAttemptsType DEF Init, TestTypes, PC, SetUps
<1>2. SlotsInv
  <2>1. Holders = {}
    BY DEF Init, Holders
  <2>2. IsFiniteSet(Holders) /\ Cardinality(Holders) = 0
    BY <2>1, FS_EmptySet
  <2> QED BY <2>2, SlotsType DEF Init, SlotsInv, SlotTypes, SlotsAccounted, QueueOK, Conn
<1>3. Places
  BY NeedsPositive DEF Init, Places, Place, Ended, SetUps
<1>4. Wheres
  <2> SUFFICES ASSUME NEW f \in Forwards PROVE Where(f)
    BY DEF Wheres
  <2>1. f[1] \in Tests /\ f[2] \in SetUps /\ f[3] \in 1 .. Needs(f[1], f[2])
    BY ForwardShape
  <2>2. ~Before(f)
    BY <2>1, NeedsPositive DEF Init, Before, SetUps
  <2> QED BY <2>1, <2>2 DEF Init, Where
<1> QED BY <1>1, <1>2, <1>3, <1>4 DEF IInv

(* The slots stay accounted for.                                           *)
LEMMA NextSlots == ASSUME IInv, [Next]_vars PROVE SlotsInv'
<1> USE DEF IInv
<1>1. CASE UNCHANGED vars
  BY <1>1, SameSlots DEF vars
<1>2. ASSUME NEW t \in Tests, TakeSlot(t) PROVE SlotsInv'
  BY <1>2, CurrentForward, AcquireKeepsSlots DEF TakeSlot, Places
<1>3. ASSUME NEW t \in Tests, Dial(t) PROVE SlotsInv'
  <2>1. Current(t) \in Forwards /\ conn[Current(t)] = "granted"
    BY <1>3, CurrentForward DEF Dial, Places
  <2> QED BY <1>3, <2>1, TurnKeepsSlots DEF Dial, Conn, Grip
<1>4. ASSUME NEW t \in Tests, StartFails(t) PROVE SlotsInv'
  <2>1. Current(t) \in Forwards /\ conn[Current(t)] \in Grip
    BY <1>4, CurrentForward DEF StartFails, Places, Grip
  <2> QED BY <1>4, <2>1, ReleaseKeepsSlots DEF StartFails, Conn, Grip
<1>5. ASSUME NEW t \in Tests, Stop(t) PROVE SlotsInv'
  <2>1. PICK f \in ToStop(t) : Release(f, IF conn[f] = "up" THEN "stopping" ELSE "over")
    BY <1>5 DEF Stop
  <2>2. f \in Forwards /\ conn[f] \in Grip
    BY <2>1 DEF ToStop, Grip
  <2> QED BY <2>1, <2>2, ReleaseKeepsSlots DEF Conn, Grip
<1>6. ASSUME NEW f \in Forwards, Forward(f) PROVE SlotsInv'
  <2>1. CASE Connect(f)
    BY <2>1, TurnKeepsSlots DEF Connect, Conn, Grip
  <2>2. CASE Break(f)
    BY <2>2, TurnKeepsSlots DEF Break, Conn, Grip
  <2>3. CASE Disconnect(f)
    BY <2>3, TurnKeepsSlots DEF Disconnect, Conn, Grip
  <2> QED BY <1>6, <2>1, <2>2, <2>3 DEF Forward
<1>7. ASSUME NEW t \in Tests,
             \/ FindService(t) \/ ServiceMissing(t) \/ Ready(t) \/ Answered(t)
             \/ Unanswered(t) \/ Convert(t) \/ ConvertFails(t) \/ CleanedUp(t)
      PROVE  SlotsInv'
  BY <1>7, SameSlots DEF FindService, ServiceMissing, Ready, Answered, Unanswered,
     Convert, ConvertFails, CleanedUp
<1> QED BY <1>1, <1>2, <1>3, <1>4, <1>5, <1>6, <1>7 DEF Next, Step, AllEnded

(* Every test stays where the steps of a test can take it.                 *)
LEMMA NextPlaces == ASSUME IInv, [Next]_vars PROVE TestTypes' /\ Places'
<1> USE DEF IInv
<1>1. CASE UNCHANGED vars
  BY <1>1 DEF vars, TestTypes, Places, Place, Ended, Leaky
<1>2. ASSUME NEW f \in Forwards, Forward(f) PROVE UNCHANGED testVars
  BY <1>2 DEF Forward, Connect, Break, Disconnect
<1>3. CASE UNCHANGED testVars
  BY <1>3 DEF testVars, TestTypes, Places, Place, Ended, Leaky
<1>4. ASSUME NEW t \in Tests, Step(t) PROVE TestTypes' /\ Places'
  <2>1. TestTypes /\ Place(t) /\ Needs(t, 1) \in Nat \ {0} /\ Needs(t, 2) \in Nat \ {0}
    BY NeedsPositive DEF Places, SetUps
  <2>2. SUFFICES TestTypes' /\ Place(t)' /\ \A u \in Tests \ {t} :
                   UNCHANGED <<pc[u], setUp[u], started[u], cleanups[u], failedAt[u]>>
    BY DEF Places, Place, Ended, Leaky
  <2>3. CASE FindService(t)
    BY <2>1, <2>3 DEF FindService, Goto, TestTypes, Place, PC, Ended
  <2>4. CASE ServiceMissing(t)
    BY <2>1, <2>4 DEF ServiceMissing, Fail, Goto, TestTypes, Place, PC, Ended, Leaky, SetUps
  <2>5. CASE TakeSlot(t) \/ Dial(t) \/ Stop(t)
    BY <2>1, <2>5 DEF TakeSlot, Dial, Stop, testVars, TestTypes, Place, Ended, Leaky
  <2>6. CASE StartFails(t)
    BY <2>1, <2>6 DEF StartFails, Fail, Goto, TestTypes, Place, PC, Ended, Leaky, SetUps
  <2>7. CASE Ready(t)
    <3>1. started' = [started EXCEPT ![t] = started[t] + 1] /\ pc[t] = "start"
          /\ UNCHANGED <<setUp, verified, attempts, failedAt>>
      BY <2>7 DEF Ready
    <3>2. started[t] < Needs(t, setUp[t]) /\ failedAt[t] = "none" /\ cleanups[t] = setUp[t] - 1
      BY <2>1, <3>1 DEF Place
    <3>3. started[t] \in Nat /\ setUp[t] \in SetUps /\ Needs(t, setUp[t]) \in Nat
      BY <2>1 DEF TestTypes, SetUps
    <3>4. CASE started[t] + 1 = Needs(t, setUp[t])
      <4>1. pc' = [pc EXCEPT ![t] = "verify"] /\ cleanups' = [cleanups EXCEPT ![t] = setUp[t]]
        BY <2>7, <3>4 DEF Ready, AfterStart, Goto
      <4> QED BY <2>1, <3>1, <3>2, <3>3, <3>4, <4>1 DEF TestTypes, Place, PC, Ended, SetUps
    <3>5. CASE started[t] + 1 # Needs(t, setUp[t])
      <4>1. PICK x \in {"start", "find"} : pc' = [pc EXCEPT ![t] = x]
        BY <2>7, <3>5 DEF Ready, AfterStart, Goto
      <4>2. cleanups' = cleanups
        BY <2>7, <3>5 DEF Ready, AfterStart
      <4> QED BY <2>1, <3>1, <3>2, <3>3, <3>5, <4>1, <4>2 DEF TestTypes, Place, PC, Ended, SetUps
    <3> QED BY <3>4, <3>5
  <2>8. CASE Answered(t)
    <3>1. /\ pc[t] = "verify" /\ attempts' = [attempts EXCEPT ![t] = 0]
          /\ UNCHANGED <<setUp, started, cleanups, failedAt>>
      BY <2>8 DEF Answered
    <3>2. \/ verified' = [verified EXCEPT ![t] = verified[t] + 1] /\ pc' = pc
          \/ /\ pc' = [pc EXCEPT ![t] = IF setUp[t] = 1 THEN "convert" ELSE "cleanup"]
             /\ verified' = verified
      BY <2>8 DEF Answered, AfterVerify, Goto
    <3>3. attempts' \in [Tests -> 0 .. MaxAttempts - 1] /\ verified' \in [Tests -> Nat]
      BY <2>1, <3>1, <3>2, MaxAttemptsType DEF TestTypes
    <3> QED BY <2>1, <3>1, <3>2, <3>3 DEF TestTypes, Place, PC, Ended, Leaky, SetUps
  <2>9. CASE Unanswered(t)
    <3>1. /\ pc[t] = "verify"
          /\ UNCHANGED <<setUp, started, verified, cleanups>>
      BY <2>9 DEF Unanswered
    <3>2. \/ /\ attempts[t] + 1 < MaxAttempts
             /\ attempts' = [attempts EXCEPT ![t] = attempts[t] + 1]
             /\ UNCHANGED <<pc, failedAt>>
          \/ /\ pc' = [pc EXCEPT ![t] = "cleanup"]
             /\ failedAt' = [failedAt EXCEPT ![t] = "verify"]
             /\ attempts' = attempts
      BY <2>9 DEF Unanswered, Fail, Goto
    <3>3. attempts' \in [Tests -> 0 .. MaxAttempts - 1]
      BY <2>1, <3>2, MaxAttemptsType DEF TestTypes
    <3> QED BY <2>1, <3>1, <3>2, <3>3 DEF TestTypes, Place, PC, Ended, Leaky, SetUps
  <2>10. CASE Convert(t)
    BY <2>1, <2>10 DEF Convert, Goto, TestTypes, Place, PC, Ended, Leaky, SetUps
  <2>11. CASE ConvertFails(t)
    BY <2>1, <2>11 DEF ConvertFails, Fail, Goto, TestTypes, Place, PC, Ended, Leaky, SetUps
  <2>12. CASE CleanedUp(t)
    BY <2>1, <2>12 DEF CleanedUp, Goto, TestTypes, Place, PC, Ended, Leaky, SetUps
  <2> HIDE DEF IInv
  <2> QED BY <1>4, <2>3, <2>4, <2>5, <2>6, <2>7, <2>8, <2>9, <2>10, <2>11, <2>12 DEF Step
<1> QED BY <1>1, <1>2, <1>3, <1>4 DEF Next, AllEnded, vars, testVars

(* A release moves the forward given up and the one woken, no other.       *)
LEMMA ReleaseKeepsWhere ==
  ASSUME TestTypes, SlotsInv, Wheres, NEW f \in Forwards, NEW to \in Conn \ Grip,
         Release(f, to), NEW g \in Forwards, g # f
  PROVE  \/ conn'[g] = conn[g]
         \/ conn[g] = "waiting" /\ conn'[g] = "granted" /\ Now(g) /\ pc[g[1]] = "start"
<1>1. conn \in [Forwards -> Conn]
  BY DEF SlotsInv, SlotTypes
<1>2. CASE conn' = [conn EXCEPT ![f] = to]
  BY <1>1, <1>2
<1>3. ASSUME NEW w \in Forwards, conn[w] = "waiting", Woken(f, to, w)
      PROVE  conn'[g] = conn[g] \/ (conn[g] = "waiting" /\ conn'[g] = "granted")
  BY <1>1, <1>3 DEF Woken
<1> QED BY <1>2, <1>3, ReleaseTurns, Pending

(* Every forward stays where its test expects it.                          *)
LEMMA NextWheres == ASSUME IInv, [Next]_vars PROVE Wheres'
<1> USE DEF IInv
<1>1. CASE UNCHANGED vars
  BY <1>1 DEF vars, Wheres, Where, Later, Now, Before, Ended, Leaky
<1>2. ASSUME NEW f \in Forwards, Forward(f) PROVE Wheres'
  <2>1. CASE Connect(f)
    BY <2>1, TurnKeepsWhere DEF Connect, Conn
  <2>2. CASE Break(f)
    BY <2>2, TurnKeepsWhere DEF Break, Conn
  <2>3. CASE Disconnect(f)
    BY <2>3, TurnKeepsWhere DEF Disconnect, Conn
  <2> QED BY <1>2, <2>1, <2>2, <2>3 DEF Forward
<1>3. ASSUME NEW t \in Tests, Step(t) PROVE Wheres'
  <2> SUFFICES ASSUME NEW g \in Forwards PROVE Where(g)'
    BY DEF Wheres
  <2>1. /\ g[1] \in Tests /\ g[2] \in SetUps /\ g[3] \in Nat \ {0} /\ g[3] <= Needs(g[1], g[2])
        /\ Needs(g[1], g[2]) \in Nat \ {0} /\ g = <<g[1], g[2], g[3]>>
    BY ForwardShape, NeedsPositive
  <2>2. /\ setUp[g[1]] \in SetUps /\ started[g[1]] \in Nat /\ cleanups[g[1]] \in 0 .. 2
        /\ Place(g[1]) /\ Place(t) /\ Where(g) /\ conn \in [Forwards -> Conn]
    BY <2>1 DEF TestTypes, SlotsInv, SlotTypes, Places, Wheres
  <2>3. CASE g[1] # t /\ conn'[g] = conn[g]
    <3>1. /\ pc'[g[1]] = pc[g[1]] /\ setUp'[g[1]] = setUp[g[1]] /\ started'[g[1]] = started[g[1]]
          /\ cleanups'[g[1]] = cleanups[g[1]] /\ failedAt'[g[1]] = failedAt[g[1]]
      BY <1>3, <2>1, <2>3 DEF Step, TestTypes, testVars, Goto, Fail, FindService, ServiceMissing,
         TakeSlot, Dial, StartFails, Ready, AfterStart, Answered, AfterVerify, Unanswered,
         Convert, ConvertFails, Stop, CleanedUp
    <3> QED BY <2>2, <2>3, <3>1 DEF Where, Later, Now, Before, Ended, Leaky
  <2>4. CASE FindService(t)
    BY <2>1, <2>2, <2>3, <2>4 DEF FindService, Goto, TestTypes, Place, Where, Later, Now, Before, Ended, Leaky
  <2>5. CASE ServiceMissing(t)
    BY <2>1, <2>2, <2>3, <2>5 DEF ServiceMissing, Fail, Goto, TestTypes, Place, Where, Later, Now, Before,
       Ended, Leaky, SetUps
  <2>6. CASE TakeSlot(t) \/ Dial(t)
    <3>1. /\ Current(t) \in Forwards /\ Now(Current(t)) /\ Current(t)[1] = t /\ pc[t] = "start"
          /\ UNCHANGED testVars
      BY <2>2, <2>6, CurrentForward DEF TakeSlot, Dial
    <3>2. \E x \in {"granted", "waiting", "dialing"} : conn' = [conn EXCEPT ![Current(t)] = x]
      BY <2>6 DEF TakeSlot, Dial, Acquire, Turn
    <3>3. ~Later(Current(t)) /\ ~Before(Current(t))
      <4>1. setUp[t] \in SetUps /\ started[t] \in Nat
        BY DEF TestTypes
      <4> QED BY <3>1, <4>1 DEF Now, Later, Before, SetUps
    <3>4. CASE g = Current(t)
      BY <2>2, <3>1, <3>2, <3>3, <3>4 DEF Where, Later, Now, Before, Ended, Leaky, testVars
    <3>5. CASE g # Current(t)
      BY <2>2, <3>1, <3>2, <3>5 DEF Where, Later, Now, Before, Ended, Leaky, testVars
    <3> QED BY <3>4, <3>5
  <2>7. CASE StartFails(t)
    <3>1. /\ Current(t) \in Forwards /\ pc[t] = "start" /\ Release(Current(t), "over")
          /\ pc' = [pc EXCEPT ![t] = "cleanup"] /\ failedAt' = [failedAt EXCEPT ![t] = "start"]
          /\ UNCHANGED <<setUp, started, cleanups>>
      BY <2>2, <2>7, CurrentForward DEF StartFails, Fail, Goto
    <3>2. pc \in [Tests -> PC] /\ failedAt \in [Tests -> PC \cup {"none"}]
      BY DEF TestTypes
    <3>3. CASE g = Current(t)
      <4>1. conn'[g] = "over"
        <5>1. "over" \in Conn \ Grip
          BY DEF Conn, Grip
        <5>2. conn' = [conn EXCEPT ![g] = "over"] \/ \E w \in Forwards : conn[w] = "waiting" /\ Woken(g, "over", w)
          BY <3>1, <3>3, <5>1, ReleaseTurns
        <5>3. conn[g] # "waiting"
          BY <2>7, <3>3 DEF StartFails
        <5> QED BY <2>2, <5>2, <5>3 DEF Woken
      <4>2. g[1] = t /\ Now(g)
        BY <2>2, <2>7, <3>3, CurrentForward DEF StartFails
      <4> QED BY <2>1, <2>2, <3>1, <3>2, <4>1, <4>2 DEF Where, Later, Now, Before, Place, Ended, Leaky
    <3>4. CASE g # Current(t) /\ g[1] = t
      <4>1. ~Now(g)
        BY <2>1, <3>4 DEF Now, Current
      <4>2. conn'[g] = conn[g]
        BY <3>1, <3>4, <4>1, ReleaseKeepsWhere DEF Conn, Grip
      <4>3. /\ cleanups[t] = setUp[t] - 1 /\ pc'[t] = "cleanup" /\ failedAt'[t] = "start"
            /\ failedAt[t] = "none"
        BY <2>2, <3>1, <3>2 DEF Place
      <4>4. UNCHANGED <<setUp[t], started[t], cleanups[t]>> /\ ~Now(g)'
        BY <3>1, <3>4, <4>1 DEF Now
      <4>5. Later(g)' => conn'[g] = "none"
        BY <2>2, <3>4, <4>2, <4>4 DEF Where, Later
      <4>6. Before(g)' => conn'[g] \in {"up", "lost"} /\ g[2] <= setUp[t]
        BY <2>1, <2>2, <3>1, <3>4, <4>2, <4>4 DEF Where, Before, Ended, SetUps
      <4> QED BY <2>1, <2>2, <3>4, <4>3, <4>4, <4>5, <4>6 DEF Where, Ended, Leaky, SetUps
    <3>5. CASE g # Current(t) /\ g[1] # t
      <4>1. \/ conn'[g] = conn[g]
            \/ conn'[g] = "granted" /\ Now(g) /\ pc[g[1]] = "start"
        BY <3>1, <3>5, ReleaseKeepsWhere DEF Conn, Grip
      <4> QED BY <2>1, <2>2, <3>1, <3>2, <3>5, <4>1 DEF Where, Later, Now, Before, Ended, Leaky
    <3> QED BY <3>3, <3>4, <3>5
  <2>8. CASE Ready(t)
    <3>1. /\ pc[t] = "start" /\ started' = [started EXCEPT ![t] = started[t] + 1]
          /\ conn[Current(t)] \in {"up", "lost"} /\ UNCHANGED <<setUp, failedAt, conn>>
      BY <2>8 DEF Ready
    <3>2. \E x \in {"verify", "start", "find"} : pc' = [pc EXCEPT ![t] = x]
      BY <2>8 DEF Ready, AfterStart, Goto
    <3>3. CASE g[1] = t
      <4>1. Before(g)' => Before(g) \/ g = Current(t)
        BY <2>1, <2>2, <3>1, <3>3 DEF Before, Current, TestTypes
      <4>2. Later(g)' => Later(g)
        BY <2>1, <2>2, <3>1, <3>3 DEF Later, TestTypes
      <4>3. Now(g)' => Later(g)
        BY <2>1, <2>2, <3>1, <3>3 DEF Later, Now, TestTypes
      <4>4. pc'[t] \in {"verify", "start", "find"}
        BY <3>2 DEF TestTypes
      <4>5. failedAt[t] = "none" /\ failedAt' = failedAt
        BY <2>2, <3>1 DEF Place
      <4> QED BY <2>2, <3>1, <3>3, <4>1, <4>2, <4>3, <4>4, <4>5 DEF Where, Ended
    <3> QED BY <2>3, <3>1, <3>3
  <2>9. CASE Answered(t) \/ Unanswered(t)
    <3>1. pc[t] = "verify" /\ UNCHANGED <<setUp, started, cleanups, conn>>
      BY <2>9 DEF Answered, Unanswered
    <3>2. \/ pc' = pc /\ failedAt' = failedAt
          \/ \E x \in {"convert", "cleanup"} : pc' = [pc EXCEPT ![t] = x] /\ failedAt' = failedAt
          \/ pc' = [pc EXCEPT ![t] = "cleanup"] /\ failedAt' = [failedAt EXCEPT ![t] = "verify"]
      BY <2>9, <3>1 DEF Answered, AfterVerify, Unanswered, Fail, Goto
    <3>3. CASE g[1] = t
      BY <2>1, <2>2, <3>1, <3>2, <3>3 DEF TestTypes, Where, Later, Now, Before, Place, Ended, Leaky
    <3> QED BY <2>3, <3>1, <3>3
  <2>10. CASE Convert(t)
    BY <2>1, <2>2, <2>3, <2>10 DEF Convert, Goto, TestTypes, Where, Later, Now, Before, Place, Ended, Leaky, SetUps
  <2>11. CASE ConvertFails(t)
    BY <2>1, <2>2, <2>3, <2>11 DEF ConvertFails, Fail, Goto, TestTypes, Where, Later, Now, Before, Place,
       Ended, Leaky, SetUps
  <2>12. CASE Stop(t)
    <3>1. PICK f \in ToStop(t) : Release(f, IF conn[f] = "up" THEN "stopping" ELSE "over")
      BY <2>12 DEF Stop
    <3>2. pc[t] = "cleanup" /\ UNCHANGED testVars
      BY <2>12 DEF Stop
    <3>3. f \in Forwards /\ f[1] = t /\ f[2] = cleanups[t] /\ conn[f] \in {"up", "lost"}
      BY <3>1 DEF ToStop
    <3>4. CASE g = f
      <4>1. conn'[g] \in {"stopping", "over"}
        <5> DEFINE to == IF conn[f] = "up" THEN "stopping" ELSE "over"
        <5>1. to \in Conn \ Grip
          BY DEF Conn, Grip
        <5>2. conn' = [conn EXCEPT ![f] = to] \/ \E w \in Forwards : conn[w] = "waiting" /\ Woken(f, to, w)
          BY <3>1, <3>3, <5>1, ReleaseTurns
        <5>3. conn[f] # "waiting"
          BY <3>3
        <5> QED BY <2>2, <3>4, <5>2, <5>3 DEF Woken
      <4> QED BY <2>1, <2>2, <3>2, <3>3, <3>4, <4>1 DEF Where, Later, Now, Before, Place, Ended, Leaky, testVars
    <3>5. CASE g # f
      <4>1. \/ conn'[g] = conn[g]
            \/ conn'[g] = "granted" /\ Now(g) /\ pc[g[1]] = "start"
        BY <3>1, <3>3, <3>5, ReleaseKeepsWhere DEF Conn, Grip
      <4> QED BY <2>1, <2>2, <3>2, <4>1 DEF Where, Later, Now, Before, Ended, Leaky, testVars
    <3> QED BY <3>4, <3>5
  <2>13. CASE CleanedUp(t)
    <3>1. pc[t] = "cleanup" /\ ToStop(t) = {} /\ UNCHANGED <<setUp, started, failedAt, conn>>
      BY <2>13 DEF CleanedUp
    <3>2. \/ cleanups[t] = 0 /\ pc' = [pc EXCEPT ![t] = "done"] /\ cleanups' = cleanups
          \/ pc' = pc /\ cleanups' = [cleanups EXCEPT ![t] = cleanups[t] - 1]
      BY <2>13 DEF CleanedUp, Goto
    <3>3. CASE g[1] = t
      <4>1. g[2] = cleanups[t] => conn[g] \notin {"up", "lost"}
        BY <3>1, <3>3 DEF ToStop
      <4> QED BY <2>1, <2>2, <3>1, <3>2, <3>3, <4>1 DEF TestTypes, Where, Later, Now, Before, Place, Ended,
           Leaky, SetUps
    <3> QED BY <2>3, <3>1, <3>3
  <2> HIDE DEF IInv
  <2> QED BY <1>3, <2>4, <2>5, <2>6, <2>7, <2>8, <2>9, <2>10, <2>11, <2>12, <2>13 DEF Step
<1> QED BY <1>1, <1>2, <1>3 DEF Next, AllEnded

-----------------------------------------------------------------------------
LEMMA NextIInv == IInv /\ [Next]_vars => IInv'
BY NextSlots, NextPlaces, NextWheres DEF IInv

(* The variables keep their types: the slot counter never goes below zero, *)
(* so no stop() and no error path of portforward.go releases a slot it has *)
(* not got (semaphore.Release would panic).                                *)
THEOREM TypeCorrect == Spec => []TypeOK
<1>1. IInv => TypeOK
  BY DEF IInv, TestTypes, SlotsInv, SlotTypes, TypeOK
<1> QED BY <1>1, InitIInv, NextIInv, PTL DEF Spec

(* The semaphore counts the forwards that hold a slot, at most Slots of    *)
(* them, and nobody waits while a slot is free.                            *)
THEOREM SlotsAreAccounted == Spec => []SlotsAccounted
<1>1. IInv => SlotsAccounted
  BY DEF IInv, SlotsInv
<1> QED BY <1>1, InitIInv, NextIInv, PTL DEF Spec

(* A test that ends keeps the slots of a set-up that failed half way, and  *)
(* no other.                                                               *)
THEOREM LeaksAreExplained == Spec => []OnlyFailedSetUpLeaks
<1>1. ASSUME IInv PROVE OnlyFailedSetUpLeaks
  <2> SUFFICES ASSUME NEW t \in Tests, pc[t] = "done"
               PROVE  {f \in Holders : f[1] = t} =
                        IF Leaky(t) THEN {<<t, setUp[t], n>> : n \in 1 .. started[t]} ELSE {}
    BY DEF OnlyFailedSetUpLeaks, Leaky
  <2>1. /\ Place(t) /\ setUp[t] \in SetUps /\ started[t] \in Nat /\ cleanups[t] = 0
        /\ Needs(t, setUp[t]) \in Nat
    BY <1>1, NeedsPositive DEF IInv, Places, Place, TestTypes
  <2>2. \A f \in Forwards : f[1] = t =>
          (f \in Holders <=> Leaky(t) /\ f[2] = setUp[t] /\ f[3] <= started[t])
    <3> SUFFICES ASSUME NEW f \in Forwards, f[1] = t
                 PROVE  f \in Holders <=> Leaky(t) /\ f[2] = setUp[t] /\ f[3] <= started[t]
      OBVIOUS
    <3>1. Where(f) /\ f[2] \in SetUps /\ f[3] \in 1 .. Needs(t, f[2])
      BY <1>1, ForwardShape DEF IInv, Wheres
    <3>2. Later(f) \/ Now(f) \/ Before(f)
      BY <2>1, <3>1 DEF Later, Now, Before, SetUps
    <3>3. CASE Later(f) \/ Now(f)
      <4>1. ~(f[2] = setUp[t] /\ f[3] <= started[t])
        BY <2>1, <3>1, <3>3 DEF Later, Now, SetUps
      <4> QED BY <3>1, <3>3, <4>1 DEF Where, Holders
    <3>4. CASE Before(f)
      BY <2>1, <3>1, <3>4 DEF Where, Before, Holders, Ended, SetUps
    <3> QED BY <3>2, <3>3, <3>4
  <2>3. CASE ~Leaky(t)
    BY <2>2, <2>3 DEF Holders
  <2>4. CASE Leaky(t)
    <3>1. started[t] < Needs(t, setUp[t])
      BY <2>1, <2>4 DEF Place, Ended
    <3>2. \A n \in 1 .. started[t] : <<t, setUp[t], n>> \in Holders
      <4> SUFFICES ASSUME NEW n \in 1 .. started[t] PROVE <<t, setUp[t], n>> \in Holders
        OBVIOUS
      <4>1. n \in 1 .. Needs(t, setUp[t]) /\ n <= started[t]
        BY <2>1, <3>1
      <4>2. <<t, setUp[t], n>> \in Forwards
        BY <2>1, <4>1, ForwardIn
      <4> QED BY <2>2, <2>4, <4>1, <4>2
    <3>3. \A f \in Holders : f[1] = t => f = <<t, setUp[t], f[3]>> /\ f[3] \in 1 .. started[t]
      <4> SUFFICES ASSUME NEW f \in Holders, f[1] = t
                   PROVE  f = <<t, setUp[t], f[3]>> /\ f[3] \in 1 .. started[t]
        OBVIOUS
      <4>1. f \in Forwards
        BY DEF Holders
      <4>2. f[2] = setUp[t] /\ f[3] <= started[t]
        BY <2>2, <4>1
      <4>3. f[3] \in 1 .. Needs(t, f[2]) /\ f = <<f[1], f[2], f[3]>>
        BY <4>1, ForwardShape
      <4> QED BY <2>1, <4>2, <4>3
    <3> QED BY <2>4, <3>2, <3>3
  <2> QED BY <2>3, <2>4
<1> QED BY <1>1, InitIInv, NextIInv, PTL DEF Spec
=============================================================================
