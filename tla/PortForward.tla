----------------------------- MODULE PortForward -----------------------------
(***************************************************************************)
(* The port forwards of parallel e2e tests: e2e/framework/portforward.go,  *)
(* retry.go and the two set-ups of testcase.go.                            *)
(*                                                                         *)
(* A test forwards a port to each of its ingress controllers (set-up 1),   *)
(* verifies traffic through them, converts its Ingresses, forwards a port  *)
(* to each of its gateways (set-up 2) and verifies again.  Every forward   *)
(* takes a slot of one semaphore that all tests share, and keeps it until  *)
(* the cleanups of its test.  The context of a test is cancelled by none   *)
(* of its own steps and the framework adds no deadline to Acquire, so a    *)
(* test that waits for a slot waits until another test gives one back.     *)
(***************************************************************************)
EXTENDS Integers, Sequences, FiniteSets

CONSTANTS
  Tests,       \* tests that run in parallel
  Slots,       \* maxConcurrentPortForwards
  Services,    \* Services[t][s]: services that set-up s of test t forwards to
  HTTPS,       \* tests that forward port 443 of each service besides port 80
  MaxAttempts  \* attempts of a verification

SetUps == 1 .. 2

ASSUME SlotsType == Slots \in Nat \ {0}
ASSUME ServicesType == Services \in [Tests -> [SetUps -> Nat \ {0}]]
ASSUME HTTPSType == HTTPS \subseteq Tests
ASSUME MaxAttemptsType == MaxAttempts \in Nat \ {0}

(* Forwards that a set-up starts: per service port 80, then port 443.      *)
Needs(t, s) == IF t \in HTTPS THEN 2 * Services[t][s] ELSE Services[t][s]

ForwardsOf(t, s) == {<<t, s, n>> : n \in 1 .. Needs(t, s)}

Forwards == UNION {ForwardsOf(t, s) : t \in Tests, s \in SetUps}

VARIABLES
  pc,        \* where the test is
  setUp,     \* the set-up it is in
  started,   \* forwarders of this set-up that startPortForwardToService returned
  verified,  \* ... of which this many are verified
  attempts,  \* failed attempts of the current verification
  cleanups,  \* set-ups up to this one have a t.Cleanup, the last one runs first
  failedAt,  \* pc of the failed require
  conn,      \* state of each forward
  used,      \* slots the semaphore counts as taken
  waiters    \* forwards that wait in Acquire, longest first

testVars == <<pc, setUp, started, verified, attempts, cleanups, failedAt>>
vars == <<pc, setUp, started, verified, attempts, cleanups, failedAt, conn, used, waiters>>

-----------------------------------------------------------------------------
PC == {"find", "start", "verify", "convert", "cleanup", "done"}

Conn ==
  {"none",      \* not asked for
   "waiting",   \* in the queue of the semaphore
   "granted",   \* has its slot, looks for a pod to forward to
   "dialing",   \* ForwardPorts runs, not ready yet
   "up",        \* ready
   "lost",      \* ForwardPorts has returned an error
   "stopping",  \* stopChan is closed, ForwardPorts still runs
   "over"}      \* nothing is left of it

TypeOK ==
  /\ pc \in [Tests -> PC]
  /\ setUp \in [Tests -> SetUps]
  /\ started \in [Tests -> Nat]
  /\ verified \in [Tests -> Nat]
  /\ attempts \in [Tests -> 0 .. MaxAttempts - 1]
  /\ cleanups \in [Tests -> 0 .. 2]
  /\ failedAt \in [Tests -> PC \cup {"none"}]
  /\ conn \in [Forwards -> Conn]
  /\ used \in Nat
  /\ waiters \in Seq(Forwards)

Init ==
  /\ pc = [t \in Tests |-> "find"]
  /\ setUp = [t \in Tests |-> 1]
  /\ started = [t \in Tests |-> 0]
  /\ verified = [t \in Tests |-> 0]
  /\ attempts = [t \in Tests |-> 0]
  /\ cleanups = [t \in Tests |-> 0]
  /\ failedAt = [t \in Tests |-> "none"]
  /\ conn = [f \in Forwards |-> "none"]
  /\ used = 0
  /\ waiters = <<>>

Goto(t, to) == pc' = [pc EXCEPT ![t] = to]

(* A failed require ends the test; its cleanups run.                       *)
Fail(t) ==
  /\ Goto(t, "cleanup")
  /\ failedAt' = [failedAt EXCEPT ![t] = pc[t]]

(* The forward that test t starts next, or is starting.                    *)
Current(t) == <<t, setUp[t], started[t] + 1>>

Turn(f, to) == conn' = [conn EXCEPT ![f] = to]

-----------------------------------------------------------------------------
(* The semaphore: a freed slot goes to the front of the queue.             *)

Acquire(f) ==
  IF used < Slots /\ waiters = <<>>
    THEN /\ used' = used + 1
         /\ Turn(f, "granted")
         /\ UNCHANGED waiters
    ELSE /\ waiters' = Append(waiters, f)
         /\ Turn(f, "waiting")
         /\ UNCHANGED used

(* Mutant: the slot is handed over and counted as free as well.            *)
ReleaseTwice(f, to) ==
  /\ used' = used - 1
  /\ IF waiters = <<>>
       THEN /\ Turn(f, to)
            /\ UNCHANGED waiters
       ELSE /\ waiters' = Tail(waiters)
            /\ conn' = [conn EXCEPT ![f] = to, ![Head(waiters)] = "granted"]

Release(f, to) ==
  IF waiters = <<>>
    THEN /\ used' = used - 1
         /\ Turn(f, to)
         /\ UNCHANGED waiters
    ELSE /\ waiters' = Tail(waiters)
         /\ conn' = [conn EXCEPT ![f] = to, ![Head(waiters)] = "granted"]
         /\ UNCHANGED used

-----------------------------------------------------------------------------
(* findIngressControllerService or findGatewayService, then                *)
(* WaitForServiceReady: both give up after a while.                        *)
FindService(t) ==
  /\ pc[t] = "find"
  /\ Goto(t, "start")
  /\ UNCHANGED <<setUp, started, verified, attempts, cleanups, failedAt, conn, used, waiters>>

ServiceMissing(t) ==
  /\ pc[t] = "find"
  /\ Fail(t)
  /\ UNCHANGED <<setUp, started, verified, attempts, cleanups, conn, used, waiters>>

(* startPortForwardToService                                               *)
TakeSlot(t) ==
  /\ pc[t] = "start"
  /\ conn[Current(t)] = "none"
  /\ Acquire(Current(t))
  /\ UNCHANGED testVars

(* A ready pod with the target port is found, the goroutine is started.    *)
Dial(t) ==
  /\ pc[t] = "start"
  /\ conn[Current(t)] = "granted"
  /\ Turn(Current(t), "dialing")
  /\ UNCHANGED <<testVars, used, waiters>>

(* startPortForward returns an error, before ForwardPorts runs or because  *)
(* it has ended: the slot is given back and the test fails.                *)
StartFails(t) ==
  /\ pc[t] = "start"
  /\ conn[Current(t)] \in {"granted", "lost"}
  /\ Release(Current(t), "over")
  /\ Fail(t)
  /\ UNCHANGED <<setUp, started, verified, attempts, cleanups>>

(* The set-up functions return their forwarders only once all are started; *)
(* only then is the cleanup that stops them registered.                    *)
AfterStart(t) ==
  LET n == started[t] + 1 IN
  IF n = Needs(t, setUp[t])
    THEN /\ Goto(t, "verify")
         /\ cleanups' = [cleanups EXCEPT ![t] = setUp[t]]
    ELSE /\ Goto(t, IF t \in HTTPS /\ n % 2 = 1 THEN "start" ELSE "find")
         /\ UNCHANGED cleanups

(* The select finds readyChan closed; ForwardPorts may have ended since.   *)
Ready(t) ==
  /\ pc[t] = "start"
  /\ conn[Current(t)] \in {"up", "lost"}
  /\ started' = [started EXCEPT ![t] = @ + 1]
  /\ AfterStart(t)
  /\ UNCHANGED <<setUp, verified, attempts, failedAt, conn, used, waiters>>

(* verifyIngresses and verifyGatewayResources: one verification for each   *)
(* forward, by retry.                                                      *)
AfterVerify(t) ==
  LET n == verified[t] + 1 IN
  IF n < Needs(t, setUp[t])
    THEN /\ verified' = [verified EXCEPT ![t] = n]
         /\ UNCHANGED pc
    ELSE /\ Goto(t, IF setUp[t] = 1 THEN "convert" ELSE "cleanup")
         /\ UNCHANGED verified

Answered(t) ==
  /\ pc[t] = "verify"
  /\ conn[<<t, setUp[t], verified[t] + 1>>] = "up"
  /\ AfterVerify(t)
  /\ attempts' = [attempts EXCEPT ![t] = 0]
  /\ UNCHANGED <<setUp, started, cleanups, failedAt, conn, used, waiters>>

(* Mutant: an attempt that gets no answer is not counted.                  *)
UnansweredForever(t) ==
  /\ pc[t] = "verify"
  /\ UNCHANGED vars

Unanswered(t) ==
  /\ pc[t] = "verify"
  /\ IF attempts[t] + 1 < MaxAttempts
       THEN /\ attempts' = [attempts EXCEPT ![t] = @ + 1]
            /\ UNCHANGED <<pc, failedAt>>
       ELSE /\ Fail(t)
            /\ UNCHANGED attempts
  /\ UNCHANGED <<setUp, started, verified, cleanups, conn, used, waiters>>

(* runI2GW and createGatewayResources                                      *)
Convert(t) ==
  /\ pc[t] = "convert"
  /\ setUp' = [setUp EXCEPT ![t] = 2]
  /\ started' = [started EXCEPT ![t] = 0]
  /\ verified' = [verified EXCEPT ![t] = 0]
  /\ Goto(t, "find")
  /\ UNCHANGED <<attempts, cleanups, failedAt, conn, used, waiters>>

ConvertFails(t) ==
  /\ pc[t] = "convert"
  /\ Fail(t)
  /\ UNCHANGED <<setUp, started, verified, attempts, cleanups, conn, used, waiters>>

(* Mutant: a forward that has already ended is not stopped.                *)
ToStopUp(t) == {f \in Forwards : f[1] = t /\ f[2] = cleanups[t] /\ conn[f] = "up"}

(* The forwarders that the cleanup at the top of the stack has to stop.    *)
ToStop(t) == {f \in Forwards : /\ f[1] = t /\ f[2] = cleanups[t]
                               /\ conn[f] \in {"up", "lost"}}

(* stop: closes stopChan and releases the slot, whether or not             *)
(* ForwardPorts has returned.                                              *)
Stop(t) ==
  /\ pc[t] = "cleanup"
  /\ \E f \in ToStop(t) :
       /\ \A g \in ToStop(t) : f[3] <= g[3]
       /\ Release(f, IF conn[f] = "up" THEN "stopping" ELSE "over")
  /\ UNCHANGED testVars

CleanedUp(t) ==
  /\ pc[t] = "cleanup"
  /\ ToStop(t) = {}
  /\ IF cleanups[t] = 0
       THEN /\ Goto(t, "done")
            /\ UNCHANGED cleanups
       ELSE /\ cleanups' = [cleanups EXCEPT ![t] = @ - 1]
            /\ UNCHANGED pc
  /\ UNCHANGED <<setUp, started, verified, attempts, failedAt, conn, used, waiters>>

-----------------------------------------------------------------------------
(* The goroutine of a forward.                                             *)

Connect(f) ==
  /\ conn[f] = "dialing"
  /\ Turn(f, "up")
  /\ UNCHANGED <<testVars, used, waiters>>

(* ForwardPorts returns an error: it cannot connect, or the connection is  *)
(* lost (the pod goes away).                                               *)
Break(f) ==
  /\ conn[f] \in {"dialing", "up"}
  /\ Turn(f, "lost")
  /\ UNCHANGED <<testVars, used, waiters>>

(* ForwardPorts sees stopChan closed and returns.                          *)
Disconnect(f) ==
  /\ conn[f] = "stopping"
  /\ Turn(f, "over")
  /\ UNCHANGED <<testVars, used, waiters>>

-----------------------------------------------------------------------------
Step(t) ==
  \/ FindService(t) \/ ServiceMissing(t)
  \/ TakeSlot(t) \/ Dial(t) \/ StartFails(t) \/ Ready(t)
  \/ Answered(t) \/ Unanswered(t)
  \/ Convert(t) \/ ConvertFails(t)
  \/ Stop(t) \/ CleanedUp(t)

Forward(f) == Connect(f) \/ Break(f) \/ Disconnect(f)

(* The run is over once every test is.                                     *)
AllEnded ==
  /\ \A t \in Tests : pc[t] = "done"
  /\ UNCHANGED vars

Next ==
  \/ \E t \in Tests : Step(t)
  \/ \E f \in Forwards : Forward(f)
  \/ AllEnded

Spec == Init /\ [][Next]_vars

(* A test goes on while it can, and ForwardPorts connects, fails or        *)
(* returns; a connection that is up need not break.                        *)
Fairness ==
  /\ \A t \in Tests : WF_vars(Step(t))
  /\ \A f \in Forwards : WF_vars(Connect(f) \/ Disconnect(f))

FairSpec == Spec /\ Fairness

-----------------------------------------------------------------------------
(* Forwards whose slot nobody has given back.                              *)
Holders == {f \in Forwards : conn[f] \in {"granted", "dialing", "up", "lost"}}

(* The semaphore never lets more than its slots, counts exactly the        *)
(* forwards that hold one, and keeps nobody waiting while one is free:     *)
(* each error path of startPortForwardToService and each stop() gives back *)
(* one slot, once.                                                         *)
SlotsAccounted ==
  /\ used = Cardinality(Holders)
  /\ used <= Slots
  /\ waiters # <<>> => used = Slots

(* Slots are lost to the run in one way only: a set-up fails after it has  *)
(* started some of its forwards, which no cleanup knows yet.  A test that  *)
(* ends otherwise leaves neither a slot nor a connection that is up.       *)
OnlyFailedSetUpLeaks ==
  \A t \in Tests : pc[t] = "done" =>
    {f \in Holders : f[1] = t} =
      IF failedAt[t] \in {"find", "start"}
        THEN {<<t, setUp[t], n>> : n \in 1 .. started[t]} ELSE {}

(* No test waits for a slot for ever: the tests that hold slots while they *)
(* wait for more, and those that lost some, leave one free for a test that *)
(* can go on.  (The slots must suffice for that, see MCPortForward.)       *)
TestsEnd == \A t \in Tests : <>(pc[t] = "done")

=============================================================================
