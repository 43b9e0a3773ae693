--------------------------- MODULE ResourceManager ---------------------------
(***************************************************************************)
(* e2e/framework/resource_manager.go: the reference-counted registry that  *)
(* lets parallel tests share CRDs, ingress controllers and gateways.       *)
(*                                                                         *)
(* A handle is one call of Acquire, and a *resourceState is named by the   *)
(* handle whose call created it: `state[h]` is the pointer h's closures    *)
(* captured.  A step is a region run under rm.mu, one wait on a channel    *)
(* that ended, or the return of an install or cleanup function.            *)
(***************************************************************************)
EXTENDS Integers, FiniteSets

CONSTANTS
  Keys,      \* names of the shared resources
  Handles,   \* calls of Acquire
  KeyOf,     \* the key each call passes
  None       \* no resourceState

ASSUME KeyOfType == KeyOf \in [Handles -> Keys]
ASSUME NoneIsNoHandle == None \notin Handles
ASSUME FiniteHandles == IsFiniteSet(Handles)

VARIABLES
  pc,          \* where the call, and later its release goroutine, is
  state,       \* the *resourceState the call works with
  resources,   \* rm.resources
  count,       \* reference count of each resourceState
  cleaningUp,  \* its cleaningUp channel: nil, open or closed
  install,     \* its install goroutine; ready is closed once it returned
  teardown     \* runs of its cleanup function

vars == <<pc, state, resources, count, cleaningUp, install, teardown>>

PC == {"idle", "acquiring", "parked", "held", "using", "failed",
       "releasing", "draining", "tearing", "deleting", "done"}

TypeOK ==
  /\ pc \in [Handles -> PC]
  /\ state \in [Handles -> Handles \cup {None}]
  /\ resources \in [Keys -> Handles \cup {None}]
  /\ count \in [Handles -> Nat]
  /\ cleaningUp \in [Handles -> {"nil", "open", "closed"}]
  /\ install \in [Handles -> {"none", "running", "ok", "err"}]
  /\ teardown \in [Handles -> {"none", "running", "done"}]

Init ==
  /\ pc = [h \in Handles |-> "idle"]
  /\ state = [h \in Handles |-> None]
  /\ resources = [k \in Keys |-> None]
  /\ count = [h \in Handles |-> 0]
  /\ cleaningUp = [h \in Handles |-> "nil"]
  /\ install = [h \in Handles |-> "none"]
  /\ teardown = [h \in Handles |-> "none"]

(* The entry rm.resources[key] the call sees, None if there is none.       *)
Entry(h) == resources[KeyOf[h]]

Ready(i) == install[i] \in {"ok", "err"}   \* state.ready is closed

Goto(h, from, to) ==
  /\ pc[h] = from
  /\ pc' = [pc EXCEPT ![h] = to]

-----------------------------------------------------------------------------
(* Acquire                                                                 *)

Call(h) ==
  /\ Goto(h, "idle", "acquiring")
  /\ UNCHANGED <<state, resources, count, cleaningUp, install, teardown>>

(* The resource is being cleaned up: unlock and wait on its channel ...    *)
Park(h) ==
  /\ Entry(h) # None
  /\ cleaningUp[Entry(h)] # "nil"
  /\ Goto(h, "acquiring", "parked")
  /\ state' = [state EXCEPT ![h] = Entry(h)]
  /\ UNCHANGED <<resources, count, cleaningUp, install, teardown>>

(* ... and retry from the top of the loop when it is closed.               *)
Retry(h) ==
  /\ Goto(h, "parked", "acquiring")
  /\ cleaningUp[state[h]] = "closed"
  /\ UNCHANGED <<state, resources, count, cleaningUp, install, teardown>>

Create(h) ==
  /\ Entry(h) = None
  /\ Goto(h, "acquiring", "held")
  /\ state' = [state EXCEPT ![h] = h]
  /\ resources' = [resources EXCEPT ![KeyOf[h]] = h]
  /\ install' = [install EXCEPT ![h] = "running"]
  /\ count' = [count EXCEPT ![h] = 1]
  /\ UNCHANGED <<cleaningUp, teardown>>

(* Mutant: cleaningUp is not looked at.                                    *)
ShareDuringCleanup(h) ==
  /\ Entry(h) # None
  /\ Goto(h, "acquiring", "held")
  /\ state' = [state EXCEPT ![h] = Entry(h)]
  /\ count' = [count EXCEPT ![Entry(h)] = @ + 1]
  /\ UNCHANGED <<resources, cleaningUp, install, teardown>>

(* Mutant: only the creator is counted.                                    *)
ShareUncounted(h) ==
  /\ Entry(h) # None
  /\ cleaningUp[Entry(h)] = "nil"
  /\ Goto(h, "acquiring", "held")
  /\ state' = [state EXCEPT ![h] = Entry(h)]
  /\ UNCHANGED <<resources, count, cleaningUp, install, teardown>>

Share(h) ==
  /\ Entry(h) # None
  /\ cleaningUp[Entry(h)] = "nil"
  /\ Goto(h, "acquiring", "held")
  /\ state' = [state EXCEPT ![h] = Entry(h)]
  /\ count' = [count EXCEPT ![Entry(h)] = @ + 1]
  /\ UNCHANGED <<resources, cleaningUp, install, teardown>>

Acquire(h) == Park(h) \/ Retry(h) \/ Create(h) \/ Share(h)

(* The install goroutine: sets err or cleanup, then closes ready.          *)
InstallReturns(i) ==
  /\ install[i] = "running"
  /\ \E outcome \in {"ok", "err"} :
        install' = [install EXCEPT ![i] = outcome]
  /\ UNCHANGED <<pc, state, resources, count, cleaningUp, teardown>>

-----------------------------------------------------------------------------
(* The Resource the caller got                                             *)

Wait(h) ==
  /\ pc[h] = "held"
  /\ Ready(state[h])
  /\ pc' = [pc EXCEPT ![h] = IF install[state[h]] = "ok" THEN "using" ELSE "failed"]
  /\ UNCHANGED <<state, resources, count, cleaningUp, install, teardown>>

(* once.Do: only the first call starts the release goroutine.              *)
Cleanup(h) ==
  /\ pc[h] \in {"held", "using", "failed"}
  /\ pc' = [pc EXCEPT ![h] = "releasing"]
  /\ UNCHANGED <<state, resources, count, cleaningUp, install, teardown>>

-----------------------------------------------------------------------------
(* release.  It looks the state up again by key.                           *)

(* Mutant: the count has to drop below zero.                               *)
ReleaseNeverLast(h) ==
  /\ pc[h] = "releasing"
  /\ IF Entry(h) = None
       THEN /\ pc' = [pc EXCEPT ![h] = "done"]
            /\ UNCHANGED <<state, count, cleaningUp>>
       ELSE LET last == count[Entry(h)] - 1 < 0 IN
            /\ count' = [count EXCEPT ![Entry(h)] = @ - 1]
            /\ state' = [state EXCEPT ![h] = Entry(h)]
            /\ pc' = [pc EXCEPT ![h] = IF last THEN "draining" ELSE "done"]
            /\ cleaningUp' = [cleaningUp EXCEPT ![Entry(h)] =
                                IF last THEN "open" ELSE @]
  /\ UNCHANGED <<resources, install, teardown>>

Release(h) ==
  /\ pc[h] = "releasing"
  /\ IF Entry(h) = None
       THEN /\ pc' = [pc EXCEPT ![h] = "done"]
            /\ UNCHANGED <<state, count, cleaningUp>>
       ELSE LET last == count[Entry(h)] - 1 <= 0 IN
            /\ count' = [count EXCEPT ![Entry(h)] = @ - 1]
            /\ state' = [state EXCEPT ![h] = Entry(h)]
            /\ pc' = [pc EXCEPT ![h] = IF last THEN "draining" ELSE "done"]
            /\ cleaningUp' = [cleaningUp EXCEPT ![Entry(h)] =
                                IF last THEN "open" ELSE @]
  /\ UNCHANGED <<resources, install, teardown>>

(* Mutant: ready is not waited for.                                        *)
TearDownUnready(h) ==
  LET i == state[h] IN
  /\ pc[h] = "draining"
  /\ pc' = [pc EXCEPT ![h] = IF install[i] = "ok" THEN "tearing" ELSE "deleting"]
  /\ teardown' = [teardown EXCEPT ![i] =
                    IF install[i] = "ok" THEN "running" ELSE @]
  /\ UNCHANGED <<state, resources, count, cleaningUp, install>>

(* The last owner waits for ready, then runs cleanup if install set one.   *)
TearDown(h) ==
  LET i == state[h] IN
  /\ pc[h] = "draining"
  /\ Ready(i)
  /\ pc' = [pc EXCEPT ![h] = IF install[i] = "ok" THEN "tearing" ELSE "deleting"]
  /\ teardown' = [teardown EXCEPT ![i] =
                    IF install[i] = "ok" THEN "running" ELSE @]
  /\ UNCHANGED <<state, resources, count, cleaningUp, install>>

TearDownReturns(h) ==
  /\ Goto(h, "tearing", "deleting")
  /\ teardown' = [teardown EXCEPT ![state[h]] = "done"]
  /\ UNCHANGED <<state, resources, count, cleaningUp, install>>

(* Mutant: the channel is left open.                                       *)
DeleteUnclosed(h) ==
  /\ Goto(h, "deleting", "done")
  /\ resources' = [resources EXCEPT ![KeyOf[h]] = None]
  /\ UNCHANGED <<state, count, cleaningUp, install, teardown>>

(* Delete the entry and close the channel, both under the mutex.           *)
Delete(h) ==
  /\ Goto(h, "deleting", "done")
  /\ resources' = [resources EXCEPT ![KeyOf[h]] = None]
  /\ cleaningUp' = [cleaningUp EXCEPT ![state[h]] = "closed"]
  /\ UNCHANGED <<state, count, install, teardown>>

-----------------------------------------------------------------------------
Step(h) ==
  \/ Acquire(h) \/ InstallReturns(h) \/ Wait(h) \/ Cleanup(h)
  \/ Release(h) \/ TearDown(h) \/ TearDownReturns(h) \/ Delete(h)

Next == \E h \in Handles : Call(h) \/ Step(h)

(* Goroutines are scheduled; install and cleanup functions return (they    *)
(* poll under bounded contexts); callers call Cleanup, as Acquire's doc    *)
(* demands.  Whether a test calls Acquire at all is its own choice.        *)
Fairness ==
  \A h \in Handles :
    /\ WF_vars(Acquire(h))
    /\ WF_vars(InstallReturns(h))
    /\ WF_vars(Cleanup(h))
    /\ WF_vars(Release(h))
    /\ WF_vars(TearDown(h) \/ TearDownReturns(h) \/ Delete(h))

Spec == Init /\ [][Next]_vars

FairSpec == Spec /\ Fairness

-----------------------------------------------------------------------------
(* The calls counted in the reference count of resourceState i.            *)
Holders(i) ==
  {h \in Handles : state[h] = i /\ pc[h] \in {"held", "using", "failed", "releasing"}}

(* What install i put into the cluster may still be there.                 *)
Live(i) == install[i] = "running" \/ (install[i] = "ok" /\ teardown[i] # "done")

(* "Safe reuse": a resource is never installed while an earlier install    *)
(* of the same key is running, in use or being torn down.                  *)
OneInstallPerKey ==
  \A i, j \in Handles : Live(i) /\ Live(j) /\ KeyOf[i] = KeyOf[j] => i = j

(* A caller whose Wait returned nil has, until it calls Cleanup, the very  *)
(* resource the registry lists, installed and untouched by any cleanup.    *)
UsedIsIntact ==
  \A h \in Handles : pc[h] = "using" =>
    /\ install[state[h]] = "ok"
    /\ teardown[state[h]] = "none"
    /\ resources[KeyOf[h]] = state[h]

(* release finds its resourceState by key, not by pointer: what it finds   *)
(* is always the one Acquire handed out, so counts never get mixed up.     *)
ReleasesItsOwn ==
  \A h \in Handles : pc[h] = "releasing" => resources[KeyOf[h]] = state[h]

(* Nothing an install put into the cluster is forgotten by the registry,   *)
(* and an entry is always owned by a caller or by a cleanup under way.     *)
NothingForgotten ==
  \A i \in Handles :
    /\ Live(i) => resources[KeyOf[i]] = i
    /\ resources[KeyOf[i]] = i =>
          \/ count[i] > 0 /\ cleaningUp[i] = "nil" /\ Holders(i) # {}
          \/ \E h \in Handles : state[h] = i /\ pc[h] \in {"draining", "tearing", "deleting"}

(* A cleanup function starts at most once, and never while its install     *)
(* function still runs.                                                    *)
TeardownOnce ==
  [][\A i \in Handles : teardown'[i] # teardown[i] =>
       /\ install[i] = "ok"
       /\ <<teardown[i], teardown'[i]>> \in {<<"none", "running">>, <<"running", "done">>}]_vars

(* The registry is a SharedResource: holders are owners, and everything    *)
(* between the last release and the deletion of the entry is "removing".   *)
PhaseOf(k) ==
  LET i == resources[k] IN
  IF i = None THEN "absent"
  ELSE IF cleaningUp[i] # "nil" THEN "removing"
  ELSE IF install[i] = "running" THEN "installing"
  ELSE IF install[i] = "ok" THEN "present"
  ELSE "failed"

OwnersOf(k) ==
  {h \in Handles : KeyOf[h] = k /\ pc[h] \in {"held", "using", "failed", "releasing"}}

Shared == INSTANCE SharedResource WITH
            owners <- [k \in Keys |-> OwnersOf(k)],
            phase  <- [k \in Keys |-> PhaseOf(k)]

ImplementsSharedResource == Shared!Spec

(* Every Acquire returns, although it may wait for a cleanup, and every    *)
(* Cleanup's channel is closed, even when the install it waits for failed. *)
CallsReturn ==
  \A h \in Handles :
    /\ pc[h] = "acquiring" ~> pc[h] \notin {"acquiring", "parked"}
    /\ pc[h] = "releasing" ~> pc[h] = "done"

(* Once calls have ended nothing of a key nobody asks for is left in the   *)
(* cluster.                                                                *)
ClusterLeftClean ==
  (\E h \in Handles : pc[h] # "idle") ~> (\A i \in Handles : ~Live(i))
=============================================================================
