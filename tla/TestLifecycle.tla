---------------------------- MODULE TestLifecycle ----------------------------
(***************************************************************************)
(* e2e tests that run in parallel against one cluster: what SetupTestEnv   *)
(* and Run set up, in which order, what t.Cleanup takes down again, and    *)
(* what the install functions of e2e/provider and e2e/implementation do to *)
(* the cluster.  Every step may fail; a failed require ends the test,      *)
(* cancels its context and runs its cleanups, last registered first.       *)
(*                                                                         *)
(* Tests share CRDs and controllers through GlobalResourceManager, of      *)
(* which only the promise is used here: each step on a shared resource is  *)
(* a step of SharedResource, which ResourceManager implements.  A handle   *)
(* <<t, i>> is the i-th Acquire of test t, the CRDs being number 0.        *)
(***************************************************************************)
EXTENDS Integers, Sequences

CONSTANTS
  Tests,    \* tests that call SetupTestEnv
  NeedsOf,  \* the controllers of each test: its providers, then its implementation
  StepsOf,  \* what Run sets up for each test, in order
  None

CRDs == "gateway-api-crds"

Controllers == {"ingress-nginx", "kong", "traefik", "istio", "kgateway",
                "envoy-gateway", "agentgateway"}

Keys == {CRDs} \cup Controllers

Objects == {"secrets", "backends", "configmaps", "ingresses", "gateway_resources"}

Forwarders == {"ingress_forwarders", "gateway_forwarders"}

ASSUME NeedsOfType == NeedsOf \in [Tests -> Seq(Controllers) \ {<<>>}]
ASSUME StepsOfType == StepsOf \in [Tests -> Seq(Objects \cup Forwarders)]

Handles == UNION {{t} \X (0 .. Len(NeedsOf[t])) : t \in Tests}

KeyOf == [h \in Handles |-> IF h[2] = 0 THEN CRDs ELSE NeedsOf[h[1]][h[2]]]

VARIABLES
  pc,         \* where the test is
  next,       \* index of the resource or step it is at
  failedAt,   \* pc at which a require failed, "none" while none did
  cleanups,   \* functions registered with t.Cleanup
  pending,    \* Acquires being released by the cleanup that runs
  namespace,  \* the test's own namespace
  live,       \* objects and forwarders the test started
  owners,     \* SharedResource: who has acquired what ...
  phase,      \* ... and what state it is in
  install,    \* per key, its install function: started by whom, at which step
  releases    \* Helm releases in the cluster

testVars == <<pc, next, failedAt, cleanups, pending, namespace, live>>
vars == <<pc, next, failedAt, cleanups, pending, namespace, live,
          owners, phase, install, releases>>

Shared == INSTANCE SharedResource

-----------------------------------------------------------------------------
(* Install functions: the calls each makes, with the chart they are about. *)
(* CRDs and GatewayClasses are written over whatever is there, so what an  *)
(* earlier attempt left of them makes no difference and is not kept.       *)

Call(kind, chart) == [kind |-> kind, chart |-> chart]

DeployCRDs == <<Call("apply", None)>>

DeployIngressNginx == <<Call("chart", "ingress-nginx"), Call("ready", "ingress-nginx")>>

DeployTraefik == <<Call("chart", "traefik"), Call("ready", "traefik")>>

DeployKong == <<Call("chart", "kong"), Call("class", None)>>

DeployIstio == <<Call("chart", "istio-base"), Call("chart", "istiod")>>

DeployKgateway == <<Call("chart", "kgateway-crds"), Call("chart", "kgateway")>>

DeployEnvoyGateway == <<Call("apply", None), Call("chart", "envoy-gateway"), Call("class", None)>>

DeployAgentgateway == <<Call("chart", "agentgateway-crds"), Call("chart", "agentgateway")>>

Plan(k) ==
  CASE k = CRDs -> DeployCRDs
    [] k = "ingress-nginx" -> DeployIngressNginx
    [] k = "traefik" -> DeployTraefik
    [] k = "kong" -> DeployKong
    [] k = "istio" -> DeployIstio
    [] k = "kgateway" -> DeployKgateway
    [] k = "envoy-gateway" -> DeployEnvoyGateway
    [] k = "agentgateway" -> DeployAgentgateway

ChartsOf(k) == {Plan(k)[n].chart : n \in 1 .. Len(Plan(k))} \ {None}

Charts == UNION {ChartsOf(k) : k \in Keys}

NotInstalled == [by |-> None, at |-> 0, result |-> "none"]

-----------------------------------------------------------------------------
PC == {"namespace", "crds", "crds_wait", "acquire", "wait", "run", "cleanup", "done"}

TypeOK ==
  /\ pc \in [Tests -> PC]
  /\ next \in [Tests -> Nat]
  /\ failedAt \in [Tests -> {"none", "namespace", "crds_wait", "wait", "run"}]
  /\ cleanups \in [Tests -> Seq({"crds", "resources", "namespace"} \cup Objects \cup Forwarders)]
  /\ pending \in [Tests -> SUBSET Nat]
  /\ namespace \in [Tests -> {"none", "exists", "deleted", "stuck"}]
  /\ live \in [Tests -> SUBSET (Objects \cup Forwarders)]
  /\ install \in [Keys -> [by : Tests \cup {None}, at : Nat,
                           result : {"none", "running", "ok", "failed", "cancelled"}]]
  /\ releases \in [Charts -> {"absent", "broken", "ok"}]
  /\ Shared!TypeOK

Init ==
  /\ pc = [t \in Tests |-> "namespace"]
  /\ next = [t \in Tests |-> 1]
  /\ failedAt = [t \in Tests |-> "none"]
  /\ cleanups = [t \in Tests |-> <<>>]
  /\ pending = [t \in Tests |-> {}]
  /\ namespace = [t \in Tests |-> "none"]
  /\ live = [t \in Tests |-> {}]
  /\ install = [k \in Keys |-> NotInstalled]
  /\ releases = [c \in Charts |-> "absent"]
  /\ Shared!Init

Goto(t, to) == pc' = [pc EXCEPT ![t] = to]

(* t.Cleanup                                                               *)
Register(t, fs) == cleanups' = [cleanups EXCEPT ![t] = @ \o fs]

(* A failed require: FailNow, after which the cleanups run.                *)
Fail(t) ==
  /\ Goto(t, "cleanup")
  /\ failedAt' = [failedAt EXCEPT ![t] = pc[t]]

(* Acquire.  The first owner's install function keeps that test's context. *)
Acquire(t, i) ==
  LET k == KeyOf[<<t, i>>] IN
  /\ Shared!Take(<<t, i>>)
  /\ install' = IF phase[k] = "absent"
                  THEN [install EXCEPT ![k] = [by |-> t, at |-> 1, result |-> "running"]]
                  ELSE install

-----------------------------------------------------------------------------
(* SetupTestEnv                                                            *)

CreateNamespace(t) ==
  /\ pc[t] = "namespace"
  /\ \/ /\ Goto(t, "crds")
        /\ namespace' = [namespace EXCEPT ![t] = "exists"]
        /\ UNCHANGED failedAt
     \/ Fail(t) /\ UNCHANGED namespace
  /\ UNCHANGED <<next, cleanups, pending, live, owners, phase, install, releases>>

(* Mutant: the cleanup of the CRDs is registered after waiting for them.   *)
AcquireUnregistered(t) ==
  /\ pc[t] = "crds"
  /\ Goto(t, "crds_wait")
  /\ Acquire(t, 0)
  /\ UNCHANGED <<next, failedAt, cleanups, pending, namespace, live, releases>>

AcquireCRDs(t) ==
  /\ pc[t] = "crds"
  /\ Goto(t, "crds_wait")
  /\ Acquire(t, 0)
  /\ Register(t, <<"crds">>)
  /\ UNCHANGED <<next, failedAt, pending, namespace, live, releases>>

WaitForCRDs(t) ==
  /\ pc[t] = "crds_wait"
  /\ \/ phase[CRDs] = "present" /\ Goto(t, "acquire") /\ UNCHANGED failedAt
     \/ phase[CRDs] = "failed" /\ Fail(t)
  /\ UNCHANGED <<next, cleanups, pending, namespace, live, owners, phase, install, releases>>

(* Mutant: the namespace's cleanup is registered first, so it runs last.   *)
AcquireNamespaceFirst(t) ==
  /\ pc[t] = "acquire"
  /\ Acquire(t, next[t])
  /\ IF next[t] < Len(NeedsOf[t])
       THEN /\ next' = [next EXCEPT ![t] = @ + 1]
            /\ UNCHANGED <<pc, cleanups>>
       ELSE /\ Register(t, <<"namespace", "resources">>)
            /\ Goto(t, "wait")
            /\ next' = [next EXCEPT ![t] = 1]
  /\ UNCHANGED <<failedAt, pending, namespace, live, releases>>

(* deployProviders and deployGatewayImplementation acquire one after the   *)
(* other; then both cleanups are registered, before waiting for any.       *)
AcquireNext(t) ==
  /\ pc[t] = "acquire"
  /\ Acquire(t, next[t])
  /\ IF next[t] < Len(NeedsOf[t])
       THEN /\ next' = [next EXCEPT ![t] = @ + 1]
            /\ UNCHANGED <<pc, cleanups>>
       ELSE /\ Register(t, <<"resources", "namespace">>)
            /\ Goto(t, "wait")
            /\ next' = [next EXCEPT ![t] = 1]
  /\ UNCHANGED <<failedAt, pending, namespace, live, releases>>

(* Mutant: only the last resource, the implementation, is waited for.      *)
WaitForLast(t) ==
  LET i == Len(NeedsOf[t]) IN
  /\ pc[t] = "wait"
  /\ \/ /\ phase[KeyOf[<<t, i>>]] = "present"
        /\ Goto(t, "run")
        /\ next' = [next EXCEPT ![t] = 1]
        /\ UNCHANGED failedAt
     \/ /\ phase[KeyOf[<<t, i>>]] = "failed"
        /\ Fail(t)
        /\ UNCHANGED next
  /\ UNCHANGED <<cleanups, pending, namespace, live, owners, phase, install, releases>>

WaitForNext(t) ==
  LET i == next[t] IN
  /\ pc[t] = "wait"
  /\ \/ /\ phase[KeyOf[<<t, i>>]] = "present"
        /\ IF i < Len(NeedsOf[t])
             THEN next' = [next EXCEPT ![t] = i + 1] /\ UNCHANGED pc
             ELSE next' = [next EXCEPT ![t] = 1] /\ Goto(t, "run")
        /\ UNCHANGED failedAt
     \/ /\ phase[KeyOf[<<t, i>>]] = "failed"
        /\ Fail(t)
        /\ UNCHANGED next
  /\ UNCHANGED <<cleanups, pending, namespace, live, owners, phase, install, releases>>

-----------------------------------------------------------------------------
(* Run: each step registers its cleanup once it has succeeded.  What a     *)
(* failing one, or a verification in between, leaves behind has none.      *)

RunStep(t) ==
  /\ pc[t] = "run"
  /\ next[t] <= Len(StepsOf[t])
  /\ LET s == StepsOf[t][next[t]] IN
       \/ /\ live' = [live EXCEPT ![t] = @ \cup {s}]
          /\ Register(t, <<s>>)
          /\ next' = [next EXCEPT ![t] = @ + 1]
          /\ UNCHANGED <<pc, failedAt>>
       \/ /\ \E partly \in {{}, {s}} : live' = [live EXCEPT ![t] = @ \cup partly]
          /\ Fail(t)
          /\ UNCHANGED <<next, cleanups>>
  /\ UNCHANGED <<pending, namespace, owners, phase, install, releases>>

RunEnds(t) ==
  /\ pc[t] = "run"
  /\ next[t] > Len(StepsOf[t])
  /\ \/ Goto(t, "cleanup") /\ UNCHANGED failedAt
     \/ Fail(t)
  /\ UNCHANGED <<next, cleanups, pending, namespace, live, owners, phase, install, releases>>

-----------------------------------------------------------------------------
(* Cleanups.  The test's context is cancelled by now.                      *)

(* Mutant: the done channels of the resources are not waited for.          *)
CleanUpWithoutWaiting(t) ==
  LET fs == cleanups[t]
      top == fs[Len(fs)] IN
  /\ pc[t] = "cleanup"
  /\ fs # <<>>
  /\ cleanups' = [cleanups EXCEPT ![t] = SubSeq(fs, 1, Len(fs) - 1)]
  /\ pending' = [pending EXCEPT ![t] = @ \cup CASE top = "crds" -> {0}
                                     [] top = "resources" -> 1 .. Len(NeedsOf[t])
                                     [] OTHER -> {}]
  /\ \E ns \in IF top = "namespace" THEN {"deleted", "stuck"} ELSE {namespace[t]} :
       /\ namespace' = [namespace EXCEPT ![t] = ns]
       /\ live' = [live EXCEPT ![t] = IF ns = "deleted" THEN @ \ Objects ELSE @ \ {top}]
  /\ UNCHANGED <<pc, next, failedAt, owners, phase, install, releases>>

(* The last registered function runs.  Those of shared resources start all *)
(* releases at once and wait for them, the one of the namespace deletes it *)
(* with all that is in it, or logs that it is stuck after five minutes.    *)
CleanUp(t) ==
  LET fs == cleanups[t]
      top == fs[Len(fs)] IN
  /\ pc[t] = "cleanup"
  /\ pending[t] = {}
  /\ fs # <<>>
  /\ cleanups' = [cleanups EXCEPT ![t] = SubSeq(fs, 1, Len(fs) - 1)]
  /\ pending' = [pending EXCEPT ![t] = CASE top = "crds" -> {0}
                                     [] top = "resources" -> 1 .. Len(NeedsOf[t])
                                     [] OTHER -> {}]
  /\ \E ns \in IF top = "namespace" THEN {"deleted", "stuck"} ELSE {namespace[t]} :
       /\ namespace' = [namespace EXCEPT ![t] = ns]
       /\ live' = [live EXCEPT ![t] = IF ns = "deleted" THEN @ \ Objects ELSE @ \ {top}]
  /\ UNCHANGED <<pc, next, failedAt, owners, phase, install, releases>>

(* A release: its done channel is closed at once if others still own the   *)
(* resource, and otherwise when the resource is gone (Remove).             *)
Release(t, i) ==
  LET h == <<t, i>> IN
  /\ Shared!Drop(h)
  /\ i \in pending[t]
  /\ pending' = [pending EXCEPT ![t] = IF owners[KeyOf[h]] = {h} THEN @ ELSE @ \ {i}]
  /\ UNCHANGED <<pc, next, failedAt, cleanups, namespace, live, install, releases>>

End(t) ==
  /\ pc[t] = "cleanup"
  /\ cleanups[t] = <<>>
  /\ pending[t] = {}
  /\ Goto(t, "done")
  /\ UNCHANGED <<next, failedAt, cleanups, pending, namespace, live, owners, phase,
                 install, releases>>

-----------------------------------------------------------------------------
(* The install goroutine of a shared resource                              *)

(* The context it was given is cancelled when its test ends.               *)
Cancelled(k) == pc[install[k].by] \in {"cleanup", "done"}

(* Mutant: the result counts even if the resource was released meanwhile.  *)
FinishAnyway(k, result) ==
  /\ install' = [install EXCEPT ![k].result = result]
  /\ phase' = [phase EXCEPT ![k] = IF result = "ok" THEN "present" ELSE "failed"]
  /\ UNCHANGED owners

(* The goroutine has its result, and whoever waits sees it.                *)
Finish(k, result) ==
  /\ install' = [install EXCEPT ![k].result = result]
  /\ IF phase[k] = "installing"
       THEN /\ Shared!Settle(k)
            /\ phase'[k] = IF result = "ok" THEN "present" ELSE "failed"
       ELSE UNCHANGED <<owners, phase>>

(* InstallChart takes any existing release for an installed one, without a *)
(* look at its status or the context; other calls need the context.        *)
CallSucceeds(k) ==
  LET n == install[k].at
      call == Plan(k)[n] IN
  /\ install[k].result = "running"
  /\ \/ /\ call.kind = "chart"
        /\ releases[call.chart] # "absent"
        /\ UNCHANGED releases
     \/ /\ call.kind \in {"chart", "ready"}
        /\ call.kind = "chart" => releases[call.chart] = "absent"
        /\ ~Cancelled(k)
        /\ releases' = [releases EXCEPT ![call.chart] = "ok"]
     \/ /\ call.kind \in {"apply", "class"}
        /\ ~Cancelled(k)
        /\ UNCHANGED releases
  /\ IF n < Len(Plan(k))
       THEN install' = [install EXCEPT ![k].at = n + 1] /\ UNCHANGED <<owners, phase>>
       ELSE Finish(k, "ok")
  /\ UNCHANGED testVars

(* A failed Helm installation may leave a release that is recorded as      *)
(* failed.  No release is undone, and the cleanup function is lost.        *)
CallFails(k) ==
  LET call == Plan(k)[install[k].at] IN
  /\ install[k].result = "running"
  /\ \/ UNCHANGED releases
     \/ /\ call.kind = "chart"
        /\ releases[call.chart] = "absent"
        /\ releases' = [releases EXCEPT ![call.chart] = "broken"]
  /\ Finish(k, IF Cancelled(k) THEN "cancelled" ELSE "failed")
  /\ UNCHANGED testVars

(* Mutant: the releasers' done channels are never closed.                  *)
RemoveSilently(k) ==
  /\ Shared!Remove(k)
  /\ install[k].result # "running"
  /\ IF install[k].result = "ok"
       THEN \E left \in SUBSET ChartsOf(k) :
              releases' = [c \in Charts |-> IF c \notin ChartsOf(k) THEN releases[c]
                                           ELSE IF c \in left THEN "broken" ELSE "absent"]
       ELSE UNCHANGED releases
  /\ install' = [install EXCEPT ![k] = NotInstalled]
  /\ UNCHANGED testVars

(* The last releaser waits for the install goroutine and runs the cleanup  *)
(* function, if there is one.  A release it cannot delete is only logged.  *)
Remove(k) ==
  /\ Shared!Remove(k)
  /\ install[k].result # "running"
  /\ IF install[k].result = "ok"
       THEN \E left \in SUBSET ChartsOf(k) :
              releases' = [c \in Charts |-> IF c \notin ChartsOf(k) THEN releases[c]
                                           ELSE IF c \in left THEN "broken" ELSE "absent"]
       ELSE UNCHANGED releases
  /\ install' = [install EXCEPT ![k] = NotInstalled]
  /\ pending' = [t \in Tests |->
                   {i \in pending[t] : KeyOf[<<t, i>>] # k \/ <<t, i>> \in owners[k]}]
  /\ UNCHANGED <<pc, next, failedAt, cleanups, namespace, live>>

-----------------------------------------------------------------------------
TestStep(t) ==
  \/ CreateNamespace(t) \/ AcquireCRDs(t) \/ WaitForCRDs(t) \/ AcquireNext(t)
  \/ WaitForNext(t) \/ RunStep(t) \/ RunEnds(t) \/ CleanUp(t) \/ End(t)

Install(k) == CallSucceeds(k) \/ CallFails(k)

Next ==
  \/ \E t \in Tests : TestStep(t)
  \/ \E h \in Handles : Release(h[1], h[2])
  \/ \E k \in Keys : Install(k) \/ Remove(k)

Spec == Init /\ [][Next]_vars

(* go test runs every test; calls to the cluster return, for install and   *)
(* cleanup functions poll with bounded contexts.                           *)
Fairness ==
  /\ \A t \in Tests : WF_vars(TestStep(t))
  /\ \A h \in Handles : WF_vars(Release(h[1], h[2]))
  /\ \A k \in Keys : WF_vars(Install(k)) /\ WF_vars(Remove(k))

FairSpec == Spec /\ Fairness

-----------------------------------------------------------------------------
(* The handles a test has acquired and not released, and those whose last  *)
(* release it waits for.                                                   *)
Holds(t, i) == <<t, i>> \in Handles /\ <<t, i>> \in owners[KeyOf[<<t, i>>]]

(* A controller is never installed, running or being torn down in a        *)
(* cluster without the Gateway API CRDs: each test takes the CRDs first    *)
(* and lets go of them last, after its controllers are gone.               *)
ControllersHaveCRDs ==
  \A k \in Controllers : phase[k] # "absent" => phase[CRDs] = "present"

(* testcase.go: "the namespace is deleted FIRST - while CRDs are still     *)
(* registered and controllers are still running".                          *)
NamespaceDeletedFirst ==
  [][\A t \in Tests : namespace[t] = "exists" /\ namespace'[t] # "exists" =>
       /\ phase[CRDs] = "present"
       /\ \A i \in 1 .. Len(NeedsOf[t]) : Holds(t, i)
       /\ failedAt[t] # "wait" =>
            \A i \in 1 .. Len(NeedsOf[t]) : phase[KeyOf[<<t, i>>]] = "present"]_vars

(* While a test creates and verifies its resources, all it asked for is    *)
(* installed, whatever other tests set up, fail at or clean up.            *)
RunsOnPresent ==
  \A t \in Tests : pc[t] = "run" =>
    \A i \in 0 .. Len(NeedsOf[t]) : Holds(t, i) /\ phase[KeyOf[<<t, i>>]] = "present"

(* A test that ended holds nothing.  Its namespace is left behind only if  *)
(* the CRDs failed, before the cleanup of the namespace is registered, and *)
(* nothing survives the namespace but the forwarders of a step that failed *)
(* half-way.                                                               *)
EndsClean ==
  \A t \in Tests : pc[t] = "done" =>
    /\ \A i \in 0 .. Len(NeedsOf[t]) : ~Holds(t, i)
    /\ namespace[t] = "exists" => failedAt[t] = "crds_wait"
    /\ live[t] # {} =>
         /\ failedAt[t] = "run"
         /\ live[t] = {StepsOf[t][next[t]]}
         /\ live[t] \subseteq Forwarders \/ namespace[t] = "stuck"

(* Each step on a shared resource is one that ResourceManager allows.      *)
UsesSharedResource == Shared!Spec

(* Every test ends, though it may wait for installs and removals that      *)
(* other tests started, and the last one leaves no shared resource.        *)
EndsReleased ==
  /\ \A t \in Tests : <>(pc[t] = "done")
  /\ <>[](\A k \in Keys : phase[k] = "absent")

(* resource_manager.go: Wait "blocks until the resource is installed and   *)
(* ready for use".                                                         *)
WaitMeansReady ==
  \A t \in Tests : pc[t] = "run" =>
    \A i \in 0 .. Len(NeedsOf[t]) : \A c \in ChartsOf(KeyOf[<<t, i>>]) : releases[c] = "ok"

=============================================================================
