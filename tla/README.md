# A verification project for ingress2gateway

`ingress2gateway` reads Ingresses (and the custom resources of some ingress
controllers) and prints Gateway API resources that should do the same. Its
repository also holds an end-to-end framework that installs controllers into a
real cluster, converts there and compares what the two sides answer. This
directory models both: the parallel part of the framework, where goroutines
share a cluster and a semaphore, and the sequential but long conversion, where a
dozen passes change one intermediate representation (IR) one after another, most of
them in the order of a Go map.

Paths below are relative to the repository. Every definition that stands for
code has an entry in the `map` of `PROJECT.json` with the lines it models.

## 1. Inventory

### Conversion

    flags --> print --> Provider.Read*  --> Provider.ToIR            --> common emitter --> emitter --> output
              |         (files, cluster)     common.ToIR -> features    (policies to      (standard,
              |                              -> ToEmitterIR              filters)          gce, ...)
              +-- one after another for each provider of a map --+

| component | source | state | operations | hard behaviour | what makes it correct |
|---|---|---|---|---|---|
| command, pipeline | `cmd/print.go`, `pkg/i2gw/ingress2gateway.go`, `emitter.go` | flags, error list, resources | validate, construct, read, then `ToIR`, common `Emit`, `Emit` per provider, print kind by kind | two loops over a map; errors accumulate while an empty IR flows on; builders kept from provider to provider | all that was asked for or nothing, whatever the order |
| provider registry | `pkg/i2gw/provider.go` | maps of constructors and flags | register, list | the live map is returned after unlock | |
| readers | `pkg/i2gw/providers/common/resource_reader.go`, `*/resource_reader.go` | storage per provider | decode, filter by namespace and class, list from a cluster | the filter runs before lists are expanded; a reader consumed twice | a provider holds the objects it claims and the call asks for |
| common converter | `.../common/converter.go`, `utils.go` | rule groups, default backends, listeners by gateway, routes | `addIngress`, `toHTTPRoutesAndGateways`, `toGRPCRoute...`, `ToIR` | names that are not injective; two slices (backends, sources) built in step; errors after partial work | every path served, sources tell the truth, all or nothing |
| ingress-nginx | `.../ingressnginx` | ProviderIR, then EmitterIR with policies by rule index | 9 features (routes, backend TLS, affinity), 5 passes that record policies, SSL / slash / www redirects | order of the passes; indices kept from pass to pass; pointers shared between rules | no path lost, canary split as annotated, both ports answer, policies on their rules |
| nginx (F5) | `.../nginx` | IR | 9 features: ports, rewrites, headers, regexes, redirect, HSTS, TLS, gRPC and websocket services | a feature runs once per rule of a host; gRPC takes rules away that others changed | ports, redirects and gRPC rules as the annotations ask |
| traefik, cilium, apisix | `.../traefik`, `cilium`, `apisix` | IR | entry points, router TLS, redirects | features that visit the Ingresses of a host in the order of a map; one host's listener seen by another | a host answers on the schemes its annotations ask for |
| gce | `.../gce`, `emitters/gce` | IR with policies of Gateways and Services | default class, FrontendConfigs, BackendConfigs; policies and filters | two Ingresses with one gateway and two configs; a Service used by several rules | a policy where its config says and nowhere else |
| istio | `.../istio` | IR, allowed hosts by gateway | Gateways, VirtualServices, parent references, grants | all combinations of hosts, namespaces and exports; arrays shared between routes | what a VirtualService routes stays routed, nothing else does |
| kong | `.../kong` | two IRs | TCPIngresses, merge, headers, methods, plugins | merge of IRs; combinations of header values | matches ask for what was annotated, no listener lost |
| openapi3 | `.../openapi3` | matchers by group of listeners | expansion of server variables, grouping, cutting into routes of limited size | 8 matches and 16 rules per route; order of maps | each operation answered once at each of its servers |
| IR types and merge | `pkg/i2gw/provider_intermediate`, `emitter_intermediate` | - | `MergeIRs`, `ToEmitterIR` | writes a nil map, drops parts of gateways | nothing lost in the merge |
| common emitter | `pkg/i2gw/emitters/common_emitter` | EmitterIR | policies to filters and timeouts | rules without policies, copied rules | a filter wherever a policy asks |
| emitters | `pkg/i2gw/emitters/*` | resources, builders | one extension resource per route, rule and policy | names of extensions collide; equal policies are merged | nothing dropped without a warning, nothing enforced where nobody asked |
| notifications | `pkg/i2gw/notifications` | messages | append, render | | |

Components call each other in sequence, inside one process and one goroutine;
there is no persistence. The hazards are those of a pipeline: a pass that
invalidates what an earlier one recorded, an order nobody tested, a name that
collides, one failing step among several.

### End-to-end framework

| component | source | state | operations | hard behaviour | what makes it correct |
|---|---|---|---|---|---|
| resource manager | `e2e/framework/resource_manager.go` | `resources` map, reference counts, channels `ready` and `cleaningUp` | `Acquire`, `Wait`, `Cleanup`, `release` | parallel tests, a cleanup under way while others ask | one install per key, nobody loses what he uses, nothing leaks, nobody waits forever |
| test lifecycle | `e2e/framework/testcase.go`, `e2e/helpers.go` | the list of `t.Cleanup` functions | setup, run, LIFO cleanup | failures between two steps; contexts that end before cleanups; one test's context in another's install | namespaces, CRDs and controllers go in the right order and always |
| port forwarding | `e2e/framework/portforward.go` | semaphore of 50, one goroutine per forwarder | start, connect, break, stop | slots lost on failure; tests that hold slots and wait for more | every slot comes back, every test ends |
| retry | `e2e/framework/retry.go` | attempts | retry | cancellation | bounded |
| API objects, CRDs, namespaces, Helm, providers and implementations | rest of `e2e` | objects in the cluster | create, wait, delete | partial creation | |

Tests share the resource manager (mutex, channels) and the port-forward
semaphore; all else is private to a test.

## 2. Modules

| module | extends / instances | models |
|---|---|---|
| `SharedResource` | | what the resource manager promises: a resource is installed for its first owner, stays while it has one, and is removed after the last, as a phase nobody can own |
| `ResourceManager`, `ResourceManager_proof` | instances `SharedResource` | `resource_manager.go` with goroutines, mutex regions and channels; its theorems |
| `TestLifecycle`, `TestLifecycle_proof` | instances `SharedResource` | `SetupTestEnv`, `Run` and the cleanups of parallel tests, the install functions and Helm; its theorems |
| `PortForward`, `PortForward_proof` | | the forwards of parallel tests, their semaphore, `retry`; its theorems |
| `Conversion` | | what a call of `print` promises: all that a sound request asks for, or nothing |
| `Pipeline`, `Pipeline_proof` | instances `Conversion` | the command, the loops of the conversion and the readers; its theorems |
| `Lists`, `Lists_proof` | | slices, and the loops over them that the converters share; lemmas on what these loops and those of the community modules return |
| `IngressAggregator` | extends `Lists` | `common.ToIR`: aggregation, routes, listeners, gateways, errors |
| `IngressNginx` | extends `IngressAggregator` | the ingress-nginx `convert`: protocol split, canary, backend protocol, redirect, headers, regex, backend TLS, session affinity, SSL passthrough, app root |
| `NginxEmit` | extends `IngressNginx` | the rest of `Provider.ToIR` of ingress-nginx, then the common and the standard emitter |
| `Emitters` | extends `NginxEmit` | Envoy Gateway, kgateway, agentgateway and Airlock in place of the standard emitter |
| `IngressNginx_proof` | extends `IngressNginx`, `Lists_proof` | theorems about `common.ToIR`, and what each feature of ingress-nginx keeps true of its routes |
| `Emitters_proof` | extends `Emitters`, `IngressNginx_proof` | theorems about the features, the redirect passes and the emitters after them, for every emitter |
| `Features` | extends `IngressAggregator` | the features of Traefik, Cilium and APISIX, and what all features share |
| `NginxAnnotations` | extends `Features` | the features of the nginx provider |
| `GCE` | extends `Features` | what the gce provider attaches and the gce emitter prints |
| `Providers` | extends `NginxAnnotations`, `GCE` | the machine that runs `ToIR` and then the features of one provider, group by group |
| `Kong` | extends `IngressAggregator` | TCPIngresses, `MergeIRs`, the features of Kong |
| `Istio`, `Istio_proof` | extends `Lists` | the Istio converter; its theorems |
| `OpenAPI3` | | the OpenAPI converter |
| `MC*` | one per run's model | instances for TLC |

A line commented `Mutant: ...` above an operator introduces a variant of it with
a plausible bug; the specification never uses it. Each property is listed in
`PROJECT.json` with a variant that breaks it.

### ResourceManager

A *handle* is one call of `Acquire`; a `*resourceState` is named by the handle
whose call created it, so `state[h]` is the pointer `h`'s closures captured.
`resources` is `rm.resources`, `count` the reference count, `cleaningUp` the
channel of that name (nil, open, closed), `install` the install goroutine
(`ready` is closed once it returned), `teardown` the cleanup function.

| action | code |
|---|---|
| `Call` | a test calls `Acquire` |
| `Park`, `Retry` | the entry is being cleaned up: unlock, wait for its channel, loop |
| `Create`, `Share` | the region under the mutex that makes or counts up an entry |
| `InstallReturns` | the install goroutine, with or without error |
| `Wait`, `Cleanup` | the closures of the returned `Resource`; `sync.Once` |
| `Release` | `release` up to the unlock, which looks the entry up again by key |
| `TearDown`, `TearDownReturns` | waiting for `ready`, then the cleanup function if install set one |
| `Delete` | delete the entry and close the channel, under the mutex |

Each region under the mutex is one step, each wait on a channel is a guard: no
other goroutine can see the states in between. A call that looks at the map
while nobody holds the mutex and one that waits for the mutex are the same
state.

### TestLifecycle

Tests are the actors. A test's program counter `pc` is a place in `SetupTestEnv`
or `Run` (`e2e/framework/testcase.go`), `next` the index of the resource or step
it is at there, `cleanups` the functions `t.Cleanup` registered, `failedAt` the
place where a `require` failed. Resources are used through the promise of
`SharedResource`; its handle `<<t, i>>` is the i-th `Acquire` of test `t`.

| action | code |
|---|---|
| `CreateNamespace` | `CreateNamespace` in `namespaces.go` |
| `AcquireCRDs`, `WaitForCRDs` | `testcase.go:181-187` |
| `AcquireNext` | one `Acquire` of `deployProviders` or `deployGatewayImplementation` (`helpers.go`); after the last, both `t.Cleanup` of `testcase.go:195-213` |
| `WaitForNext` | `Wait` on providers, then on the implementation, `testcase.go:215-228` |
| `RunStep`, `RunEnds` | the steps of `Run`, each with the cleanup it registers, and the verification |
| `CleanUp`, `End` | the functions of `t.Cleanup`, last registered first |
| `Release` | one goroutine of a cleanup: `Resource.Cleanup` up to its wait |
| `CallSucceeds`, `CallFails` | one call of an install function: Helm chart, manifest, wait for readiness, gateway class |
| `Remove` | the goroutine that runs the cleanup function of a resource |

A `require` may fail at every step that calls the cluster; `Fail` then ends the test,
which cancels its context, and goes on with the cleanups. The install goroutine
keeps the context of the test that started it (`Cancelled`). Install functions
are the sequences `Deploy...`, with the Helm charts of each, and the cluster keeps one
`releases` entry per chart, because `InstallChart` asks whether one exists. CRDs, manifests
and classes are written over whatever exists, so nothing of them is kept. A
cleanup that times out leaves a `"broken"` release or a `"stuck"` namespace,
as the code logs and goes on.

### PortForward

The forwards of `TestLifecycle`'s tests, in a module of their own because the
semaphore is all they share. `pc` follows one set-up of forwarders: `find` and
`start` are `startPortForwardToService` for one port after another, `verify` the
verification of each with `retry`, `convert` what lies between the set-up for the ingress
controllers and that for the gateways. `conn` is the state of each forward and
of its goroutine, `used` and `waiters` the weighted semaphore with its queue,
`cleanups` the set-ups whose forwarders `t.Cleanup` knows.

| action | code |
|---|---|
| `FindService`, `ServiceMissing` | the service is found and ready, or the set-up fails |
| `TakeSlot`, `Dial`, `StartFails` | `Acquire`, which may queue the forward; a pod is found and the goroutine started; or an error path that releases the slot |
| `Ready` | `readyChan` or `errChan`; the last forward of a set-up registers its `t.Cleanup` |
| `Connect`, `Break`, `Disconnect` | the goroutine in `ForwardPorts` |
| `Answered`, `Unanswered` | an attempt of a verification |
| `Convert`, `ConvertFails` | `runI2GW` and `createGatewayResources` |
| `Stop`, `CleanedUp` | `stop()` of one forwarder, the end of a cleanup |

A set-up registers its cleanup after its last forward only, so one that fails
half-way leaves slots behind. `OnlyFailedSetUpLeaks` says that this is the only
way, and exactly which slots.

### Pipeline

One call of `print`. `stage` is where it is, `emitter` and `filter` the fields
of `PrintRunner`, `todo` the rest of the map the current loop ranges over,
`stores` the storage of each provider, `errs` and `resources` the results,
`printed` and `row` the output. `PreRun` and `Prepare` validate flags, `Construct` makes the
providers, `Read(p)` fills one storage from files or cluster with the class
filter of the provider, `ChooseEmitter`, `Convert(p)` with its errors,
`Conclude` decides between errors and output, `PrintKind` prints one kind of all
providers, `Finish` ends. A document is an Ingress (with a defect in its shape,
which a reader refuses, or in a value, which the conversion refuses), a Service,
a `List` of both or garbage. What a provider makes of one Ingress is abstracted
to one route, one Gateway for its class, and an extension where emitter and
provider know its policy; the other modules say what these hold.

### IngressAggregator

The state is that of `ingressAggregator` and of the local variables of `ToIR`.
`AddIngresses` is the loop over `addIngress`; `ConvertGroup` converts one rule
group, in the string order of its key (`toHTTPRoutesAndGateways` sorts), which is the
parameter `Earlier`; `ConvertDefaults` the default backends; `BuildGateway` one
gateway of the listener map, in any order because it is a Go map; `Return`
either the IR or nothing.

Names decide what collides, so they are modelled by what `NameFromHost` and
`RouteName` lose: a host is a sequence of labels, each a sequence of words, and
a name is the concatenation of words, so `*.foo.com` and `foo.com` have one
name, and `web` + `foo-bar.com` is `web-foo` + `bar.com`. Paths are sequences of
segments; a service port is a number or a name to look up; other data is left
out.

### IngressNginx

`StartFeatures` begins when common conversion is done; `CanaryFeature` handles
one rule group per step, in any order, because `GetRuleGroups` returns a map;
`CreateBackendTLSPolicies` (which makes no policy and only resolves backends),
`RedirectFeature`, `HeaderModifierFeature`, `RegexFeature`, `BackendTLSFeature`,
`SessionAffinityFeature`, `SSLPassthroughFeature` and `AppRootFeature`
follow in the order of `newResourcesToIRConverter`. Backend TLS takes the routes
sorted by name (`NameBefore` is a constant, the order of strings) and keeps the
first settings of a Service; session affinity takes them in map order and keeps the
last; so does passthrough, where the first of two routes makes the listener. `PassthroughPanics`, and a
canary step that goes to `"panic"`, stand for an index out of range or a nil
pointer. Annotations are the record `ann`: parsed, with only their validity and
what the routing depends on. Matches with regular expressions keep their path
and change their type, as the code does; the text of the expression is left out.

### NginxEmit and Emitters

`ApplyPolicies` is `ToEmitterIR` and the five passes that record rewrites, IP
ranges, timeouts, CORS and body sizes, `AddRedirects` SSL and trailing-slash redirects for one
route (they come in map order), `AddWWWRedirect` / `RejectWWW` the www pass, `CommonEmit` and
`StandardEmit` the emitters. A policy is a kind, a rule index and the Ingress it
was read from, so a pass that shifts rules or copies them without their policies
shows. Whether a request of a host and port reaches a rule is the operator
`AttachedTo`: Gateway API's attachment by parentRef port, section name and host
intersection. It belongs to the properties, not to the code, as do the operators that say
of which routes they speak: `Clear` (the names the passes make for the route are its own, and it has a
Gateway) and `OnlyRule` (no other rule of the host asks for the same match).

`Emitters` adds one action per other emitter. `Merged` is the rule by which
policies that all rules share become one for the route, `Built` the builder map
with the names it gives (so two policies of one name meet), `extensions` the
custom resources, `warnings` and `unparsed` what is reported as dropped; affinity
is reported for Services (`ServiceReports`).
`PoliciesWhereAsked` then says for every emitter: a rule has the policies asked for it
enforced or reported, and no other (`RulesWhereAsked`). Its part `ServicesWhereAsked` says so for Services,
from the Ingresses alone: of the backend TLS settings asked of a Service
it has those of the first route by name, and affinity that was asked for is reported.

### Features, NginxAnnotations, GCE, Providers

An input of `Providers` names its provider. `ToIR` runs as in
`IngressAggregator`, on Ingresses in every order that the provider's map may
give; `NextFeature` starts the next feature of `FeaturesOf`, `ParseGroup` lets it
visit one group of `GetRuleGroups`, in any order, and in it one rule after
another, as the code does: an Ingress with two rules for a host is
visited twice. The features are operators from IR to IR:

| feature | operator | module |
|---|---|---|
| Traefik `router.tls`, `router.entrypoints`, redirect | `RouterTLS`, `RouterEntrypoints`, `ForceHTTPS` | `Features` |
| Cilium `force-https`, APISIX `http-to-https` | `CiliumForceHTTPS`, `HTTPToHTTPS` | `Features` |
| nginx `listen-ports`, `rewrites`, headers, `path-regex`, redirect, `hsts`, `ssl-services`, `grpc-services` | `ListenPorts`, `RewriteTarget`, `HeaderManipulation`, `PathRegex`, `SSLRedirect`, `HSTS`, `SSLServices`, `GRPCServices` | `NginxAnnotations` |
| gce | `WithGatewayClasses`, `WithFrontends`, `WithBackendConfigs` in `ConvertGCE`, `GCEEmitted` in `EmitGCE` | `GCE` |

Inputs without a provider check the common converter alone.

### Kong

`KongNext` runs the common converter on the Ingresses, then `StartTCP` and
`ConvertTCPGroup` the aggregation of TCPIngresses by namespace, class, host and
port, `Merge` is `MergeIRs` with the limit on listeners, `PatchGroup` and
`NextFeature` the features for headers, methods and plugins. An input says
whether it comes from a file, where the first reader leaves nothing for the
others.

### Istio

`ConvertGateway` and `ConvertVirtualService` take one object of the map each;
all Gateways come first. The first fills `allowedHosts`, by namespace, the
second makes routes, parent references and grants from it. Hosts are sequences
of labels, so that wildcards and the names built from them are those of the code.
`WithRewrites` shows the slice that two routes share: an `append` to a slice with spare
capacity writes the same array twice.

### OpenAPI3

`NextOperation`, `ExpandTurn` and `AddMatchers` expand one operation's servers, one
variable per turn; `Group` inverts the map from matchers to listeners,
`ConvertGroup` makes the routes of one group, cut to `MaxMatches` and `MaxRules`, in any
order; `AddGrants` ends. `OperationsAnswered` and `NothingElseAnswered` compare
the routes with a reference definition: every operation at every server for
every assignment of values to the server's variables.

## 3. Runs

| run | configuration | question | outcome |
|---|---|---|---|
| `resource_manager` | three calls for one key, one for another, fairness | safety, refinement of `SharedResource`, does every call return, does the cluster end clean | holds |
| `test_lifecycle` | two tests that share the CRDs and Kong, which one of them uses as provider and as implementation; every step may fail; fairness | order of setup and cleanup, leaks, use of shared resources, does every test release what it acquired | holds |
| `lifecycle_ready` | same tests | `resource_manager.go:148`: `Wait` means installed and ready | violated: a release that failed earlier counts as installed |
| `port_forward` | two tests that need seven forwards, on six slots; every forward may fail or break; fairness | are slots counted right, which ones are lost, does every test end | holds |
| `pipeline` | calls with up to three providers and documents, from files and cluster, with every kind of error | refinement of `Conversion`; which objects each provider sees; is a resource printed once | holds |
| `providers` | pairs of Ingresses, plain for the common converter and annotated for Traefik, Cilium, APISIX, nginx and GCE | paths, sources, listeners, secrets, errors, order; schemes, ports and policies as annotated | holds |
| `nginx_emit` | pairs of Ingresses with canaries, protocols, route annotations, policies, redirects and TLS; two main Ingresses on one path; rule groups that share a route; passthrough of a backend without a port; a host and its www name; backend TLS and affinity for one Service or two; five emitters | canary split, panics, lost paths, who answers on ports 80 and 443, where policies, backend TLS and affinity end | holds |
| `kong` | Ingresses with headers, methods and plugins, next to TCPIngresses, from cluster and file | matches, TCP ports, merged listeners | holds |
| `kong_headers` | same inputs | `kong/header_matching.go:39`: values of one header are ORed, headers ANDed | violated: of two headers with two values each, half of the combinations is missing |
| `istio` | one or two Gateways and VirtualServices, in and across namespaces | what is routed, what is not, grants | holds |
| `istio_rewrites` | same inputs | `istio/converter.go:756`: exact and regex matches replace the full path | violated: two routes share one array and both replace the prefix |
| `openapi3` | documents with up to three servers, enumerated variables and six operations | every operation once at each of its servers and nowhere else | holds |

The violated runs are disagreements between a document or comment and the code,
described under `findings`.

There is one run per question, and runs of one model share their inputs.

Many properties name an exception: routes whose names collide
(`Unambiguous`, `HostNamesake`, `PolicyNamesake`), hosts whose Ingresses disagree, rules that an
earlier Ingress took away (`TakenByFirst`). Each exception is a state in which the code
does otherwise, stated as narrowly as TLC allows; section 5 says what happens there.

**Bounds.** Handles: three calls of one key are the least that let one call hold,
one clean up and one wait at the same time; a fourth, of another key, shows that
keys do not interfere. Each handle calls `Acquire` once, which loses nothing: a
second call by the same goroutine is another handle. The proofs need no
bound. Tests: what one test can do to another is told by two of them, one that
acquires first and one that shares; the theorems hold for any number. Kong is
chosen because it is an implementation and a provider and because its install
function has a step after the chart; the other test adds ingress-nginx, whose
install function has a readiness step, and one step of `Run` each stands for
objects and for forwarders.

Forwards: one test forwards two ports in each set-up, the other has two controllers; each
can fail in the middle of a set-up and hold slots through the second.
`EnoughSlots` in `MCPortForward` says why six slots suffice: a test that waits has, or has
lost, at most one slot less than it needs, so as long as these add up to less than the
semaphore's slots somebody can go on. The framework has 50 slots and does not
ensure this: with more tests, or after enough failed set-ups, all may wait.
The invariants and their proofs hold for any number of slots. Two attempts are
one that is repeated and one that is the last.

For conversion the bounds are inputs: two Ingresses (three where a canary
meets another protocol or a second canary), at most two rules, at most two paths
each. Every hazard listed is about two things that meet: two Ingresses on a
host, two names, two passes on a rule, two hosts on a gateway. A third actor only matters where a list
has a first, a middle and a last element, and two paths times two Ingresses give
four rules. All values of annotations that the code tells apart occur: absent,
valid, invalid, and for weights missing, zero, between, above the total.
`providers` takes each pair in both orders where the provider keeps Ingresses in a map, and
groups in every order. Limits are scaled down so that they are met: three listeners for a merged
Gateway (64 in the code), two matches and two rules (8 and 16). Of the
nine providers `Pipeline` has four, chosen by what a reader tells apart: two that claim one class,
two that can look up ports in a file; of the emitters one with extensions of its
own per call, one that keeps them and one without.

**Deadlock.** `port_forward` and `istio` have a step for the end and check for
deadlock. The other programs end, so their configurations switch the check
off; that calls do not get stuck is what `CallsReturn` and `ClusterLeftClean` of
`resource_manager` and `EndsReleased` of `test_lifecycle` say.

**Fairness.** The three modules of the framework have a `FairSpec`. That of
`TestLifecycle` is weak fairness of each test's own steps, of each `Release` and,
for each key, of `Install` and of `Remove`: `go test` runs every test to
its end, and all calls on the cluster, by tests and by install and cleanup functions, poll with
contexts that time out. Nothing is assumed about which result a call has. That of
`ResourceManager` is weak fairness of each
call inside `Acquire`, of `InstallReturns`, `Cleanup`, `Release` and the three
steps of a cleaner. Goroutines are scheduled by the Go runtime; install and
cleanup functions poll with bounded timeouts, so they return; tests register
`Cleanup` with `t.Cleanup`, so it is called. That a test calls `Acquire` at all
is not assumed. Weak fairness is enough: a parked call stays
enabled once its channel is closed, and no call competes for the same entry
forever because handles are finite. A mutex is modelled as an atomic region, so
starvation at the mutex is not considered (Go's mutexes prevent it).
That of `PortForward` is weak fairness of each test's step, which is disabled
while its forward waits for a slot or dials, and of the goroutine of each forward, which connects, or returns
once it is told to stop. That a connection breaks is possible, never assumed. The semaphore serves its
queue in order, so a waiter needs no fairness of its own, only slots that come back.

## 4. Proofs

`ResourceManager_proof` proves the following for every finite set of calls, any
set of keys and any assignment of keys. Assumptions: `KeyOfType`,
`NoneIsNoHandle` and `FiniteHandles` (the count is compared with the
cardinality of the set of holders).

| theorem | statement |
|---|---|
| `TypeCorrect` | `Spec => []TypeOK`: in particular no count goes below zero |
| `OneInstall` | `Spec => []OneInstallPerKey` |
| `UsersAreSafe` | `Spec => []UsedIsIntact` |
| `ReleaseFindsOwn` | `Spec => []ReleasesItsOwn` |
| `NoLeak` | `Spec => []NothingForgotten` |
| `TeardownRunsOnce` | `Spec => TeardownOnce`, an action property |
| `Refinement` | `Spec => ImplementsSharedResource` |

None of these properties is inductive: that `release`, which looks up by key,
finds its own state depends on nobody having deleted it, which depends on the
count being exact, which depends on every holder's pointer being the listed one.
The inductive invariant `IInv` describes the life of a `resourceState` in five
parts:

- `Created`: nothing refers to a state before its creator ran `Create`, and an
  entry of the map is a state that is not yet closed;
- `Pointers`: holders and cleaners work with the state listed for their key;
  holders see a nil `cleaningUp`, cleaners an open one, and a state has at most one
  cleaner;
- `Counted`: as long as nobody cleans up, the count is the cardinality of
  the set of holders and positive; afterwards it is zero and there is a cleaner;
- `Effects`: what install and cleanup functions did fits the phase;
- `Types` and `NonNegative`.

`Inductive` is shown with one lemma per action, each with one step per part. The
only arithmetic is in `Counted`: sharing adds one element to the set of holders
and releasing removes one. The refinement maps holders to `owners` and the
fields of the listed state to `phase`; `Park`, `Retry`, `Wait`, `Cleanup` and the
steps of teardown are stuttering steps, the others are `Take`, `Settle`, `Drop`
and `Remove`.

`TestLifecycle_proof` proves, for any set of tests, any assignment of at least
one controller to each (`NeedsOfType`; a test always has an implementation) and any
steps (`StepsOfType`):

| theorem | statement |
|---|---|
| `TypesHold` | `Spec => []TypeOK` |
| `CRDsOutliveControllers` | `Spec => []ControllersHaveCRDs` |
| `RunningTestsAreSafe` | `Spec => []RunsOnPresent` |
| `TestsEndClean` | `Spec => []EndsClean` |
| `NamespaceGoesFirst` | `Spec => NamespaceDeletedFirst`, an action property |
| `StepsOnShared` | `Spec => UsesSharedResource` |

That controllers have CRDs is a statement about keys; why it is true is a
statement about every test's stack of cleanups. The inductive invariant `IInv`
therefore gives for each test and each `pc` what is on the stack, which
resources it holds and which of them are surely present (`Stage`), what of its
objects and its namespace has no cleanup on the stack (`Leftovers`), and ties
keys to tests: who owns a key asked for it, and a key that is being
removed has a test waiting for it (`Owned`, `Phases`). `Undisturbed` carries
`Stage` and `Leftovers` over the steps of other tests: they may add or remove
their own handles, and a resource that is present stays so while anybody holds it.
`StepsOnShared` and `Refinement` meet in `SharedResource`: tests need no more than its
promise, the resource manager keeps it.

`PortForward_proof` proves, for any set of tests, any positive number of slots
and attempts, any positive number of services in each set-up and any choice of
tests that forward port 443 as well (`SlotsType`, `ServicesType`, `HTTPSType`,
`MaxAttemptsType`):

| theorem | statement |
|---|---|
| `TypeCorrect` | `Spec => []TypeOK` |
| `SlotsAreAccounted` | `Spec => []SlotsAccounted` |
| `LeaksAreExplained` | `Spec => []OnlyFailedSetUpLeaks` |

`SlotsInv` is about the semaphore alone: the count is the cardinality of the set of
holders, the queue holds each waiting forward once, and is empty while a slot is
free. `AcquireKeepsSlots` and `ReleaseKeepsSlots` show it for the two operations,
handing a slot to the next in the queue included, and every action is one of them or
leaves slots alone. Why only a failed set-up leaks is a statement about the order of things in a
test: `Place` says for each `pc` how many forwards are started and which
cleanups are registered, and `Where` in which states a forward of an earlier, the current
and a later turn can be. `IInv` is these with the types.

`Pipeline_proof` proves, for any registered providers and emitters, any classes,
any set of calls and documents, and every order of the maps (`PipelineAssumption`
describes the shape of a call):

| theorem | statement |
|---|---|
| `Typed` | `Spec => []TypeOK` |
| `Refinement` | `Spec => ImplementsConversion` |
| `Selection` | `Spec => []ObjectsSelected` |
| `PrintedOnce` | `Spec => []EachOnce` |

`Conversion` speaks of all providers at once, the loops of the code handle one after
another. `IInv` says what is settled at each stage: `FlagsSettled`, that no flag
was wrong if the call got this far; `ReadSettled`, that a provider that was read holds
what `Stored` gives it, a function of the input alone; `ConvertSettled`, that
resources and errors are those of the providers converted so far; `PrintSettled`, that the rows printed so far
hold all resources of their kinds. So the order is gone from the state before it
can be seen. Reading, converting and choosing an emitter are stuttering steps of
`Conversion`, `Conclude` is `Begin`, a printed row is `Deliver`, `Finish` is `End`
and each error `Fail`. `Selection` needs, besides, that a storage holds the last object of a name,
which `Stored` defines as a maximum over places. `PrintedOnce` needs an invariant of its own, `Apart`:
what two providers added to the resources has something in common only where
`EachOnce` names the reason, and what two rows printed has something in common only if two
parts of the resources have.

`OneInstallPerKey`, `ReleasesItsOwn`, `TeardownOnce` and the type invariants `TypeOK` of
the four modules above are proved and not repeated as properties of runs: what they
add for a small instance the other properties of the run imply or need.

### Proofs about the conversion

The values of the conversion are nested slices built by loops, so a statement
about all inputs is one about what a loop returns for every slice.
`Lists_proof` proves this once for the loops the converters share: `Keep` (the elements that
pass a test, in order), `Firsts` (each element once), concatenation,
`FlattenSeq`, `RemoveAt` and the last position of an element. The induction theorems
of the library take an operator as a parameter, which the provers cannot
instantiate; `Induction` of `Lists_proof` takes a *set* of numbers instead, and
each loop is a recursive function (or is shown equal to one), so that "the loop is right
up to `i`" is a set (`KeepLoop`, `FirstsLoop`, `FlattenLoop`). The loops of the
aggregator over rules and over wishes have lemmas of the same form in its own proofs.

`IngressNginx_proof` proves in its first half, about `IngressAggregator`, for any inputs of well-formed Ingresses
(`InputsAssumption`: what an Ingress holds are slices, its name is one, and its hosts are those the API
server accepts: they leave something for the name of a listener, and `*` is at most their first label), any ports of Services, any set of classes with a slash, and
groups and gateways in every order:

| theorem | statement |
|---|---|
| `RoutesArrive` | `Spec => []RoutesReachListener` |
| `SecretsArrive` | `Spec => []SecretsPresented` |
| `PathsArrive` | `Spec => []PathsConverted`, the first part of `PathsServed` |

What an Ingress asks for moves: from the Ingress into a rule group, from the group into a
route and a wish for a listener, from the wish into a gateway. `IInv` follows the
host of every route (`Reaches`) and every secret (`Carried`) along that way, and
says of all hosts on the way whose they are (`Claimed`), because a host only loses
its listener to one of the same listener name that an Ingress of the gateway has. `PathsInv` follows
the paths: a path not yet converted is in the group of its key (`Holding`), one that
is has a rule with a backend for it (`Serves`); backends and sources have equal positions
(`Even`); and there is an error exactly for a defect of the input
that was reached. `MatchesInv` adds that no two rules of a route match the same, and
`ShapesInv` what the features need of the output: a route made from rules has the name, host and class of its
rule group and one match per rule, one made from a default backend no host, and a
gateway's listeners have modes and names of the form the later passes compare. `PlacesInv`
says where routes come from: two routes made from rules differ in namespace, class or host
(`StoredApart`), and every gateway listens on port 80.

`Istio_proof` proves, for any sets of Gateways and VirtualServices whose
keys differ (`InputsAssumption`; they come from a map by key, and their lists are slices) and every order of the loops:

| theorem | statement |
|---|---|
| `NothingInvented` | `Spec => []RoutesTellTruth` |
| `GrantsReach` | `Spec => []GrantsCover` |
| `Served` | `Spec => []RequestsServed` |

`IInv` says of every Gateway and VirtualService the loops are through with what is stored for
it or that its error is, and of everything stored whose it is. All depends on what
`generateReferences` reads from `allowedHosts`, which stands still only because
the second loop starts after the first (`LoopInv`).

`Emitters_proof` is about `EmittersSpec`, the specification of the run
`nginx_emit`. Besides the assumptions of the aggregator, it needs that named ports are
not 0 (`PortsAssumption`; the API server rejects others), that what the aggregator
gets are Ingresses of the list and that `parseCanaryConfig` lets no negative
weight pass and has a positive total (`CanaryAssumption`).

| theorem | statement |
|---|---|
| `EmittersConvert` | `EmittersSpec => NginxSpec /\ Spec`: whatever the emitter, a run is one of the ingress-nginx conversion and of `common.ToIR`, whose theorems hold there |
| `PanicsAreExplained` | `EmittersSpec => []PanicsExplained` |
| `RulesAnswer` | `EmittersSpec => []RulesAnswerOnce` |
| `RulesGetPolicies` | `EmittersSpec => [](Printed => RulesWhereAsked)`, the part of `PoliciesWhereAsked` about rules |
| `CanariesSplit` | `EmittersSpec => []CanaryTraffic` |
| `PathsAreAccounted` | `EmittersSpec => []PathsAccounted` |
| `PlainSideIsAnswered` | `EmittersSpec => []PlainSideAnswers` |
| `SecureSideIsAnswered` | `EmittersSpec => []SecureSideAnswers` |
| `SlashesAreRedirected` | `EmittersSpec => []SlashesRedirected` |
| `WWWIsAnswered` | `EmittersSpec => []WWWAnswers` |

`NginxInv` is what all features keep true of a route (`GoodRoute`): every
backend has a source at its position, which is an Ingress of the input that names it, and a
rule has a redirect or backends, never both. The canary feature adds a rule with one
backend and two sources, so there may be more sources than backends, never fewer;
that is why a second visit of a route can index out of range and a first one cannot
(`UntouchedFits`). `CanaryInv` says exactly what a half-finished canary feature has
done: a route whose rule group was visited is `CanaryRoute` of the route of
`common.ToIR`, the others are still that route. It is inductive because of
`CanaryTwice`: a second visit of a route panics or changes nothing, since
weights are set to what they are and a canary by header has left its rule. That
`CanaryRoute` splits as asked is then a statement about one route (`RouteSplits`), for which
it has to be known which rules match a path with a header value (`RulesFound`); there `MatchesInv`
is needed, as two rules of equal matches would hide each other.

`PathsAccounted` is about what eight features leave of a path that none of them
made. `FlowsInv` follows each path of a main Ingress (`Tracked`) through them: in the routes of its
host there is a rule with its match that carries its Service, until the redirect feature
takes the Service away or the passthrough feature moves it to a TLSRoute, and there the redirect or the
TLSRoute accounts for it (`Accounted`). Every feature has to keep what the
earlier ones did (`AfterRedirect`), and the sources of a rule have to name the Ingress whose
path it is, because the features ask the sources. The passthrough feature
visits the routes in map order and the first gives a listener its name
(`WithPassthroughListeners`); the listener a TLSRoute attaches to exists in any order (`PassthroughAccounts`).

`PlainSideIsAnswered`, `SecureSideIsAnswered`, `SlashesAreRedirected` and `WWWIsAnswered` are about who
answers a request once an emitter is done, which no pass decides
alone: `common.ToIR` makes the listeners, the features the rules, the redirect pass splits a route in
two and moves one half to the HTTPS listener, the www pass adds routes and listeners. Their
invariants say in turn what the next one needs:

- `SitesInv`: after `convert`, every route still has the namespace, name, parent and host of a route
  of `common.ToIR` (`Sited`), no feature made a redirect to HTTPS or for a slash, and listeners were
  only added.
- `EmitInv`: what has become of each route whose names are its own (`Free`), whichever routes the
  passes have visited (`Followed`). Until its turn it is as `convert` left it; then it is `MainForm`
  and, if it was split, `PlainForm` under the name with `http`; `WWWRoute` is only under the www name.
  Every route of the emitter IR has a name that belongs to some route of the ProviderIR (`AllNamed`),
  gateways only gain listeners (`GatewaysKept`), and a www route has its listeners (`AllHeard`).
- `Like`: what all five emitters leave alone of a route (head, parentRefs, matches, redirects,
  Services), so that `EmitInv` survives them: an emitter adds filters, never a redirect.

That a form attaches to its listener is `FormsAttached`; that whoever answers for a match is the form of
the route that has it, `WhoAnswers` and `AnswersAre`. The theorem on slashes also needs that a redirect
on a host comes from the one route made from rules there (`HopsOrigin`, `SlashesOfOne`), which is
`PlacesInv` of the aggregator: the routes of default backends only have the path `/`.

`RulesGetPolicies` follows a policy from the annotation to the rule, the resource or the report. A policy
points at its rule by index and at its resource by a name made up of the route's and the index; the
invariants say that both still mean what they did:

- `HeadedInv`: after the header feature, exactly the rules whose main Ingress asks for headers have the filter
  (but for routes with a TLSRoute, `FilterKinds`).
- `PolicyInv`: through the redirect and www passes every policy points at a rule of its route, and the emitter
  IR has each route under its own key (`Owned`); after `CommonEmit` a route is
  `Applied(MainForm(..))`: its policies are where `ToIR` put them, and the rules the redirect pass adds come
  behind them (`Collected`). After an emitter, every rule has what it asks for (`AllAsAsked`).

What an emitter makes of its policies is `ResourcesOf`: `Built`, folded over the policies in any order, has one
resource for each name that is needed, whose target and content each come from a policy that needs the
name. That target and content come from the *same* policy follows where no other route needs the name
(`OwnName`), which is the condition `~PolicyNamesake` of the property. A merged policy stands for all rules only
if there are as many policies as rules, no two of them for one rule (`AllCovered`).

`CanaryTraffic` is proved without its exception for names that collide: the theorem
holds for what the overwriting route says, as the statement is about the routes `common.ToIR` returned.

Trying to prove these properties corrected some of them, which TLC's inputs had
not contradicted. `PanicsExplained` had asked for two hosts; two rule groups of
one route name suffice, and a passthrough Ingress may panic through its
default backend. `PathsAccounted` had forgotten two main Ingresses on one path, `Defective`
the paths behind the one that a rule takes its match from. `Clear` had compared
the names of routes with one of the names the passes make, not with all of them; `OnlyRule` had forgotten
the route of a default backend, and its redirects; `HostsWithTLS` had counted a TLS host `""`,
and `OtherName` had taken the `www` off a host that is nothing else. `PoliciesWhereAsked` had
forgotten the headers that a passthrough Ingress leaves to its canary (`FilterKinds`). The inputs of
`nginx_emit` now contain these cases (`Panics`, `TwoMains`, `LeftToCanary`).

Only model-checked: of `PoliciesWhereAsked` the part `ServicesWhereAsked`, where routes in the order of their
names write what a Service has and a later feature takes away rules it was read from; the properties of `Kong` and `OpenAPI3`; those of `Features`, `NginxAnnotations` and `GCE` that `Providers` checks,
and of `PathsServed` that the order of map iteration makes no difference; liveness in the three modules
of the framework; and the violated statements. Liveness under fairness and
`ENABLED` are out of the prover's reach, and so is induction with an operator as its predicate,
where a set does not do: the predicate has to be about the numbers of a loop. `OpenAPI3` and `Kong` build products, of
the values of server variables and of headers, turn by turn, which TLC evaluates
on bounded inputs.

## 5. Findings beside the runs

Met while reading and not kept as runs of their own. Those with a definition in
parentheses are exceptions that a property names.

Common converter and documentation

- `README.md:109` says that the output is equivalent; routes whose names collide
  overwrite each other (`common/converter.go:66`; `Unambiguous`).
- `README.md:173` says that conflicting backends are errors; two Ingresses with
  the same host and path keep both backends (`common/converter.go:464`).
- `README.md:190` says a default backend gets a listener; its route names a
  gateway without adding one (`common/converter.go:286`).
- `README.md:191` speaks of listeners for TLS hosts; a TLS entry whose host has
  no rule adds none (`common/converter.go:218`).
- `provider.go` says feature parsers run in undetermined order; the result of
  ingress-nginx and of nginx depends on it.

End-to-end framework

- `e2e/README.md` says that a failure points at the implementation; a test may fail at an
  install that another test's end cancelled (`helpers.go:103`).
- An install goroutine may outlive the test that started it and then logs with that test's
  `t` (`helm.go:56`), which makes `testing` panic; `TestLifecycle` reaches the state.
- The cleanup of a namespace is registered after waiting for the CRDs
  (`testcase.go:187`, `:211`): a test that fails there leaves its namespace (`EndsClean`).
- Forwarders of a set-up that fails half-way are never stopped
  (`OnlyFailedSetUpLeaks`), and a test holds slots while it waits for more: with
  50 slots and enough tests they can wait for each other.
- `Acquire` may block, for a cleanup in progress, and callers hold no lock then.

Command, pipeline and readers

- `resource_reader.go:117` says that objects nested in a list are retrieved; with a
  namespace filter Lists are dropped before, as they have no namespace (`:133`; `Reached`).
- A malformed Ingress of any class makes every reader fail.
- Named ports cannot be resolved from files by the providers that read Ingresses
  and Services from one reader (ingress-nginx, nginx, cilium, apisix);
  `traefik/resource_reader.go:64` buffers (`Buffered`).
- `-o json` prints extensions as YAML (`print.go:307`, `:404`).
- The report is lost when a conversion fails (`print.go:158`); an unknown emitter
  is noticed only after everything has been read.
- nginx and ingress-nginx claim one class and print resources of the same names (`EachOnce`).
- Envoy Gateway and kgateway keep their builders from one provider to the next
  and print extensions again (`envoygateway/builder.go:32`, `emitter.go:57`; `EachOnce`).

ingress-nginx and the emitters

- `canary.go:145` panics when two rule groups have one route name and the route a
  canary by header (`PanicsExplained`); without a header the second visit changes nothing (`CanaryTwice`). Rules that `canaryFeature` adds have one backend and two
  sources (`canary.go:161`), so the two are no longer parallel for later features.
- `ssl_passthrough.go:114` says that port 80 of other Ingresses is preserved;
  redirects of theirs vanish (`:143`; `PathsAccounted`). A canary that is not passthrough keeps
  the rule of its passthrough main Ingress, and the headers that one asked for (`FilterKinds`).
- `redirect.go:211` says that TLS of one Ingress covers the host; a route may then
  name a listener that does not exist (`:347`; `SecureSideAnswers`).
- `ingressnginx/README.md:23` says that rewrite-target becomes a filter; the rules copied
  for port 80 have no policy of any emitter (`redirect.go:297`; `PlainSideAnswers`).
- Two hosts that are each other's www name and both ask for
  `from-to-www-redirect` redirect to each other (`redirect.go:515`).
- A rule with a redirect filter and a rewrite policy gets both filters, which
  Gateway API does not allow in one rule.
- `ingressnginx/README.md:56` says that `GRPCS` triggers a BackendTLSPolicy; only
  HTTP routes are visited (`backend_tls.go:43`) and such Ingresses become
  GRPCRoutes. `https` in lower case is split as HTTPS (`converter.go:67`) and gets no policy
  (`backend_tls.go:90`). `createBackendTLSPolicies` creates none, and fails
  the conversion for a backend of an Ingress that was dropped (`backend_protocol.go:54`).
- A Service with backend TLS for one path has it for all, also for Ingresses that did
  not ask; which affinity a Service of two routes has depends on the order of a map
  (`session_affinity.go:33`); a canary's affinity reaches the main Service.
- kgateway applies body sizes and reports them as not applied
  (`kgateway/buffer.go:32`). The policy of rule 0 of `node` and that of all of `node-0` have
  one name (`envoygateway/builder.go:46`; `PolicyNamesake`).
- Policies recorded with seconds become nanoseconds and ten times that without a
  check for overflow (`timeouts.go:46`, `common_emitter/emitter.go:126`).

Traefik, Cilium, APISIX

- `router.entrypoints: websecure` removes the HTTP listener only if no host of the
  Gateway has HTTPS; otherwise it stays and the route is pinned to an HTTPS
  listener of its host even if there is none
  (`router_entrypoints.go:102`). What happens depends on the order of the groups if
  the other host has HTTPS removed by `web`.
- One Ingress with `web` removes the HTTPS listener another of the host needs; a
  Gateway may end without a listener.
- Cilium and APISIX redirect HTTPS as well, to itself; Cilium drops the backends of all
  Ingresses of the host, and two annotated Ingresses add two redirects to a rule.
  APISIX keeps `backendRefs` next to the redirect.

nginx

- Features run once per rule of a host, so listeners, redirects and HSTS headers
  are added again for an Ingress with two rules (`listen_ports.go:119`).
- A default HTTPS listener has no certificates; default listeners without a host
  stay beside custom ones.
- `redirect` pins the whole route to the HTTP listener, so HTTPS has no route. It looks
  up the route by its own Ingress, not the first of the host, and by a listener
  name that differs for wildcards, no host and custom ports (`RedirectHonoured`).
- `grpc-services` removes HTTP rules without backends, so a redirect is lost, and rules of
  other Ingresses for the same service (`TakenByFirst`). A second pass overwrites the
  GRPCRoute and loses its filters.
- HSTS and hidden headers give one rule two filters of one type; rewrites are
  applied to all rules of a route; backends that are resources panic.

GCE

- Of two Ingresses of a class with different FrontendConfigs the last in the order of a map
  wins (`ir_converter.go:171`), and one without an SSL policy can hide another's.
- Ingresses without rules get a Gateway without name or listeners from
  `setGCEGatewayClasses`.

Kong

- From a file one reader is passed to three reads (`resource_reader.go:76`), so
  TCPIngresses and Services of files are never read.
- A TCP route's name ignores the port, so two ports of a host collide; a listener
  takes the host of a lone TLS entry, the section its route names does not (`TCPServed`).

Istio

- Listeners allow routes of their own namespace only, so routes of another
  namespace never attach (`RequestsServed` counts them as referred to).
- `converter.go:758` says that a full path is replaced when all URI matches are
  empty; the code and `istio/README.md:83` replace the prefix.
- `istio/README.md:32` promises one grant per pair of namespaces; grants of one
  name overwrite each other (`GrantsCover`).

OpenAPI3

- `converter.go:183` and `:245` say that the output is deterministic; it depends on the
  order of a map (`:614`).
- Routes of a group of several listeners attach to HTTPS and HTTP ones alike.
- Errors are appended to a copy of a slice and lost (`:557`); parameters of an
  operation replace those of its path; `"*"` becomes a hostname; the branch that
  counts names of several documents cannot be reached (`:120`).

## 6. Not modelled

Text: YAML, formatting, log and notification messages, URLs and the bodies of
regular expressions. The API server, Helm and the network: an install or wait
succeeds or fails. In the framework: `SKIP_CLEANUP`, names of providers no
switch knows (each test uses known ones), which pod a forward goes to, and the requests of the verifiers, of
which only the outcome matters. Of the command: the version command, the
kubeconfig flag, the registration of provider-specific flags and the report,
a list of messages that nothing reads back.

Within ingress-nginx: the values of annotations, a `backend-protocol` that is
present and empty, and rules without paths of an Ingress that was dropped. Regex matches share a pointer to their path with
rules a canary adds (`canary.go:117`, `regex.go:80`); it is not modelled that
one rewrite shows in both. Paths of implementation-specific type are converted by
gce and kong in a way no property tells apart. Values that are carried over unread,
weights of routes, timeouts and header values among them, and the
arithmetic on durations and on weights of merged duplicate backends. In
`providers` an Ingress has Services as backends.

## 7. Plan

Done, in this order: `ResourceManager`, `TestLifecycle`, `IngressAggregator`, `IngressNginx`,
`NginxEmit`, `PortForward`, `Pipeline`, `Kong` with `MergeIRs`, `Istio`,
`OpenAPI3`, `Emitters`, `Features`, `NginxAnnotations`, `GCE`, `Providers`. Left:

1. The gce emitter after ingress-nginx, where it combines session affinity with a BackendConfig.
2. A proof of `ServicesWhereAsked`: that the routes sharing a Service are those of the Ingresses that do, so
   that the first route by name to write its backend TLS is the first of theirs.
3. An abstract specification of a host's listeners (who answers on which scheme)
   that `NginxEmit` and `Providers` both implement.
4. Numbers: durations, weights of merged backends, limits of listeners and rules
   together.

## 8. Reading and repeating

Start with `SharedResource` (61 lines) and `ResourceManager`, then
`ResourceManager_proof` from its end (`Inductive`) upwards; read `TestLifecycle` and
its proof the same way, `Stage` first, then `PortForward`. For the conversion read `Conversion` and
`Pipeline`, then `IngressAggregator`, and after it either `IngressNginx`,
`NginxEmit`, `Emitters` or `Features`, `Providers`; `Kong`, `Istio` and `OpenAPI3` stand on their own. Read each
from `Next` upwards, then the properties at the end. Of the proofs about the conversion read
the invariants at the top and the theorems at the end first; `Istio_proof` is the
shortest, `Emitters_proof` rests on `IngressNginx_proof` and both on `Lists_proof`.

    tlc -workers 2 -config ResourceManager.cfg MCResourceManager.tla
    tlc -workers 2 -config TestLifecycle.cfg MCTestLifecycle.tla
    tlc -workers 2 -config PortForward.cfg MCPortForward.tla
    tlc -workers 2 -config Pipeline.cfg MCPipeline.tla
    tlc -workers 2 -config Providers.cfg MCProviders.tla
    tlc -workers 2 -config NginxEmit.cfg MCNginxEmit.tla
    tlc -workers 2 -config Kong.cfg MCKong.tla
    tlc -workers 2 -config Istio.cfg MCIstio.tla
    tlc -workers 2 -config OpenAPI3.cfg MCOpenAPI3.tla
    tlapm ResourceManager_proof.tla
    tlapm TestLifecycle_proof.tla
    tlapm PortForward_proof.tla
    tlapm Pipeline_proof.tla
    tlapm Lists_proof.tla
    tlapm Istio_proof.tla
    tlapm IngressNginx_proof.tla
    tlapm Emitters_proof.tla

`TestLifecycleReady.cfg`, `KongHeaders.cfg` and `IstioRewrites.cfg`, with the
modules of their models, show the three violations.
