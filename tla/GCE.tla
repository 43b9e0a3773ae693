-------------------------------- MODULE GCE --------------------------------
(***************************************************************************)
(* The gce provider and the gce emitter: a FrontendConfig gives its SSL    *)
(* policy to the gateways of the Ingresses that name it, a BackendConfig   *)
(* its settings to Services, and the emitter makes policies and filters of *)
(* them.                                                                   *)
(*                                                                         *)
(* An input has gatewayClass, the flag; frontends, name -> SSL policy or   *)
(* ""; configs, name -> [valid, kinds]; and services, name -> [v1, beta],  *)
(* each the BackendConfig that the annotation picks, or "" if it is        *)
(* missing or names none.  All objects are in one namespace.               *)
(***************************************************************************)
EXTENDS Features

(* Mutant: and of the older annotation if it differs.                      *)
ConfigsOfBoth(s) == {s.v1, s.beta} \ {""}

(* getBackendConfigMapping: the older annotation counts if the newer one   *)
(* names no config.                                                        *)
ConfigsOf(s) == (IF s.v1 # "" THEN {s.v1} ELSE {s.beta}) \ {""}

(* Ingresses without a class get one before they are converted.            *)
WithClass(ing) == IF ing.class = "" THEN [ing EXCEPT !.class = "gce"] ELSE ing

SupportedGatewayClass(name) == name \in {"", "gke-l7-rilb"}

-----------------------------------------------------------------------------
(* setGCEGatewayClasses: the class is left out, but an Ingress without     *)
(* rules gets a Gateway that is empty but for it.                          *)
WithGatewayClasses(o) ==
  LET keys == {<<ing.ns, ing.class>> : ing \in ToSet(input.http)} IN
  [o EXCEPT !.gateways = @ @@ [g \in keys |-> <<>>]]

Naming(frontend) ==
  {<<ing.ns, ing.class>> : ing \in {i \in ToSet(input.http) : Annotations(<<i.ns, i.name>>).frontend = frontend}}

(* buildGceGatewayIR: the FrontendConfigs come in the order of a map, the  *)
(* last one of a gateway stays, also one without a policy.                 *)
WithFrontends(o, order) ==
  LET Add(acc, frontend) == [g \in Naming(frontend) |-> input.frontends[frontend]] @@ acc
  IN [o EXCEPT !.sslPolicies = FoldLeft(Add, <<>>, order)]

(* buildGceServiceIR: an invalid config is reported and left out.  A       *)
(* Service has at most one.                                                *)
WithBackendConfigs(o, order) ==
  LET Add(acc, config) ==
        IF ~input.configs[config].valid THEN acc
        ELSE [s \in {x \in DOMAIN input.services : config \in ConfigsOf(input.services[x])} |->
                input.configs[config].kinds] @@ acc
  IN [o EXCEPT !.services = FoldLeft(Add, <<>>, order)]

-----------------------------------------------------------------------------
(* The emitter                                                             *)

(* The target is a Gateway, by namespace and class, or a Service.          *)
Policy(kind, target) == [kind |-> kind, target |-> target]

(* Session affinity and security share one policy.                         *)
PolicyKinds(kinds) ==
  (IF kinds \cap {"affinity", "security"} # {} THEN {"GCPBackendPolicy"} ELSE {})
    \cup (IF "healthCheck" \in kinds THEN {"HealthCheckPolicy"} ELSE {})
    \cup (IF "cdn" \in kinds THEN {"GCPHTTPFilter"} ELSE {})

CDNFilter(svc) == <<"ExtensionRef", svc>>

Cached(o, svc) == svc \in DOMAIN o.services /\ "cdn" \in o.services[svc]

(* patchHTTPRoutesWithFilters: once for each Service of a rule.            *)
Patched(o, rule) ==
  FoldLeft(LAMBDA r, b : IF Cached(o, b.svc) /\ ~Contains(r.filters, CDNFilter(b.svc))
                         THEN WithFilter(r, CDNFilter(b.svc)) ELSE r,
           rule, rule.backends)

GCEEmitted(o) ==
  [o EXCEPT
     !.policies = {Policy("GCPGatewayPolicy", g) : g \in {x \in DOMAIN o.sslPolicies : o.sslPolicies[x] # ""}}
       \cup UNION {{Policy(kind, <<"Service", s>>) : kind \in PolicyKinds(o.services[s])} : s \in DOMAIN o.services},
     !.http = [k \in DOMAIN @ |-> [@[k] EXCEPT !.rules = [i \in 1..Len(@) |-> Patched(o, @[i])]]]]
=============================================================================
