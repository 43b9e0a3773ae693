----------------------------- MODULE MCPipeline -----------------------------
(***************************************************************************)
(* Small calls for TLC: four providers (two of which claim the same class, *)
(* two of which see the Services of a file), three emitters, at most three *)
(* documents.                                                              *)
(***************************************************************************)
EXTENDS Pipeline

MCProviders == {"ingress-nginx", "nginx", "traefik", "gce"}

MCEmitters == {"standard", "gce", "envoy-gateway"}

MCExtended == {<<"gce", "gce">>, <<"envoy-gateway", "ingress-nginx">>}

MCKeeping == {"envoy-gateway"}

MCClassesOf ==
  [p \in MCProviders |-> CASE p = "traefik" -> {"traefik"}
                           [] p = "gce" -> {"gce", "gce-internal", ""}
                           [] OTHER -> {"nginx"}]

MCBuffered == {"traefik", "gce"}

Ingress(ns, name, class, fault, port) ==
  [kind |-> "Ingress", ns |-> ns, name |-> name, class |-> class, fault |-> fault,
   port |-> port, policy |-> TRUE]

Service(ns, name) == [kind |-> "Service", ns |-> ns, name |-> name]

(* An item is told from its first object; a List has no namespace.         *)
ListOf(items) == [kind |-> "List", ns |-> "", items |-> items]

Garbage == [kind |-> "garbage", ns |-> ""]

Web(class) == Ingress("prod", "web", class, "none", "")

Objects ==
  {Web("nginx"), Web("traefik"), Web(""),
   Ingress("test", "web", "nginx", "none", ""),
   Ingress("prod", "api", "nginx", "none", "svc"),
   Ingress("prod", "api", "traefik", "none", "svc"),
   Ingress("prod", "api", "traefik", "value", ""),
   Service("prod", "svc")}

InFiles ==
  Objects \cup {Garbage,
                Ingress("test", "bad", "traefik", "shape", ""),
                [Web("nginx") EXCEPT !.policy = FALSE],
                ListOf(<<Web("nginx"), Web("traefik")>>),
                ListOf(<<Ingress("test", "web", "nginx", "value", ""), Service("prod", "svc")>>)}

Flags(providers, name, chosen, format, ns, all, files, context, cluster) ==
  [providers |-> providers, emitter |-> name, chosen |-> chosen, format |-> format,
   namespace |-> ns, all |-> all, files |-> files, context |-> context, cluster |-> cluster]

(* Conversions of files, by every pair of providers worth telling apart.   *)
FileFlags ==
  {Flags(ps, "standard", FALSE, "yaml", ns, FALSE, "read", "error", "up") :
     ps \in {<<"nginx", "traefik">>, <<"ingress-nginx", "nginx">>, <<"gce", "traefik", "traefik">>},
     ns \in {"", "prod"}}
  \cup {Flags(<<"ingress-nginx", "traefik">>, "envoy-gateway", TRUE, "", "", FALSE, "read", "error", "up")}

ClusterFlags ==
  {Flags(<<"nginx", "traefik">>, "standard", FALSE, "json", ns, all, "none", context, cluster) :
     ns \in {"", "prod"}, all \in BOOLEAN, context \in {"test", "error"},
     cluster \in {"up", "down", "unconfigured"}}

(* Combinations of flags, on one document.                                 *)
OddFlags ==
  {Flags(ps, name, chosen, format, "", FALSE, files, "test", "up") :
     ps \in {<<"gce">>, <<"nginx">>, <<"openapi3", "nginx">>, <<"nginx", "unknown">>},
     name \in {"standard", "gce", "unknown"}, chosen \in BOOLEAN,
     format \in {"", "xml"}, files \in {"read", "missing"}}

(* The cluster holds one object of a kind, namespace and name.             *)
InCluster ==
  {<<o, u>> : o, u \in Objects} \ {<<o, u>> \in Objects \X Objects :
                                     o.kind = u.kind /\ o.ns = u.ns /\ o.name = u.name}

MCInputs ==
  {[cmd |-> c, docs |-> d] : c \in FileFlags, d \in [1 .. 2 -> InFiles]}
    \cup {[cmd |-> c, docs |-> <<Web("nginx"), d, Service("prod", "svc")>>] :
            c \in FileFlags, d \in InFiles}
    \cup {[cmd |-> c, docs |-> d] :
            c \in {c \in ClusterFlags : ~(c.all /\ c.namespace # "")}, d \in InCluster}
    \cup {[cmd |-> c, docs |-> <<Web("traefik")>>] :
            c \in {c \in OddFlags : c.chosen \/ c.emitter = "standard"}}
=============================================================================
