------------------------------ MODULE Pipeline ------------------------------
(***************************************************************************)
(* One call of "ingress2gateway print": the command (cmd/print.go), the    *)
(* conversion it runs (pkg/i2gw/ingress2gateway.go) and the readers of     *)
(* Ingresses and Services (pkg/i2gw/providers/common/resource_reader.go    *)
(* and the readers of the providers that use it).                          *)
(*                                                                         *)
(* The providers of a call live in a Go map: each of the two loops over it *)
(* takes them in any order, which todo models.  What a provider makes of   *)
(* an Ingress is the subject of the other modules; here an Ingress gives a *)
(* route, its class a Gateway, and a policy an extension of an emitter     *)
(* that knows the policies of the provider.                                *)
(* Names of kinds, classes and namespaces are strings, as in the source;   *)
(* the empty string stands for "all namespaces" and "no class".            *)
(***************************************************************************)
EXTENDS Naturals, Sequences

CONSTANTS
  Providers,   \* names of the registered providers that read Ingresses
  Emitters,    \* names of the registered emitters
  ClassesOf,   \* the Ingress classes each provider claims
  Buffered,    \* providers whose file reader sees the objects twice
  Extended,    \* pairs of an emitter and a provider whose policies it extends
  Keeping,     \* emitters that keep what they built from provider to provider
  Inputs       \* the calls: the flags (cmd) and the objects (docs)

ASSUME PipelineAssumption ==
  /\ Buffered \subseteq Providers
  /\ "openapi3" \notin Providers
  /\ Extended \subseteq Emitters \X Providers
  /\ Keeping \subseteq Emitters
  /\ \A in \in Inputs :
       /\ in.cmd.providers \in Seq(STRING)
       /\ in.cmd.providers # <<>>
       /\ in.cmd.all => in.cmd.namespace = ""
       /\ in.cmd.context # ""
       /\ DOMAIN in.docs \subseteq Nat
       /\ \A i \in DOMAIN in.docs :
            in.docs[i].kind = "List" => /\ in.docs[i].ns = ""
                                        /\ DOMAIN in.docs[i].items \subseteq Nat \ {0}

VARIABLES
  input,      \* the call: its flags and the objects in the files or cluster
  stage,      \* where the call is
  emitter,    \* PrintRunner.emitter
  filter,     \* PrintRunner.namespaceFilter
  todo,       \* the providers the current loop has not reached
  stores,     \* the storage of each provider
  errs,       \* errors of the conversion, one per Ingress
  resources,  \* gatewayResources, one set per provider converted
  printed,    \* what was printed, one set per kind and provider
  row         \* the kind outputResult prints next

vars == <<input, stage, emitter, filter, todo, stores, errs, resources, printed, row>>

cmd == input.cmd
docs == input.docs

Requested == {cmd.providers[i] : i \in DOMAIN cmd.providers}

FromFiles == cmd.files # "none"

Formats == {"", "yaml", "kyaml", "json"}

(* Mutant: the loop over GRPCRoutes is a copy of the one over HTTPRoutes.  *)
KindsCopied == <<"GatewayClass", "Gateway", "HTTPRoute", "HTTPRoute", "TLSRoute", "TCPRoute",
                 "UDPRoute", "BackendTLSPolicy", "ReferenceGrant", "GatewayExtension">>

(* The order in which outputResult prints; extensions come last.           *)
Kinds == <<"GatewayClass", "Gateway", "HTTPRoute", "GRPCRoute", "TLSRoute", "TCPRoute",
           "UDPRoute", "BackendTLSPolicy", "ReferenceGrant", "GatewayExtension">>

-----------------------------------------------------------------------------
(* The flags.                                                              *)
BadCombination ==
  \/ "openapi3" \in Requested /\ Len(cmd.providers) # 1
  \/ "gce" \in Requested /\ cmd.chosen /\ cmd.emitter # "gce"

EmitterUsed == IF "gce" \in Requested THEN "gce" ELSE cmd.emitter

ContextNeeded == ~cmd.all /\ ~FromFiles /\ cmd.namespace = ""

NamespaceFilter ==
  IF cmd.all \/ (FromFiles /\ cmd.namespace = "") THEN ""
  ELSE IF ContextNeeded THEN cmd.context
  ELSE cmd.namespace

Unprepared ==
  \/ cmd.format \notin Formats
  \/ ContextNeeded /\ cmd.context = "error"
  \/ cmd.files = "missing"

Unconstructed ==
  \/ ~FromFiles /\ cmd.cluster = "unconfigured"
  \/ ~(Requested \subseteq Providers)

-----------------------------------------------------------------------------
(* Reading.  A place is a document, or an item of a document that is a     *)
(* List; the cluster holds plain objects only.                             *)
Places ==
  {<<i, 0>> : i \in {i \in DOMAIN docs : docs[i].kind # "List"}}
    \cup UNION {{<<i, j>> : j \in DOMAIN docs[i].items} :
                i \in {i \in DOMAIN docs : docs[i].kind = "List"}}

At(a) == IF a[2] = 0 THEN docs[a[1]] ELSE docs[a[1]].items[a[2]]

Later(a, b) == a[1] > b[1] \/ (a[1] = b[1] /\ a[2] > b[2])

(* The filter looks at the namespace of the document: an item of a List    *)
(* goes with its List, which has no namespace.                             *)
Extracted(ns) == {a \in Places : ns = "" \/ docs[a[1]].ns = ns}

Claims(p, o) == o.kind = "Ingress" /\ o.class \in ClassesOf[p]

SameKey(o, u) == o.ns = u.ns /\ o.name = u.name

(* Mutant: the class is looked at after the map has been filled.           *)
ReadIngressesOfAnyClass(p, ns) ==
  {At(a) : a \in {a \in Extracted(ns) :
     /\ Claims(p, At(a))
     /\ ~\E b \in Extracted(ns) : /\ Later(b, a)
                                  /\ At(b).kind = "Ingress"
                                  /\ SameKey(At(b), At(a))}}

(* The map keeps the last Ingress of a name, among those of the classes.   *)
ReadIngresses(p, ns) ==
  {At(a) : a \in {a \in Extracted(ns) :
     /\ Claims(p, At(a))
     /\ ~\E b \in Extracted(ns) : Later(b, a) /\ Claims(p, At(b)) /\ SameKey(At(b), At(a))}}

(* The readers that are not buffered used up the file for the Ingresses.   *)
ReadServices(p, ns) ==
  IF FromFiles /\ p \notin Buffered THEN {}
  ELSE {<<At(a).ns, At(a).name>> : a \in {a \in Extracted(ns) : At(a).kind = "Service"}}

Storage(p, ns) == [ingresses |-> ReadIngresses(p, ns), services |-> ReadServices(p, ns)]

Unreadable(ns) ==
  IF FromFiles
  THEN \/ \E i \in DOMAIN docs : docs[i].kind = "garbage"
       \/ \E a \in Extracted(ns) : At(a).kind = "Ingress" /\ At(a).fault = "shape"
  ELSE cmd.cluster = "down"

-----------------------------------------------------------------------------
(* Converting.  An Ingress fails for a fault of its own or for a named     *)
(* port of a Service that was not read; one that fails empties the IR.     *)
Broken(s) ==
  {o \in s.ingresses : o.fault = "value" \/ (o.port # "" /\ <<o.ns, o.port>> \notin s.services)}

GatewayOf(class) == IF class = "" THEN "gce" ELSE class

Made(p, s, e) ==
  IF Broken(s) # {} THEN {}
  ELSE {[kind |-> "Gateway", ns |-> o.ns, name |-> GatewayOf(o.class)] : o \in s.ingresses}
         \cup {[kind |-> "HTTPRoute", ns |-> o.ns, name |-> o.name] : o \in s.ingresses}
         \cup {[kind |-> "GatewayExtension", ns |-> o.ns, name |-> o.name] :
               o \in {o \in s.ingresses : o.policy /\ <<e, p>> \in Extended}}

(* The builder map of the one emitter of a call: what it has built for the *)
(* providers before comes again with every provider.                       *)
Kept ==
  {r \in UNION {resources[i] : i \in DOMAIN resources} :
     r.kind = "GatewayExtension" /\ emitter \in Keeping}

-----------------------------------------------------------------------------
Init ==
  /\ input \in Inputs
  /\ stage = "start"
  /\ emitter = input.cmd.emitter
  /\ filter = ""
  /\ todo = {}
  /\ stores = <<>>
  /\ errs = {}
  /\ resources = <<>>
  /\ printed = <<>>
  /\ row = 1

Fail ==
  /\ stage' = "failed"
  /\ UNCHANGED <<input, emitter, filter, todo, stores, errs, resources, printed, row>>

(* PreRunE of the print command.                                           *)
PreRun ==
  /\ stage = "start"
  /\ IF BadCombination THEN Fail
     ELSE /\ stage' = "prepare"
          /\ emitter' = EmitterUsed
          /\ UNCHANGED <<input, filter, todo, stores, errs, resources, printed, row>>

(* PrintGatewayAPIObjects up to the conversion: printer, filter, files.    *)
Prepare ==
  /\ stage = "prepare"
  /\ IF Unprepared THEN Fail
     ELSE /\ stage' = "construct"
          /\ filter' = NamespaceFilter
          /\ UNCHANGED <<input, emitter, todo, stores, errs, resources, printed, row>>

(* The client and the map of providers, each once however often requested. *)
Construct ==
  /\ stage = "construct"
  /\ IF Unconstructed THEN Fail
     ELSE /\ stage' = "read"
          /\ todo' = Requested
          /\ stores' = [p \in Requested |-> [ingresses |-> {}, services |-> {}]]
          /\ UNCHANGED <<input, emitter, filter, errs, resources, printed, row>>

(* One provider reads the files, from a reader of its own, or the cluster. *)
Read(p) ==
  /\ stage = "read"
  /\ p \in todo
  /\ IF Unreadable(filter) THEN Fail
     ELSE /\ stores' = [stores EXCEPT ![p] = Storage(p, filter)]
          /\ todo' = todo \ {p}
          /\ UNCHANGED <<input, stage, emitter, filter, errs, resources, printed, row>>

(* The emitter's name is looked up after everything has been read.         *)
ChooseEmitter ==
  /\ stage = "read"
  /\ todo = {}
  /\ IF emitter \notin Emitters THEN Fail
     ELSE /\ stage' = "convert"
          /\ todo' = Requested
          /\ UNCHANGED <<input, emitter, filter, stores, errs, resources, printed, row>>

(* Mutant: the errors of the provider before are overwritten.              *)
ConvertForgetting(p) ==
  /\ stage = "convert"
  /\ p \in todo
  /\ todo' = todo \ {p}
  /\ errs' = {<<p, o>> : o \in Broken(stores[p])}
  /\ resources' = Append(resources, Made(p, stores[p], emitter) \cup Kept)
  /\ UNCHANGED <<input, stage, emitter, filter, stores, printed, row>>

(* ToIR and both emitters for one provider; errors do not stop the loop.   *)
Convert(p) ==
  /\ stage = "convert"
  /\ p \in todo
  /\ todo' = todo \ {p}
  /\ errs' = errs \cup {<<p, o>> : o \in Broken(stores[p])}
  /\ resources' = Append(resources, Made(p, stores[p], emitter) \cup Kept)
  /\ UNCHANGED <<input, stage, emitter, filter, stores, printed, row>>

Conclude ==
  /\ stage = "convert"
  /\ todo = {}
  /\ IF errs # {} THEN Fail
     ELSE /\ stage' = "print"
          /\ UNCHANGED <<input, emitter, filter, todo, stores, errs, resources, printed, row>>

(* One loop of outputResult: a kind, provider by provider.                 *)
PrintKind ==
  /\ stage = "print"
  /\ row <= Len(Kinds)
  /\ printed' = printed \o [i \in 1 .. Len(resources) |->
                             {r \in resources[i] : r.kind = Kinds[row]}]
  /\ row' = row + 1
  /\ UNCHANGED <<input, stage, emitter, filter, todo, stores, errs, resources>>

Finish ==
  /\ stage = "print"
  /\ row > Len(Kinds)
  /\ stage' = "done"
  /\ UNCHANGED <<input, emitter, filter, todo, stores, errs, resources, printed, row>>

Next ==
  \/ PreRun \/ Prepare \/ Construct \/ ChooseEmitter \/ Conclude \/ PrintKind \/ Finish
  \/ \E p \in todo : Read(p) \/ Convert(p)

Spec == Init /\ [][Next]_vars

-----------------------------------------------------------------------------
(* The state of a call: which variables hold what at each stage.           *)
TypeOK ==
  /\ input \in Inputs
  /\ stage \in {"start", "prepare", "construct", "read", "convert", "print", "done", "failed"}
  /\ stage \in {"read", "convert", "print", "done"} =>
       DOMAIN stores = Requested /\ Requested \subseteq Providers /\ todo \subseteq Requested
  /\ stage \in {"convert", "print", "done"} => emitter \in Emitters
  /\ stage \in {"print", "done"} => todo = {} /\ errs = {}
  /\ stage \notin {"print", "done"} => printed = <<>>
  /\ row \in 1 .. Len(Kinds) + 1

(* What the call asks for, whatever the order of the loops.                *)
Sound ==
  /\ ~BadCombination
  /\ ~Unprepared
  /\ ~Unconstructed
  /\ ~Unreadable(NamespaceFilter)
  /\ EmitterUsed \in Emitters
  /\ \A p \in Requested : Broken(Storage(p, NamespaceFilter)) = {}

Wanted == UNION {Made(p, Storage(p, NamespaceFilter), EmitterUsed) : p \in Requested \cap Providers}

Output == UNION {printed[i] : i \in DOMAIN printed}

Outcome ==
  CASE stage = "print" -> "printing"
    [] stage \in {"done", "failed"} -> stage
    [] OTHER -> "open"

(* A sound request is answered by every resource it asks for and by        *)
(* nothing else, an unsound one fails with an empty output.  So neither    *)
(* the order of the two maps of providers nor an early provider's success  *)
(* or error shows: one provider's error withholds the output of all, and   *)
(* a provider that is read second sees what the first one saw.             *)
Promise == INSTANCE Conversion WITH
  sound <- Sound, wanted <- Wanted, outcome <- Outcome, printed <- Output

ImplementsConversion == Promise!Spec

(* What the flags ask for, as print.go:346 to 350 lists it.                *)
AllAsked == cmd.all \/ (FromFiles /\ cmd.namespace = "")

Asked(ns) == AllAsked \/ ns = (IF cmd.namespace = "" THEN cmd.context ELSE cmd.namespace)

(* An object of the files or the cluster the call gets to see: one of the  *)
(* namespace asked for, and in a List only when all namespaces are.        *)
Reached(a) == IF a[2] = 0 THEN Asked(At(a).ns) ELSE AllAsked

(* When all providers have been read, each holds of every name it claims   *)
(* one Ingress, the last the call gets to see, and nothing else: an        *)
(* Ingress of another class, another namespace or an earlier place never   *)
(* stands in for it, whichever provider was read first.                    *)
ObjectsSelected ==
  stage \in {"convert", "print", "done"} =>
    \A p \in Requested :
      LET seen == {a \in Places : Reached(a) /\ Claims(p, At(a))}
          held == stores[p].ingresses
          Last(a) == \A b \in seen : SameKey(At(a), At(b)) => ~Later(b, a)
      IN /\ held \subseteq {At(a) : a \in seen}
         /\ \A a \in seen : Last(a) => At(a) \in held
         /\ \A o, u \in held : SameKey(o, u) => o = u

(* What an Ingress gives: its route, its extension, the Gateway of its class. *)
Gives(o, r) == r.ns = o.ns /\ r.name = (IF r.kind = "Gateway" THEN GatewayOf(o.class) ELSE o.name)

(* A resource is printed once, even when a provider was requested twice:   *)
(* it comes twice only from two providers, each of which claims an Ingress *)
(* that gives it, because both claim a class, as nginx and ingress-nginx   *)
(* do, or the files hold two Ingresses of one name and different classes,  *)
(* which a cluster cannot; and an extension, when the emitter keeps it for *)
(* the provider after.                                                     *)
EachOnce ==
  \A i, j \in DOMAIN printed : i # j =>
    \A r \in printed[i] \cap printed[j] :
      \/ r.kind = "GatewayExtension" /\ emitter \in Keeping
      \/ \E p, q \in Requested :
           /\ p # q
           /\ \E a, b \in Places : /\ Claims(p, At(a)) /\ Gives(At(a), r)
                                   /\ Claims(q, At(b)) /\ Gives(At(b), r)
=============================================================================
