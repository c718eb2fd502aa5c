------------------------------ MODULE Ontology ------------------------------
(***************************************************************************)
(* The graph a snapshot stands for: internal/graph/builder.go and the      *)
(* resolvers it calls (internal/resolve).                                  *)
(*                                                                         *)
(* A snapshot is a set of objects.  Every object is a record with          *)
(*   kind   the node kind ("ReplicaSet" objects have no node);             *)
(*   src    the Kubernetes kind: ControllerKind for a workload;            *)
(*   ns, name, uid   its metadata ("" is no namespace, uids are numbers);  *)
(* and, by kind, the fields the builder reads:                             *)
(*   Pod             node, sa, configMaps, secrets, pvcs, images, labels,  *)
(*                   owners                                                *)
(*   Workload, ReplicaSet   owners, a set of [kind, name, uid, controller] *)
(*   Service         selector                                              *)
(*   RoleBinding, ClusterRoleBinding   subjects, a set of [kind, ns, name] *)
(*   PVC             volume, sc                                            *)
(*   PV              sc, driver, affinity                                  *)
(*   StorageClass    provisioner                                           *)
(*   Event           involved, a [kind, name, uid], and failed (Reason is  *)
(*                   FailedCreate or FailedAdmission)                      *)
(* "" is an absent name; no object is called "".  Within one kind a        *)
(* namespace and a name have one object.  labels and selector are sets of  *)
(* key-value pairs.                                                        *)
(*                                                                         *)
(* A node is its canonical id, an edge its key.  Node attributes, edge     *)
(* provenance, the evidence texts and the Helm inference are left out.     *)
(***************************************************************************)
EXTENDS Naturals, Sequences, FiniteSets

CONSTANTS
    Slashed,         \* image names with a "/" |-> the same name with "_"
    LooksLikeCSI,    \* provisioners looksLikeCSIProvisioner accepts
    CSIRules,        \* sequence of [driver, ns, controllers, agents]
    ControllerRules  \* set of [kind, ns, controllers, daemons]

(* In both kinds of rules ns and kind may be "*"; the pod name prefixes are  *)
(* given by the set of pod names that have one.                              *)
Pattern(pattern, value) == pattern \in {"*", value}

(* NewCanonicalID replaces "/" inside a part, so two images may share an id. *)
normalize(v) == IF v \in DOMAIN Slashed THEN Slashed[v] ELSE v

CanonicalID(kind, src, ns, name, uid) ==
    [kind |-> kind, src |-> src, ns |-> ns, name |-> name, uid |-> uid]
ID(o) == CanonicalID(o.kind, o.src, o.ns, o.name, o.uid)
IDs(S) == {ID(o) : o \in S}

NoUid == 0
Graph(N, E) == [nodes |-> N, edges |-> E]
EdgesTo(from, kind, T) == {[from |-> from, kind |-> kind, to |-> t] : t \in T}

OfKind(s, kind) == {o \in s : o.kind = kind}
Named(s, kind, ns, names) == {o \in OfKind(s, kind) : o.ns = ns /\ o.name \in names}

-----------------------------------------------------------------------------
(* internal/resolve/owner/chain.go *)

controllingReferences(refs) ==
    LET controllers == {r \in refs : r.controller}
    IN  IF controllers # {} THEN controllers ELSE refs

(* What NewChainResolver indexes. *)
Owners(s) == OfKind(s, "Workload") \cup OfKind(s, "ReplicaSet")

lookup(W, ns, ref) ==
    LET owners == {o \in W : o.ns = ns /\ o.src = ref.kind}
        byUID  == {o \in owners : o.uid = ref.uid}
    IN  IF byUID # {} THEN byUID ELSE {o \in owners : o.name = ref.name}

resolveReferences(W, o) ==
    UNION {lookup(W, o.ns, r) : r \in controllingReferences(o.owners)}

(* The depth-first search with its seen-set visits what is reachable. *)
Reachable(W, o) ==
    LET reached[n \in 0..Cardinality(W)] ==
          IF n = 0 THEN resolveReferences(W, o)
          ELSE reached[n-1] \cup UNION {resolveReferences(W, x) : x \in reached[n-1]}
    IN  reached[Cardinality(W)]

ResolveOwners(s, o) == IDs({w \in OfKind(s, "Workload") : w \in Reachable(Owners(s), o)})

-----------------------------------------------------------------------------
(* Edges out of and into one pod. *)

ImageIDs(p) == {CanonicalID("Image", "Image", "", normalize(i), NoUid) : i \in p.images}

PodReferenceEdges(s, p) ==
    EdgesTo(ID(p), "scheduled_on", IDs(Named(s, "Node", "", {p.node})))
      \cup EdgesTo(ID(p), "uses_image", ImageIDs(p))
      \cup EdgesTo(ID(p), "uses_config_map", IDs(Named(s, "ConfigMap", p.ns, p.configMaps)))
      \cup EdgesTo(ID(p), "uses_secret", IDs(Named(s, "Secret", p.ns, p.secrets)))

MountEdges(s, p) == EdgesTo(ID(p), "mounts_pvc", IDs(Named(s, "PVC", p.ns, p.pvcs)))

AccountEdges(s, p) ==
    EdgesTo(ID(p), "uses_service_account", IDs(Named(s, "ServiceAccount", p.ns, {p.sa})))

OwnerEdges(s, p) ==
    UNION {{[from |-> ID(p), kind |-> "managed_by", to |-> w],
            [from |-> w, kind |-> "owns_pod", to |-> ID(p)]} : w \in ResolveOwners(s, p)}

(* A map lookup of a missing label yields "". *)
LabelsMatch(selector, labels) ==
    /\ selector # {}
    /\ \A kv \in selector : kv \in labels \/ (kv[2] = "" /\ \A l \in labels : l[1] # kv[1])

Selects(v, p) == v.ns = p.ns /\ LabelsMatch(v.selector, p.labels)
SelectedPods(s, v) == {p \in OfKind(s, "Pod") : Selects(v, p)}
SelectingServices(s, p) == {v \in OfKind(s, "Service") : Selects(v, p)}

-----------------------------------------------------------------------------
(* Workloads, events, webhooks *)

ControlledByEdges(s, w) == EdgesTo(ID(w), "controlled_by", ResolveOwners(s, w) \ {ID(w)})

(* collectNamespaced lists the workloads of a namespace in this order; a map *)
(* keyed by namespace/name keeps the last.                                   *)
WorkloadOrder == <<"Deployment", "StatefulSet", "DaemonSet", "Job">>
Rank(w) == IF \E i \in DOMAIN WorkloadOrder : WorkloadOrder[i] = w.src
           THEN CHOOSE i \in DOMAIN WorkloadOrder : WorkloadOrder[i] = w.src
           ELSE Len(WorkloadOrder) + 1
LastNamed(s, ns, name) ==
    {w \in Named(s, "Workload", ns, {name}) :
        \A x \in Named(s, "Workload", ns, {name}) : Rank(x) <= Rank(w)}

EventTargetKinds ==
    {"Workload", "Pod", "Node", "Service", "ServiceAccount", "PVC", "PV"}
EventTargets(s, ev) ==
    {o \in s : /\ o.kind \in EventTargetKinds
               /\ o.src = ev.involved.kind /\ o.uid = ev.involved.uid}

FailedEvents(s) == {ev \in OfKind(s, "Event") : ev.failed}
Webhooks(s) == OfKind(s, "WebhookConfig")

(* Which webhook a failed event is blamed on is the first of a map           *)
(* iteration: a choice for each event and workload, among the webhooks W.    *)
WebhookPicks(s, W) ==
    IF W = {} THEN {<<>>}
    ELSE [FailedEvents(s) \X OfKind(s, "Workload") -> W]

WebhookEdge(pick, ev, w) ==
    IF <<ev, w>> \in DOMAIN pick
    THEN {[from |-> ID(w), kind |-> "affected_by_webhook", to |-> ID(pick[<<ev, w>>])]}
    ELSE {}

WebhookEvidenceEdges(s, pick) ==
    UNION {UNION {WebhookEdge(pick, ev, w) : w \in LastNamed(s, ev.ns, ev.involved.name)} :
           ev \in FailedEvents(s)}

(* internal/resolve/infer/workload_controller.go *)
InferWorkloadControllerEdges(s) ==
    LET Pods == OfKind(s, "Pod")
        Matched(w) == {rule \in ControllerRules : Pattern(rule.kind, w.src)}
        Controllers(w) == {p \in Pods : \E rule \in Matched(w) :
                              Pattern(rule.ns, p.ns) /\ p.name \in rule.controllers}
        OwnedNodes(w) == {p.node : p \in {q \in Pods : ID(w) \in ResolveOwners(s, q)}} \ {""}
        Daemons(w) == {p \in Pods : p.node \in OwnedNodes(w) /\ \E rule \in Matched(w) :
                              Pattern(rule.ns, p.ns) /\ p.name \in rule.daemons}
    IN  UNION {EdgesTo(ID(w), "managed_by_controller", IDs(Controllers(w)))
                 \cup EdgesTo(ID(w), "served_by_node_daemon", IDs(Daemons(w))) :
               w \in OfKind(s, "Workload")}

-----------------------------------------------------------------------------
(* Role bindings: a subject without a namespace is in the binding's. *)

BoundAccounts(s, b) ==
    {a \in OfKind(s, "ServiceAccount") : \E sub \in b.subjects :
        /\ sub.kind = "ServiceAccount"
        /\ a.name = sub.name
        /\ a.ns = IF sub.ns = "" THEN b.ns ELSE sub.ns
        /\ a.ns # ""}
BindingEdges(s) ==
    UNION {{[from |-> ID(a), kind |-> "bound_by_role_binding", to |-> ID(b)] :
               a \in BoundAccounts(s, b)} :
           b \in OfKind(s, "RoleBinding") \cup OfKind(s, "ClusterRoleBinding")}

-----------------------------------------------------------------------------
(* Storage, and internal/resolve/infer/csi.go *)

storageClassNameForPVC(s, c) ==
    IF c.sc # "" THEN {c.sc} ELSE {v.sc : v \in Named(s, "PV", "", {c.volume})}

ClaimEdges(s, c) ==
    EdgesTo(ID(c), "bound_to_pv", IDs(Named(s, "PV", "", {c.volume})))
      \cup EdgesTo(ID(c), "uses_storage_class",
                   IDs(Named(s, "StorageClass", "", storageClassNameForPVC(s, c))))

VolumeEdges(s, v) ==
    EdgesTo(ID(v), "uses_storage_class", IDs(Named(s, "StorageClass", "", {v.sc})))

(* componentRuleForDriver takes the first rule of a driver, the correlator   *)
(* registry the last.                                                        *)
RuleIndexes(driver) == {i \in DOMAIN CSIRules : CSIRules[i].driver = driver}
componentRuleForDriver(driver) ==
    {CSIRules[i] : i \in {j \in RuleIndexes(driver) : \A k \in RuleIndexes(driver) : j <= k}}
Correlator(driver) ==
    {CSIRules[i] : i \in {j \in RuleIndexes(driver) : \A k \in RuleIndexes(driver) : j >= k}}

IsCSIProvisioner(p) == p # "" /\ (componentRuleForDriver(p) # {} \/ p \in LooksLikeCSI)

csiDriverID(name, uid) == CanonicalID("CSIDriver", "CSIDriver", "", name, uid)
SyntheticDrivers(s) ==
    {csiDriverID(c.provisioner, NoUid) : c \in
        {x \in OfKind(s, "StorageClass") : /\ IsCSIProvisioner(x.provisioner)
                                           /\ Named(s, "CSIDriver", "", {x.provisioner}) = {}}}
csiDriverIDs(s) == IDs(OfKind(s, "CSIDriver")) \cup SyntheticDrivers(s)

ProvisionerEdges(s, c) ==
    EdgesTo(ID(c), "provisioned_by_csi_driver", {d \in csiDriverIDs(s) : d.name = c.provisioner})

ControllerPods(s, rule) ==
    {p \in OfKind(s, "Pod") : Pattern(rule.ns, p.ns) /\ p.name \in rule.controllers}
AgentPods(s, rule) ==
    {p \in OfKind(s, "Pod") : /\ Pattern(rule.ns, p.ns)
                              /\ p.name \in rule.agents \ rule.controllers}

csiAgentNodeNamesForPV(s, v) ==
    ({v.affinity} \cup
       {p.node : p \in {q \in OfKind(s, "Pod") : \E c \in OfKind(s, "PVC") :
                          c.volume = v.name /\ q.ns = c.ns /\ c.name \in q.pvcs}}) \ {""}

CorrelatePVToCSIComponents(s, v) ==
    UNION {EdgesTo(ID(v), "managed_by_csi_controller", IDs(ControllerPods(s, rule)))
             \cup EdgesTo(ID(v), "served_by_csi_node_agent",
                          IDs({p \in AgentPods(s, rule) : p.node \in csiAgentNodeNamesForPV(s, v)})) :
           rule \in Correlator(v.driver)}

InferCSIComponentEdges(s, d) ==
    UNION {EdgesTo(d, "implemented_by_csi_controller", IDs(ControllerPods(s, rule)))
             \cup EdgesTo(d, "implemented_by_csi_node_agent", IDs(AgentPods(s, rule))) :
           rule \in componentRuleForDriver(d.name)}

StorageEdges(s) ==
    (UNION {MountEdges(s, p) : p \in OfKind(s, "Pod")})
      \cup (UNION {ClaimEdges(s, c) : c \in OfKind(s, "PVC")})
      \cup (UNION {VolumeEdges(s, v) \cup CorrelatePVToCSIComponents(s, v) : v \in OfKind(s, "PV")})
      \cup (UNION {ProvisionerEdges(s, c) : c \in OfKind(s, "StorageClass")})
      \cup (UNION {InferCSIComponentEdges(s, d) : d \in csiDriverIDs(s)})

-----------------------------------------------------------------------------
(* Builder.Build *)

BuildNodes(s) ==
    IDs({o \in s : o.kind # "ReplicaSet"})
      \cup (UNION {ImageIDs(p) : p \in OfKind(s, "Pod")})
      \cup SyntheticDrivers(s)

IdentityEdges(s) == (UNION {AccountEdges(s, p) : p \in OfKind(s, "Pod")}) \cup BindingEdges(s)

(* All edges but those to webhooks, which are a matter of choice. *)
PlainEdges(s) ==
    (UNION {PodReferenceEdges(s, p) \cup OwnerEdges(s, p) : p \in OfKind(s, "Pod")})
      \cup (UNION {EdgesTo(ID(v), "selects_pod", IDs(SelectedPods(s, v))) : v \in OfKind(s, "Service")})
      \cup (UNION {EdgesTo(ID(ev), "reported_by_event", IDs(EventTargets(s, ev))) :
                  ev \in OfKind(s, "Event")})
      \cup (UNION {ControlledByEdges(s, w) : w \in OfKind(s, "Workload")})
      \cup InferWorkloadControllerEdges(s)
      \cup IdentityEdges(s)
      \cup StorageEdges(s)

BuildEdges(s, pick) == PlainEdges(s) \cup WebhookEvidenceEdges(s, pick)

Build(s, pick) == Graph(BuildNodes(s), BuildEdges(s, pick))

=============================================================================
