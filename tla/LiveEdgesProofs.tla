--------------------------- MODULE LiveEdgesProofs ---------------------------
(***************************************************************************)
(* The edges of a live graph come out as those of a rebuild.  The argument *)
(* goes edge by edge: what the builder decides on an edge depends on few   *)
(* objects (Decided), and a scoped update decides anew on the edges that   *)
(* its event affects and leaves the others alone (NarrowEdges).            *)
(***************************************************************************)
EXTENDS LiveGraphProofs

-----------------------------------------------------------------------------
(* The edges of a rebuild, part by part *)

PlainParts(s, e) ==
    \/ \E p \in OfKind(s, "Pod") : e \in PodReferenceEdges(s, p)
    \/ \E p \in OfKind(s, "Pod") : e \in OwnerEdges(s, p)
    \/ \E p \in OfKind(s, "Pod") : e \in AccountEdges(s, p)
    \/ \E p \in OfKind(s, "Pod") : e \in MountEdges(s, p)
    \/ \E v \in OfKind(s, "Service") : e \in EdgesTo(ID(v), "selects_pod", IDs(SelectedPods(s, v)))
    \/ \E ev \in OfKind(s, "Event") : e \in EdgesTo(ID(ev), "reported_by_event", IDs(EventTargets(s, ev)))
    \/ \E w \in OfKind(s, "Workload") : e \in ControlledByEdges(s, w)
    \/ e \in InferWorkloadControllerEdges(s)
    \/ e \in BindingEdges(s)
    \/ \E c \in OfKind(s, "PVC") : e \in ClaimEdges(s, c)
    \/ \E v \in OfKind(s, "PV") : e \in VolumeEdges(s, v)
    \/ \E v \in OfKind(s, "PV") : e \in CorrelatePVToCSIComponents(s, v)
    \/ \E c \in OfKind(s, "StorageClass") : e \in ProvisionerEdges(s, c)
    \/ \E d \in csiDriverIDs(s) : e \in InferCSIComponentEdges(s, d)

\* An edge of a rebuild is one of these.
LEMMA PlainIsParts ==
    ASSUME NEW s, NEW e
    PROVE  e \in PlainEdges(s) <=> PlainParts(s, e)
<1>1. e \in StorageEdges(s) <=>
        \/ \E p \in OfKind(s, "Pod") : e \in MountEdges(s, p)
        \/ \E c \in OfKind(s, "PVC") : e \in ClaimEdges(s, c)
        \/ \E v \in OfKind(s, "PV") : e \in VolumeEdges(s, v)
        \/ \E v \in OfKind(s, "PV") : e \in CorrelatePVToCSIComponents(s, v)
        \/ \E c \in OfKind(s, "StorageClass") : e \in ProvisionerEdges(s, c)
        \/ \E d \in csiDriverIDs(s) : e \in InferCSIComponentEdges(s, d)
  BY DEF StorageEdges
<1>2. e \in IdentityEdges(s) <=>
        \/ \E p \in OfKind(s, "Pod") : e \in AccountEdges(s, p)
        \/ e \in BindingEdges(s)
  BY DEF IdentityEdges
<1>3. e \in PlainEdges(s) <=>
        \/ \E p \in OfKind(s, "Pod") : e \in PodReferenceEdges(s, p)
        \/ \E p \in OfKind(s, "Pod") : e \in OwnerEdges(s, p)
        \/ \E v \in OfKind(s, "Service") : e \in EdgesTo(ID(v), "selects_pod", IDs(SelectedPods(s, v)))
        \/ \E ev \in OfKind(s, "Event") : e \in EdgesTo(ID(ev), "reported_by_event", IDs(EventTargets(s, ev)))
        \/ \E w \in OfKind(s, "Workload") : e \in ControlledByEdges(s, w)
        \/ e \in InferWorkloadControllerEdges(s)
        \/ e \in IdentityEdges(s)
        \/ e \in StorageEdges(s)
  BY DEF PlainEdges
<1> QED BY <1>1, <1>2, <1>3 DEF PlainParts

\* An edge to one of the objects S.
LEMMA EdgeToObject ==
    ASSUME NEW from, NEW kind, NEW S, NEW e \in EdgesTo(from, kind, IDs(S))
    PROVE  \E o \in S : e = [from |-> from, kind |-> kind, to |-> ID(o)]
BY DEF EdgesTo, IDs

\* And what it joins.
LEMMA EdgeToJoins ==
    ASSUME NEW from, NEW kind, NEW S, NEW e \in EdgesTo(from, kind, IDs(S))
    PROVE  /\ e.from = from /\ e.kind = kind
           /\ \E o \in S : e.to = ID(o) /\ e.to.kind = o.kind
BY EdgeToObject, ObjectID

\* The owners of a pod or workload are workloads.
LEMMA OwnersAreWorkloads ==
    ASSUME NEW s, NEW o, NEW w \in ResolveOwners(s, o)
    PROVE  w.kind = "Workload"
BY ObjectID DEF ResolveOwners, IDs, OfKind

\* The drivers of a snapshot are CSIDriver nodes.
LEMMA DriversAreDrivers ==
    ASSUME NEW s, NEW d \in csiDriverIDs(s)
    PROVE  d.kind = "CSIDriver"
BY ObjectID, DriverID DEF csiDriverIDs, IDs, OfKind

\* The edges out of and into a pod.
LEMMA PodPartsFit ==
    ASSUME NEW s, NEW p \in OfKind(s, "Pod"), NEW e
    PROVE  /\ e \in PodReferenceEdges(s, p) =>
                /\ Fits(e) /\ e.from = ID(p)
                /\ e.kind \in {"scheduled_on", "uses_image", "uses_config_map", "uses_secret"}
           /\ e \in AccountEdges(s, p) => Fits(e) /\ e.from = ID(p) /\ e.kind = "uses_service_account"
           /\ e \in MountEdges(s, p) => Fits(e) /\ e.from = ID(p) /\ e.kind = "mounts_pvc"
           /\ e \in OwnerEdges(s, p) =>
                /\ Fits(e)
                /\ \/ e.kind = "managed_by" /\ e.from = ID(p)
                   \/ e.kind = "owns_pod" /\ e.to = ID(p)
<1>0. ID(p).kind = "Pod"
  BY ObjectID DEF OfKind
<1>1. ASSUME NEW kind, NEW K, NEW ns, NEW names, e \in EdgesTo(ID(p), kind, IDs(Named(s, K, ns, names)))
      PROVE  e.from = ID(p) /\ e.from.kind = "Pod" /\ e.kind = kind /\ e.to.kind = K
  BY <1>0, <1>1, EdgeToJoins DEF Named, OfKind
<1>2. ASSUME e \in EdgesTo(ID(p), "uses_image", ImageIDs(p))
      PROVE  e.from = ID(p) /\ e.from.kind = "Pod" /\ e.kind = "uses_image" /\ e.to.kind = "Image"
  <2>1. PICK n \in ImageIDs(p) : e = [from |-> ID(p), kind |-> "uses_image", to |-> n]
    BY <1>2 DEF EdgesTo
  <2>2. n.kind = "Image"
    BY <2>1, PodImages
  <2> QED BY <1>0, <2>1, <2>2
<1>3. ASSUME e \in PodReferenceEdges(s, p)
      PROVE  /\ Fits(e) /\ e.from = ID(p)
             /\ e.kind \in {"scheduled_on", "uses_image", "uses_config_map", "uses_secret"}
  <2>1. CASE e \in EdgesTo(ID(p), "scheduled_on", IDs(Named(s, "Node", "", {p.node})))
    <3>1. e.from = ID(p) /\ e.from.kind = "Pod" /\ e.kind = "scheduled_on" /\ e.to.kind = "Node"
      BY <1>1, <2>1
    <3> QED BY <3>1 DEF Fits, Joined, ControllerRuleKinds
  <2>2. CASE e \in EdgesTo(ID(p), "uses_image", ImageIDs(p))
    BY <1>2, <2>2 DEF Fits, Joined, ControllerRuleKinds
  <2>3. CASE e \in EdgesTo(ID(p), "uses_config_map", IDs(Named(s, "ConfigMap", p.ns, p.configMaps)))
    <3>1. e.from = ID(p) /\ e.from.kind = "Pod" /\ e.kind = "uses_config_map" /\ e.to.kind = "ConfigMap"
      BY <1>1, <2>3
    <3> QED BY <3>1 DEF Fits, Joined, ControllerRuleKinds
  <2>4. CASE e \in EdgesTo(ID(p), "uses_secret", IDs(Named(s, "Secret", p.ns, p.secrets)))
    <3>1. e.from = ID(p) /\ e.from.kind = "Pod" /\ e.kind = "uses_secret" /\ e.to.kind = "Secret"
      BY <1>1, <2>4
    <3> QED BY <3>1 DEF Fits, Joined, ControllerRuleKinds
  <2> QED BY <1>3, <2>1, <2>2, <2>3, <2>4 DEF PodReferenceEdges
<1>4. e \in AccountEdges(s, p) => Fits(e) /\ e.from = ID(p) /\ e.kind = "uses_service_account"
  BY <1>1 DEF AccountEdges, Fits, Joined, ControllerRuleKinds
<1>5. e \in MountEdges(s, p) => Fits(e) /\ e.from = ID(p) /\ e.kind = "mounts_pvc"
  BY <1>1 DEF MountEdges, Fits, Joined, ControllerRuleKinds
<1>6. ASSUME e \in OwnerEdges(s, p)
      PROVE  /\ Fits(e)
             /\ \/ e.kind = "managed_by" /\ e.from = ID(p)
                \/ e.kind = "owns_pod" /\ e.to = ID(p)
  <2>1. PICK w \in ResolveOwners(s, p) :
            e \in {[from |-> ID(p), kind |-> "managed_by", to |-> w],
                   [from |-> w, kind |-> "owns_pod", to |-> ID(p)]}
    BY <1>6 DEF OwnerEdges
  <2>2. w.kind = "Workload"
    BY OwnersAreWorkloads
  <2> QED BY <1>0, <2>1, <2>2 DEF Fits, Joined, ControllerRuleKinds
<1> QED BY <1>3, <1>4, <1>5, <1>6

\* The edges of services, events, workloads, accounts and their bindings.
LEMMA ScopedPartsFit ==
    ASSUME NEW s, NEW e
    PROVE  /\ \A v \in OfKind(s, "Service") :
                e \in EdgesTo(ID(v), "selects_pod", IDs(SelectedPods(s, v))) =>
                    Fits(e) /\ e.kind = "selects_pod" /\ e.from = ID(v)
           /\ \A ev \in OfKind(s, "Event") : \A t :
                e \in EdgesTo(ID(ev), "reported_by_event", IDs(EventTargets(t, ev))) =>
                    Fits(e) /\ e.kind = "reported_by_event" /\ e.from = ID(ev)
           /\ \A w \in OfKind(s, "Workload") :
                e \in ControlledByEdges(s, w) => Fits(e) /\ e.kind = "controlled_by" /\ e.from = ID(w)
           /\ e \in BindingEdges(s) => Fits(e) /\ e.kind = "bound_by_role_binding"
<1>1. ASSUME NEW v \in OfKind(s, "Service"),
             e \in EdgesTo(ID(v), "selects_pod", IDs(SelectedPods(s, v)))
      PROVE  Fits(e) /\ e.kind = "selects_pod" /\ e.from = ID(v)
  <2>1. /\ e.from = ID(v) /\ e.kind = "selects_pod"
        /\ \E o \in SelectedPods(s, v) : e.to.kind = o.kind
    BY <1>1, EdgeToJoins
  <2>2. e.from.kind = "Service" /\ e.to.kind = "Pod"
    BY <2>1, ObjectID DEF SelectedPods, OfKind
  <2> QED BY <2>1, <2>2 DEF Fits, Joined, ControllerRuleKinds
<1>2. ASSUME NEW ev \in OfKind(s, "Event"), NEW t,
             e \in EdgesTo(ID(ev), "reported_by_event", IDs(EventTargets(t, ev)))
      PROVE  Fits(e) /\ e.kind = "reported_by_event" /\ e.from = ID(ev)
  <2>1. /\ e.from = ID(ev) /\ e.kind = "reported_by_event"
        /\ \E o \in EventTargets(t, ev) : e.to.kind = o.kind
    BY <1>2, EdgeToJoins
  <2>2. e.from.kind = "Event" /\ e.to.kind \in EventTargetKinds
    BY <2>1, ObjectID DEF EventTargets, OfKind
  <2> QED BY <2>1, <2>2 DEF Fits, Joined, ControllerRuleKinds
<1>3. ASSUME NEW w \in OfKind(s, "Workload"), e \in ControlledByEdges(s, w)
      PROVE  Fits(e) /\ e.kind = "controlled_by" /\ e.from = ID(w)
  <2>1. PICK x \in ResolveOwners(s, w) : e = [from |-> ID(w), kind |-> "controlled_by", to |-> x]
    BY <1>3 DEF ControlledByEdges, EdgesTo
  <2>2. e.from = ID(w) /\ e.kind = "controlled_by" /\ e.to = x
    BY <2>1
  <2>3. e.from.kind = "Workload" /\ e.to.kind = "Workload"
    BY <2>2, ObjectID, OwnersAreWorkloads DEF OfKind
  <2> QED BY <2>2, <2>3 DEF Fits, Joined, ControllerRuleKinds
<1>4. ASSUME e \in BindingEdges(s)
      PROVE  Fits(e) /\ e.kind = "bound_by_role_binding"
  <2>1. PICK b \in OfKind(s, "RoleBinding") \cup OfKind(s, "ClusterRoleBinding") :
            \E a \in BoundAccounts(s, b) : e = [from |-> ID(a), kind |-> "bound_by_role_binding", to |-> ID(b)]
    BY <1>4 DEF BindingEdges
  <2>2. /\ e.kind = "bound_by_role_binding" /\ e.to = ID(b)
        /\ \E a \in BoundAccounts(s, b) : e.from = ID(a)
    BY <2>1
  <2>3. e.from.kind = "ServiceAccount" /\ e.to.kind \in {"RoleBinding", "ClusterRoleBinding"}
    <3>1. PICK a \in BoundAccounts(s, b) : e.from = ID(a)
      BY <2>2
    <3>2. a.kind = "ServiceAccount" /\ b.kind \in {"RoleBinding", "ClusterRoleBinding"}
      BY DEF OfKind, BoundAccounts
    <3> QED BY <2>2, <3>1, <3>2, ObjectID
  <2> QED BY <2>2, <2>3 DEF Fits, Joined, ControllerRuleKinds
<1> QED BY <1>1, <1>2, <1>3, <1>4

\* The edges of the controller rules.
LEMMA InferredFit ==
    ASSUME NEW s, NEW e \in InferWorkloadControllerEdges(s)
    PROVE  Fits(e) /\ e.kind \in ControllerRuleKinds
<1>1. PICK w \in OfKind(s, "Workload"), S \in SUBSET OfKind(s, "Pod"), kind \in ControllerRuleKinds :
        e \in EdgesTo(ID(w), kind, IDs(S))
  <2> DEFINE Pods == OfKind(s, "Pod")
             Matched(w) == {rule \in ControllerRules : Pattern(rule.kind, w.src)}
             Controllers(w) == {p \in Pods : \E rule \in Matched(w) :
                                  Pattern(rule.ns, p.ns) /\ p.name \in rule.controllers}
             OwnedNodes(w) == {p.node : p \in {q \in Pods : ID(w) \in ResolveOwners(s, q)}} \ {""}
             Daemons(w) == {p \in Pods : p.node \in OwnedNodes(w) /\ \E rule \in Matched(w) :
                                  Pattern(rule.ns, p.ns) /\ p.name \in rule.daemons}
  <2>1. \A w : Controllers(w) \subseteq Pods /\ Daemons(w) \subseteq Pods
    OBVIOUS
  <2>2. InferWorkloadControllerEdges(s) =
          UNION {EdgesTo(ID(w), "managed_by_controller", IDs(Controllers(w)))
                   \cup EdgesTo(ID(w), "served_by_node_daemon", IDs(Daemons(w))) : w \in OfKind(s, "Workload")}
    BY DEF InferWorkloadControllerEdges
  <2> HIDE DEF Controllers, Daemons
  <2>3. PICK w \in OfKind(s, "Workload") :
            \/ e \in EdgesTo(ID(w), "managed_by_controller", IDs(Controllers(w)))
            \/ e \in EdgesTo(ID(w), "served_by_node_daemon", IDs(Daemons(w)))
    BY <2>2
  <2> QED BY <2>1, <2>3, Zenon DEF ControllerRuleKinds
<1>2. e.from = ID(w) /\ e.kind = kind /\ \E o \in S : e.to.kind = o.kind
  BY <1>1, EdgeToJoins
<1>3. e.from.kind = "Workload" /\ e.to.kind = "Pod"
  BY <1>2, ObjectID DEF OfKind
<1> QED BY <1>2, <1>3 DEF Fits, Joined, ControllerRuleKinds

\* The edges of storage.
LEMMA StoragePartsFit ==
    ASSUME NEW s, NEW e
    PROVE  /\ \A c \in OfKind(s, "PVC") : e \in ClaimEdges(s, c) =>
                Fits(e) /\ e.kind \in {"bound_to_pv", "uses_storage_class"} /\ e.from = ID(c)
           /\ \A v \in OfKind(s, "PV") : e \in VolumeEdges(s, v) =>
                Fits(e) /\ e.kind = "uses_storage_class" /\ e.from = ID(v)
           /\ \A c \in OfKind(s, "StorageClass") : e \in ProvisionerEdges(s, c) =>
                Fits(e) /\ e.kind = "provisioned_by_csi_driver" /\ e.from = ID(c)
<1>1. ASSUME NEW o, NEW kind, NEW K, NEW names, e \in EdgesTo(ID(o), kind, IDs(Named(s, K, "", names)))
      PROVE  e.from = ID(o) /\ e.from.kind = o.kind /\ e.kind = kind /\ e.to.kind = K
  <2>1. PICK x \in Named(s, K, "", names) : e = [from |-> ID(o), kind |-> kind, to |-> ID(x)]
    BY <1>1 DEF EdgesTo, IDs
  <2>2. x.kind = K
    BY DEF Named, OfKind
  <2> QED BY <2>1, <2>2, ObjectID
<1>2. ASSUME NEW c \in OfKind(s, "PVC"), e \in ClaimEdges(s, c)
      PROVE  Fits(e) /\ e.kind \in {"bound_to_pv", "uses_storage_class"} /\ e.from = ID(c)
  <2>1. c.kind = "PVC"
    BY DEF OfKind
  <2>2. CASE e \in EdgesTo(ID(c), "bound_to_pv", IDs(Named(s, "PV", "", {c.volume})))
    <3>1. e.from = ID(c) /\ e.from.kind = "PVC" /\ e.kind = "bound_to_pv" /\ e.to.kind = "PV"
      BY <1>1, <2>1, <2>2
    <3> QED BY <3>1 DEF Fits, Joined, ControllerRuleKinds
  <2>3. CASE e \in EdgesTo(ID(c), "uses_storage_class",
                           IDs(Named(s, "StorageClass", "", storageClassNameForPVC(s, c))))
    <3>1. e.from = ID(c) /\ e.from.kind = "PVC" /\ e.kind = "uses_storage_class" /\ e.to.kind = "StorageClass"
      BY <1>1, <2>1, <2>3
    <3> QED BY <3>1 DEF Fits, Joined, ControllerRuleKinds
  <2> QED BY <1>2, <2>2, <2>3 DEF ClaimEdges
<1>3. ASSUME NEW v \in OfKind(s, "PV"), e \in VolumeEdges(s, v)
      PROVE  Fits(e) /\ e.kind = "uses_storage_class" /\ e.from = ID(v)
  <2>1. e.from = ID(v) /\ e.from.kind = v.kind /\ e.kind = "uses_storage_class" /\ e.to.kind = "StorageClass"
    BY <1>1, <1>3 DEF VolumeEdges
  <2> QED BY <2>1 DEF Fits, Joined, ControllerRuleKinds, OfKind
<1>4. ASSUME NEW c \in OfKind(s, "StorageClass"), e \in ProvisionerEdges(s, c)
      PROVE  Fits(e) /\ e.kind = "provisioned_by_csi_driver" /\ e.from = ID(c)
  <2>1. PICK d \in csiDriverIDs(s) : e = [from |-> ID(c), kind |-> "provisioned_by_csi_driver", to |-> d]
    BY <1>4 DEF ProvisionerEdges, EdgesTo
  <2>2. d.kind = "CSIDriver"
    BY DriversAreDrivers
  <2>3. e.from = ID(c) /\ e.from.kind = "StorageClass" /\ e.kind = "provisioned_by_csi_driver"
    BY <2>1, ObjectID DEF OfKind
  <2> QED BY <2>1, <2>2, <2>3 DEF Fits, Joined, ControllerRuleKinds
<1> QED BY <1>2, <1>3, <1>4

\* A rule in use stands in the list, and its pods serve CSI.
LEMMA RulesServe ==
    ASSUME NEW driver, NEW rule \in componentRuleForDriver(driver) \cup Correlator(driver)
    PROVE  /\ CSIRules # <<>>
           /\ \A s : \A p \in ControllerPods(s, rule) \cup AgentPods(s, rule) :
                p \in OfKind(s, "Pod") /\ ServesCSI(p.ns, p.name)
<1>1. PICK i \in DOMAIN CSIRules : rule = CSIRules[i]
  BY DEF componentRuleForDriver, Correlator, RuleIndexes
<1>2. CSIRules # <<>>
  BY <1>1
<1>3. ASSUME NEW s, NEW p \in ControllerPods(s, rule) \cup AgentPods(s, rule)
      PROVE  p \in OfKind(s, "Pod") /\ ServesCSI(p.ns, p.name)
  BY <1>1 DEF ControllerPods, AgentPods, ServesCSI
<1> QED BY <1>2, <1>3

\* The edges to the pods of CSI components.
LEMMA CSIPartsFit ==
    ASSUME NEW s, NEW e
    PROVE  /\ \A v \in OfKind(s, "PV") : e \in CorrelatePVToCSIComponents(s, v) =>
                /\ Fits(e) /\ e.from = ID(v) /\ FitsRules(e)
                /\ e.kind \in {"managed_by_csi_controller", "served_by_csi_node_agent"}
           /\ \A d \in csiDriverIDs(s) : e \in InferCSIComponentEdges(s, d) =>
                /\ Fits(e) /\ e.from = d /\ FitsRules(e)
                /\ e.kind \in {"implemented_by_csi_controller", "implemented_by_csi_node_agent"}
<1>1. ASSUME NEW driver, NEW rule \in componentRuleForDriver(driver) \cup Correlator(driver),
             NEW from, NEW kind, NEW S \in SUBSET (ControllerPods(s, rule) \cup AgentPods(s, rule)),
             e \in EdgesTo(from, kind, IDs(S))
      PROVE  /\ e.from = from /\ e.kind = kind
             /\ e.to.kind = "Pod" /\ ServesCSI(e.to.ns, e.to.name)
  <2>1. PICK p \in S : e = [from |-> from, kind |-> kind, to |-> ID(p)]
    BY <1>1 DEF EdgesTo, IDs
  <2>2. p.kind = "Pod" /\ ServesCSI(p.ns, p.name)
    BY RulesServe DEF OfKind
  <2>3. e.from = from /\ e.kind = kind /\ e.to = ID(p)
    BY <2>1
  <2>4. ID(p).kind = p.kind /\ ID(p).ns = p.ns /\ ID(p).name = p.name
    BY ObjectID
  <2> QED BY <2>2, <2>3, <2>4
<1>2. ASSUME NEW v \in OfKind(s, "PV"), e \in CorrelatePVToCSIComponents(s, v)
      PROVE  /\ Fits(e) /\ e.from = ID(v) /\ FitsRules(e)
             /\ e.kind \in {"managed_by_csi_controller", "served_by_csi_node_agent"}
  <2>1. PICK rule \in Correlator(v.driver) :
            \/ e \in EdgesTo(ID(v), "managed_by_csi_controller", IDs(ControllerPods(s, rule)))
            \/ e \in EdgesTo(ID(v), "served_by_csi_node_agent",
                             IDs({p \in AgentPods(s, rule) : p.node \in csiAgentNodeNamesForPV(s, v)}))
    BY <1>2 DEF CorrelatePVToCSIComponents
  <2> DEFINE agents == {p \in AgentPods(s, rule) : p.node \in csiAgentNodeNamesForPV(s, v)}
  <2>2. agents \subseteq ControllerPods(s, rule) \cup AgentPods(s, rule)
    OBVIOUS
  <2> HIDE DEF agents
  <2>3. /\ e.from = ID(v) /\ e.to.kind = "Pod" /\ ServesCSI(e.to.ns, e.to.name)
        /\ e.kind \in {"managed_by_csi_controller", "served_by_csi_node_agent"}
    <3>1. CASE e \in EdgesTo(ID(v), "managed_by_csi_controller", IDs(ControllerPods(s, rule)))
      BY <1>1, <3>1
    <3>2. CASE e \in EdgesTo(ID(v), "served_by_csi_node_agent", IDs(agents))
      BY <1>1, <2>2, <3>2
    <3> QED BY <2>1, <3>1, <3>2 DEF agents
  <2>4. e.from.kind = "PV"
    BY <2>3, ObjectID DEF OfKind
  <2> QED BY <2>3, <2>4 DEF Fits, Joined, ControllerRuleKinds, FitsRules
<1>3. ASSUME NEW d \in csiDriverIDs(s), e \in InferCSIComponentEdges(s, d)
      PROVE  /\ Fits(e) /\ e.from = d /\ FitsRules(e)
             /\ e.kind \in {"implemented_by_csi_controller", "implemented_by_csi_node_agent"}
  <2>1. PICK rule \in componentRuleForDriver(d.name) :
            \/ e \in EdgesTo(d, "implemented_by_csi_controller", IDs(ControllerPods(s, rule)))
            \/ e \in EdgesTo(d, "implemented_by_csi_node_agent", IDs(AgentPods(s, rule)))
    BY <1>3 DEF InferCSIComponentEdges
  <2>2. /\ e.from = d /\ e.to.kind = "Pod" /\ ServesCSI(e.to.ns, e.to.name)
        /\ e.kind \in {"implemented_by_csi_controller", "implemented_by_csi_node_agent"}
    BY <1>1, <2>1
  <2>3. d.kind = "CSIDriver"
    BY DriversAreDrivers
  <2> QED BY <2>2, <2>3 DEF Fits, Joined, ControllerRuleKinds, FitsRules
<1> QED BY <1>2, <1>3

(* The parts again, with the kinds that each contributes and the object that  *)
(* contributes them.                                                          *)
PartsByKind(s, e) ==
    \/ /\ e.kind \in {"scheduled_on", "uses_image", "uses_config_map", "uses_secret"}
       /\ \E p \in OfKind(s, "Pod") : e.from = ID(p) /\ e \in PodReferenceEdges(s, p)
    \/ /\ e.kind = "managed_by"
       /\ \E p \in OfKind(s, "Pod") : e.from = ID(p) /\ e \in OwnerEdges(s, p)
    \/ /\ e.kind = "owns_pod"
       /\ \E p \in OfKind(s, "Pod") : e.to = ID(p) /\ e \in OwnerEdges(s, p)
    \/ /\ e.kind = "uses_service_account"
       /\ \E p \in OfKind(s, "Pod") : e.from = ID(p) /\ e \in AccountEdges(s, p)
    \/ /\ e.kind = "mounts_pvc"
       /\ \E p \in OfKind(s, "Pod") : e.from = ID(p) /\ e \in MountEdges(s, p)
    \/ /\ e.kind = "selects_pod"
       /\ \E v \in OfKind(s, "Service") : e \in EdgesTo(ID(v), "selects_pod", IDs(SelectedPods(s, v)))
    \/ /\ e.kind = "reported_by_event"
       /\ \E ev \in OfKind(s, "Event") :
            e \in EdgesTo(ID(ev), "reported_by_event", IDs(EventTargets(s, ev)))
    \/ e.kind = "controlled_by" /\ \E w \in OfKind(s, "Workload") : e \in ControlledByEdges(s, w)
    \/ e.kind \in ControllerRuleKinds /\ e \in InferWorkloadControllerEdges(s)
    \/ e.kind = "bound_by_role_binding" /\ e \in BindingEdges(s)
    \/ e.kind \in StorageEdgeKinds /\ e \in StorageEdges(s)

\* Every edge of a rebuild is of the kinds of its part, and fits.
LEMMA PlainByKind ==
    ASSUME NEW s, NEW e \in PlainEdges(s)
    PROVE  PartsByKind(s, e) /\ Fits(e) /\ FitsRules(e)
<1>0. PlainParts(s, e)
  BY PlainIsParts
<1>1. CASE \E p \in OfKind(s, "Pod") : e \in PodReferenceEdges(s, p)
  BY <1>1, PodPartsFit DEF PartsByKind, FitsRules, CSIKinds
<1>2. CASE \E p \in OfKind(s, "Pod") : e \in OwnerEdges(s, p)
  BY <1>2, PodPartsFit DEF PartsByKind, FitsRules, CSIKinds
<1>3. CASE \E p \in OfKind(s, "Pod") : e \in AccountEdges(s, p)
  BY <1>3, PodPartsFit DEF PartsByKind, FitsRules, CSIKinds
<1>4. CASE \E p \in OfKind(s, "Pod") : e \in MountEdges(s, p)
  BY <1>4, PodPartsFit DEF PartsByKind, FitsRules, CSIKinds
<1>5. CASE \E v \in OfKind(s, "Service") : e \in EdgesTo(ID(v), "selects_pod", IDs(SelectedPods(s, v)))
  BY <1>5, ScopedPartsFit DEF PartsByKind, FitsRules, CSIKinds
<1>6. CASE \E ev \in OfKind(s, "Event") : e \in EdgesTo(ID(ev), "reported_by_event", IDs(EventTargets(s, ev)))
  BY <1>6, ScopedPartsFit DEF PartsByKind, FitsRules, CSIKinds
<1>7. CASE \E w \in OfKind(s, "Workload") : e \in ControlledByEdges(s, w)
  BY <1>7, ScopedPartsFit DEF PartsByKind, FitsRules, CSIKinds
<1>8. CASE e \in InferWorkloadControllerEdges(s)
  BY <1>8, InferredFit DEF PartsByKind, FitsRules, CSIKinds, ControllerRuleKinds
<1>9. CASE e \in BindingEdges(s)
  BY <1>9, ScopedPartsFit DEF PartsByKind, FitsRules, CSIKinds
<1>10. CASE \E c \in OfKind(s, "PVC") : e \in ClaimEdges(s, c)
  <2>1. e \in StorageEdges(s)
    BY <1>10 DEF StorageEdges
  <2> QED BY <1>10, <2>1, StoragePartsFit DEF PartsByKind, FitsRules, CSIKinds, StorageEdgeKinds
<1>11. CASE \E v \in OfKind(s, "PV") : e \in VolumeEdges(s, v)
  <2>1. e \in StorageEdges(s)
    BY <1>11 DEF StorageEdges
  <2> QED BY <1>11, <2>1, StoragePartsFit DEF PartsByKind, FitsRules, CSIKinds, StorageEdgeKinds
<1>12. CASE \E v \in OfKind(s, "PV") : e \in CorrelatePVToCSIComponents(s, v)
  <2>1. e \in StorageEdges(s)
    BY <1>12 DEF StorageEdges
  <2> QED BY <1>12, <2>1, CSIPartsFit DEF PartsByKind, StorageEdgeKinds
<1>13. CASE \E c \in OfKind(s, "StorageClass") : e \in ProvisionerEdges(s, c)
  <2>1. e \in StorageEdges(s)
    BY <1>13 DEF StorageEdges
  <2> QED BY <1>13, <2>1, StoragePartsFit DEF PartsByKind, FitsRules, CSIKinds, StorageEdgeKinds
<1>14. CASE \E d \in csiDriverIDs(s) : e \in InferCSIComponentEdges(s, d)
  <2>1. e \in StorageEdges(s)
    BY <1>14 DEF StorageEdges
  <2> QED BY <1>14, <2>1, CSIPartsFit DEF PartsByKind, StorageEdgeKinds
<1> QED BY <1>0, <1>1, <1>2, <1>3, <1>4, <1>5, <1>6, <1>7, <1>8, <1>9, <1>10, <1>11, <1>12,
           <1>13, <1>14 DEF PlainParts

-----------------------------------------------------------------------------
(* On which objects an edge depends.  The event of an object o bears Key(o);  *)
(* Agree(s, t, e): no object of one of the snapshots alone affects e.         *)
Key(o) == [kind |-> informerChangeKind(o), ns |-> o.ns, name |-> o.name]
Agree(s, t, e) == \A o \in (s \ t) \cup (t \ s) : ~Affects(Key(o), e)

\* Agreement goes both ways.
LEMMA AgreeBoth ==
    ASSUME NEW s, NEW t, NEW e, Agree(s, t, e)
    PROVE  Agree(t, s, e)
BY DEF Agree

\* Whether an event affects an edge depends on its kind, namespace and name.
LEMMA AffectsByKey ==
    ASSUME NEW ev, NEW o, NEW e, NEW change, About(ev, o, change)
    PROVE  Affects(ev, e) <=> Affects(Key(o), e)
<1>1. ev.kind = Key(o).kind /\ ev.ns = Key(o).ns /\ ev.name = Key(o).name
  BY DEF About, Key
<1> QED BY <1>1 DEF Affects, Names

\* The event of an object names the object's node.
LEMMA KeyNames ==
    ASSUME NEW o
    PROVE  Names(Key(o), ID(o))
<1>1. informerChangeKind(ID(o)) = informerChangeKind(o)
  BY EventKindOf, ObjectID
<1>2. Key(o).kind = informerChangeKind(o) /\ Key(o).ns = o.ns /\ Key(o).name = o.name
  BY DEF Key
<1> QED BY <1>1, <1>2, ObjectID DEF Names

\* The objects at the ends of an edge.
LEMMA EndsAgree ==
    ASSUME NEW s, NEW t, NEW e, Agree(s, t, e), NEW o \in s, ID(o) = e.from \/ ID(o) = e.to
    PROVE  o \in t
BY KeyNames DEF Agree, Affects

\* The objects at the ends, taken from the objects of a kind and a name.
LEMMA NamedAgree ==
    ASSUME NEW s, NEW t, NEW e, Agree(s, t, e), NEW K, NEW ns, NEW names,
           NEW from, NEW kind, e \in EdgesTo(from, kind, IDs(Named(s, K, ns, names)))
    PROVE  e \in EdgesTo(from, kind, IDs(Named(t, K, ns, names)))
<1>1. PICK o \in Named(s, K, ns, names) : e = [from |-> from, kind |-> kind, to |-> ID(o)]
  BY DEF EdgesTo, IDs
<1>2. o \in t
  <2>1. o \in s /\ ID(o) = e.to
    BY <1>1 DEF Named, OfKind
  <2> QED BY <2>1, EndsAgree
<1>3. o \in Named(t, K, ns, names)
  BY <1>2 DEF Named, OfKind
<1> QED BY <1>1, <1>3 DEF EdgesTo, IDs

\* All the storage objects, for an edge of storage.
LEMMA StorageAgree ==
    ASSUME NEW s, NEW t, NEW e, Agree(s, t, e), e.kind \in StorageEdgeKinds, NEW K \in StorageKinds
    PROVE  OfKind(s, K) = OfKind(t, K)
<1>1. ASSUME NEW o, o.kind = K
      PROVE  Affects(Key(o), e)
  <2>1. Key(o).kind = "storage"
    BY <1>1, EventKindOf DEF Key, StorageKinds
  <2> QED BY <2>1 DEF Affects
<1> QED BY <1>1 DEF Agree, OfKind

\* All that owners are resolved from, for an edge between a pod or workload and its owners
\* and for an edge of the controller rules.
LEMMA OwnersAgree ==
    ASSUME NEW s, NEW t, NEW e, Agree(s, t, e), e.kind \in OwnerKinds \cup ControllerRuleKinds
    PROVE  /\ OfKind(s, "Workload") = OfKind(t, "Workload")
           /\ Owners(s) = Owners(t)
<1>1. ASSUME NEW o, o.kind \in {"Workload", "ReplicaSet"}
      PROVE  Affects(Key(o), e)
  <2>1. Key(o).kind = "workload"
    BY <1>1, EventKindOf DEF Key
  <2> QED BY <2>1 DEF Affects
<1>2. OfKind(s, "Workload") = OfKind(t, "Workload")
  BY <1>1 DEF Agree, OfKind
<1>3. OfKind(s, "ReplicaSet") = OfKind(t, "ReplicaSet")
  BY <1>1 DEF Agree, OfKind
<1> QED BY <1>2, <1>3 DEF Owners

\* And so the owners come out the same.
LEMMA SameOwners ==
    ASSUME NEW s, NEW t, OfKind(s, "Workload") = OfKind(t, "Workload"), Owners(s) = Owners(t), NEW o
    PROVE  ResolveOwners(s, o) = ResolveOwners(t, o)
BY DEF ResolveOwners

(* The inference of the controller rules, from what it reads of a snapshot. *)
InferFrom(Pods, W, O) ==
    LET Matched(w) == {rule \in ControllerRules : Pattern(rule.kind, w.src)}
        Controllers(w) == {p \in Pods : \E rule \in Matched(w) :
                              Pattern(rule.ns, p.ns) /\ p.name \in rule.controllers}
        OwnedNodes(w) == {p.node : p \in {q \in Pods : ID(w) \in IDs({x \in W : x \in Reachable(O, q)})}} \ {""}
        Daemons(w) == {p \in Pods : p.node \in OwnedNodes(w) /\ \E rule \in Matched(w) :
                              Pattern(rule.ns, p.ns) /\ p.name \in rule.daemons}
    IN  UNION {EdgesTo(ID(w), "managed_by_controller", IDs(Controllers(w)))
                 \cup EdgesTo(ID(w), "served_by_node_daemon", IDs(Daemons(w))) : w \in W}

\* The inference reads the pods, the workloads and what owners are resolved from.
LEMMA InferReads ==
    ASSUME NEW s
    PROVE  InferWorkloadControllerEdges(s) = InferFrom(OfKind(s, "Pod"), OfKind(s, "Workload"), Owners(s))
BY DEF InferWorkloadControllerEdges, InferFrom, ResolveOwners

\* Its edges come out the same when no pod or workload affects one of them.
LEMMA InferredAgree ==
    ASSUME NEW s, NEW t, NEW e, Agree(s, t, e), e.kind \in ControllerRuleKinds
    PROVE  InferWorkloadControllerEdges(s) = InferWorkloadControllerEdges(t)
<1>1. ASSUME NEW o, o.kind = "Pod"
      PROVE  Affects(Key(o), e)
  <2>1. Key(o).kind = "pod"
    BY <1>1, EventKindOf DEF Key
  <2> QED BY <2>1 DEF Affects
<1>2. OfKind(s, "Pod") = OfKind(t, "Pod")
  BY <1>1 DEF Agree, OfKind
<1>3. OfKind(s, "Workload") = OfKind(t, "Workload") /\ Owners(s) = Owners(t)
  BY OwnersAgree
<1> QED BY <1>2, <1>3, InferReads

\* The drivers come out the same from the same storage objects.
LEMMA DriversAgree ==
    ASSUME NEW s, NEW t, NEW e, Agree(s, t, e), e.kind \in StorageEdgeKinds
    PROVE  csiDriverIDs(s) = csiDriverIDs(t)
<1>1. OfKind(s, "StorageClass") = OfKind(t, "StorageClass") /\ OfKind(s, "CSIDriver") = OfKind(t, "CSIDriver")
  BY StorageAgree DEF StorageKinds
<1> QED BY <1>1 DEF csiDriverIDs, SyntheticDrivers, Named

\* The edges of a pod, when the pod and the other end agree.
LEMMA PodPartsAgree ==
    ASSUME NEW s, NEW t, NEW e, Agree(s, t, e), NEW p \in OfKind(s, "Pod")
    PROVE  /\ e \in PodReferenceEdges(s, p) => p \in OfKind(t, "Pod") /\ e \in PodReferenceEdges(t, p)
           /\ e \in AccountEdges(s, p) => p \in OfKind(t, "Pod") /\ e \in AccountEdges(t, p)
           /\ e \in MountEdges(s, p) => p \in OfKind(t, "Pod") /\ e \in MountEdges(t, p)
           /\ e \in OwnerEdges(s, p) => p \in OfKind(t, "Pod") /\ e \in OwnerEdges(t, p)
<1>1. e.from = ID(p) \/ e.to = ID(p) => p \in OfKind(t, "Pod")
  BY EndsAgree DEF OfKind
<1>2. e \in PodReferenceEdges(s, p) => p \in OfKind(t, "Pod") /\ e \in PodReferenceEdges(t, p)
  BY <1>1, PodPartsFit, NamedAgree DEF PodReferenceEdges
<1>3. e \in AccountEdges(s, p) => p \in OfKind(t, "Pod") /\ e \in AccountEdges(t, p)
  BY <1>1, PodPartsFit, NamedAgree DEF AccountEdges
<1>4. e \in MountEdges(s, p) => p \in OfKind(t, "Pod") /\ e \in MountEdges(t, p)
  BY <1>1, PodPartsFit, NamedAgree DEF MountEdges
<1>5. ASSUME e \in OwnerEdges(s, p)
      PROVE  p \in OfKind(t, "Pod") /\ e \in OwnerEdges(t, p)
  <2>1. p \in OfKind(t, "Pod") /\ e.kind \in {"managed_by", "owns_pod"}
    BY <1>1, <1>5, PodPartsFit
  <2>2. ResolveOwners(s, p) = ResolveOwners(t, p)
    <3>1. OfKind(s, "Workload") = OfKind(t, "Workload") /\ Owners(s) = Owners(t)
      BY <2>1, OwnersAgree DEF OwnerKinds
    <3> QED BY <3>1, SameOwners
  <2> QED BY <1>5, <2>1, <2>2 DEF OwnerEdges
<1> QED BY <1>2, <1>3, <1>4, <1>5

\* The edges of services, events, workloads and bindings.
LEMMA ScopedPartsAgree ==
    ASSUME NEW s, NEW t, NEW e, Agree(s, t, e)
    PROVE  /\ \A v \in OfKind(s, "Service") :
                e \in EdgesTo(ID(v), "selects_pod", IDs(SelectedPods(s, v))) =>
                    v \in OfKind(t, "Service") /\ e \in EdgesTo(ID(v), "selects_pod", IDs(SelectedPods(t, v)))
           /\ \A ev \in OfKind(s, "Event") :
                e \in EdgesTo(ID(ev), "reported_by_event", IDs(EventTargets(s, ev))) =>
                    /\ ev \in OfKind(t, "Event")
                    /\ e \in EdgesTo(ID(ev), "reported_by_event", IDs(EventTargets(t, ev)))
           /\ \A w \in OfKind(s, "Workload") :
                e \in ControlledByEdges(s, w) => w \in OfKind(t, "Workload") /\ e \in ControlledByEdges(t, w)
           /\ e \in BindingEdges(s) => e \in BindingEdges(t)
<1>1. ASSUME NEW v \in OfKind(s, "Service"),
             e \in EdgesTo(ID(v), "selects_pod", IDs(SelectedPods(s, v)))
      PROVE  v \in OfKind(t, "Service") /\ e \in EdgesTo(ID(v), "selects_pod", IDs(SelectedPods(t, v)))
  <2>1. PICK p \in SelectedPods(s, v) : e = [from |-> ID(v), kind |-> "selects_pod", to |-> ID(p)]
    BY <1>1 DEF EdgesTo, IDs
  <2>2. v \in t /\ p \in t
    <3>1. v \in s /\ p \in s /\ ID(v) = e.from /\ ID(p) = e.to
      BY <2>1 DEF SelectedPods, OfKind
    <3> QED BY <3>1, EndsAgree
  <2>3. v \in OfKind(t, "Service") /\ p \in SelectedPods(t, v)
    BY <2>2 DEF SelectedPods, OfKind
  <2> QED BY <2>1, <2>3 DEF EdgesTo, IDs
<1>2. ASSUME NEW ev \in OfKind(s, "Event"),
             e \in EdgesTo(ID(ev), "reported_by_event", IDs(EventTargets(s, ev)))
      PROVE  /\ ev \in OfKind(t, "Event")
             /\ e \in EdgesTo(ID(ev), "reported_by_event", IDs(EventTargets(t, ev)))
  <2>1. PICK o \in EventTargets(s, ev) : e = [from |-> ID(ev), kind |-> "reported_by_event", to |-> ID(o)]
    BY <1>2 DEF EdgesTo, IDs
  <2>2. ev \in t /\ o \in t
    <3>1. ev \in s /\ o \in s /\ ID(ev) = e.from /\ ID(o) = e.to
      BY <2>1 DEF EventTargets, OfKind
    <3> QED BY <3>1, EndsAgree
  <2>3. ev \in OfKind(t, "Event") /\ o \in EventTargets(t, ev)
    BY <2>2 DEF EventTargets, OfKind
  <2> QED BY <2>1, <2>3 DEF EdgesTo, IDs
<1>3. ASSUME NEW w \in OfKind(s, "Workload"), e \in ControlledByEdges(s, w)
      PROVE  w \in OfKind(t, "Workload") /\ e \in ControlledByEdges(t, w)
  <2>1. e.kind = "controlled_by"
    BY <1>3, ScopedPartsFit
  <2>2. OfKind(s, "Workload") = OfKind(t, "Workload") /\ Owners(s) = Owners(t)
    BY <2>1, OwnersAgree DEF OwnerKinds
  <2>3. ResolveOwners(s, w) = ResolveOwners(t, w)
    BY <2>2, SameOwners
  <2> QED BY <1>3, <2>2, <2>3 DEF ControlledByEdges
<1>4. ASSUME e \in BindingEdges(s)
      PROVE  e \in BindingEdges(t)
  <2>1. PICK b \in OfKind(s, "RoleBinding") \cup OfKind(s, "ClusterRoleBinding") :
            \E a \in BoundAccounts(s, b) : e = [from |-> ID(a), kind |-> "bound_by_role_binding", to |-> ID(b)]
    BY <1>4 DEF BindingEdges
  <2>2. PICK a \in BoundAccounts(s, b) : e = [from |-> ID(a), kind |-> "bound_by_role_binding", to |-> ID(b)]
    BY <2>1
  <2>3. b \in t /\ a \in t
    <3>1. b \in s /\ a \in s /\ ID(b) = e.to /\ ID(a) = e.from
      BY <2>2 DEF BoundAccounts, OfKind
    <3> QED BY <3>1, EndsAgree
  <2>4. /\ b \in OfKind(t, "RoleBinding") \cup OfKind(t, "ClusterRoleBinding")
        /\ a \in BoundAccounts(t, b)
    BY <2>3 DEF BoundAccounts, OfKind
  <2> QED BY <2>2, <2>4 DEF BindingEdges
<1> QED BY <1>1, <1>2, <1>3, <1>4

\* The edges of claims, volumes and classes, when all storage agrees.
LEMMA StoragePartsAgree ==
    ASSUME NEW s, NEW t, NEW e, Agree(s, t, e), e.kind \in StorageEdgeKinds
    PROVE  /\ \A c \in OfKind(s, "PVC") :
                c \in OfKind(t, "PVC") /\ ClaimEdges(s, c) = ClaimEdges(t, c)
           /\ \A v \in OfKind(s, "PV") :
                v \in OfKind(t, "PV") /\ VolumeEdges(s, v) = VolumeEdges(t, v)
           /\ \A c \in OfKind(s, "StorageClass") :
                c \in OfKind(t, "StorageClass") /\ ProvisionerEdges(s, c) = ProvisionerEdges(t, c)
<1>1. /\ OfKind(s, "PVC") = OfKind(t, "PVC") /\ OfKind(s, "PV") = OfKind(t, "PV")
      /\ OfKind(s, "StorageClass") = OfKind(t, "StorageClass")
  BY StorageAgree DEF StorageKinds
<1>2. \A ns, names : /\ Named(s, "PV", ns, names) = Named(t, "PV", ns, names)
                     /\ Named(s, "StorageClass", ns, names) = Named(t, "StorageClass", ns, names)
  BY <1>1 DEF Named
<1>3. \A c : storageClassNameForPVC(s, c) = storageClassNameForPVC(t, c)
  BY <1>2 DEF storageClassNameForPVC
<1>4. ASSUME NEW c
      PROVE  ClaimEdges(s, c) = ClaimEdges(t, c)
  <2>1. Named(s, "PV", "", {c.volume}) = Named(t, "PV", "", {c.volume})
    BY <1>2
  <2>2. Named(s, "StorageClass", "", storageClassNameForPVC(s, c)) =
            Named(t, "StorageClass", "", storageClassNameForPVC(t, c))
    <3>1. storageClassNameForPVC(s, c) = storageClassNameForPVC(t, c)
      BY <1>3, Zenon
    <3>2. Named(s, "StorageClass", "", storageClassNameForPVC(t, c)) =
            Named(t, "StorageClass", "", storageClassNameForPVC(t, c))
      BY <1>2, Zenon
    <3> QED BY <3>1, <3>2
  <2> QED BY <2>1, <2>2 DEF ClaimEdges
<1>5. \A v : VolumeEdges(s, v) = VolumeEdges(t, v)
  BY <1>2 DEF VolumeEdges
<1>6. \A c : ProvisionerEdges(s, c) = ProvisionerEdges(t, c)
  BY DriversAgree DEF ProvisionerEdges
<1> QED BY <1>1, <1>4, <1>5, <1>6

\* The nodes on which a volume is mounted, when no pod that mounts it differs.
LEMMA NodeNamesAgree ==
    ASSUME NEW s, NEW t, NEW e, Agree(s, t, e), e.kind \in CSIKinds, CSIRules # <<>>,
           \A o \in s : LikeTemplate(o), NEW v, NEW n \in csiAgentNodeNamesForPV(s, v)
    PROVE  n \in csiAgentNodeNamesForPV(t, v)
<1>1. CASE n = v.affinity
  BY <1>1 DEF csiAgentNodeNamesForPV
<1>2. CASE n # v.affinity
  <2>1. PICK q \in OfKind(s, "Pod") :
            /\ n = q.node /\ n # ""
            /\ \E c \in OfKind(s, "PVC") : c.volume = v.name /\ q.ns = c.ns /\ c.name \in q.pvcs
    BY <1>2 DEF csiAgentNodeNamesForPV
  <2>2. PICK c \in OfKind(s, "PVC") : c.volume = v.name /\ q.ns = c.ns /\ c.name \in q.pvcs
    BY <2>1
  <2>3. c \in OfKind(t, "PVC")
    BY StorageAgree DEF CSIKinds, StorageEdgeKinds, StorageKinds
  <2>4. MountsOnNode(q.ns, q.name)
    <3>1. q \in s /\ q.kind = "Pod" /\ LikeTemplate(q)
      BY DEF OfKind
    <3>2. PICK u \in Templates \cup Initial :
            /\ u.kind = "Pod" /\ u.ns = q.ns /\ u.name = q.name
            /\ u.pvcs = q.pvcs /\ u.node = q.node
      BY <3>1 DEF LikeTemplate
    <3> QED BY <2>1, <2>2, <3>2 DEF MountsOnNode
  <2>5. Affects(Key(q), e)
    <3>1. Key(q).kind = "pod" /\ Key(q).ns = q.ns /\ Key(q).name = q.name
      BY EventKindOf DEF Key, OfKind
    <3> QED BY <2>4, <3>1 DEF Affects
  <2>6. q \in OfKind(t, "Pod")
    BY <2>5 DEF Agree, OfKind
  <2> QED BY <2>1, <2>2, <2>3, <2>6 DEF csiAgentNodeNamesForPV
<1> QED BY <1>1, <1>2

\* The edges to the pods of CSI components.
LEMMA CSIPartsAgree ==
    ASSUME NEW s, NEW t, NEW e, Agree(s, t, e), \A o \in s : LikeTemplate(o)
    PROVE  /\ \A v \in OfKind(s, "PV") : e \in CorrelatePVToCSIComponents(s, v) =>
                v \in OfKind(t, "PV") /\ e \in CorrelatePVToCSIComponents(t, v)
           /\ \A d \in csiDriverIDs(s) : e \in InferCSIComponentEdges(s, d) =>
                d \in csiDriverIDs(t) /\ e \in InferCSIComponentEdges(t, d)
<1>1. ASSUME NEW from, NEW kind, NEW S \in SUBSET OfKind(s, "Pod"), e \in EdgesTo(from, kind, IDs(S))
      PROVE  \E p \in S : p \in OfKind(t, "Pod") /\ e = [from |-> from, kind |-> kind, to |-> ID(p)]
  <2>1. PICK p \in S : e = [from |-> from, kind |-> kind, to |-> ID(p)]
    BY <1>1 DEF EdgesTo, IDs
  <2>2. p \in s /\ p.kind = "Pod" /\ ID(p) = e.to
    BY <2>1 DEF OfKind
  <2>3. p \in t
    BY <2>2, EndsAgree
  <2> QED BY <2>1, <2>2, <2>3 DEF OfKind
<1>2. ASSUME NEW from, NEW kind, NEW rule, e \in EdgesTo(from, kind, IDs(ControllerPods(s, rule)))
      PROVE  e \in EdgesTo(from, kind, IDs(ControllerPods(t, rule)))
  <2>1. ControllerPods(s, rule) \subseteq OfKind(s, "Pod")
    BY DEF ControllerPods
  <2>2. PICK p \in ControllerPods(s, rule) :
            p \in OfKind(t, "Pod") /\ e = [from |-> from, kind |-> kind, to |-> ID(p)]
    BY <1>1, <1>2, <2>1
  <2>3. p \in ControllerPods(t, rule)
    BY <2>2 DEF ControllerPods
  <2> QED BY <2>2, <2>3 DEF EdgesTo, IDs
<1>3. ASSUME NEW from, NEW kind, NEW rule, e \in EdgesTo(from, kind, IDs(AgentPods(s, rule)))
      PROVE  e \in EdgesTo(from, kind, IDs(AgentPods(t, rule)))
  <2>1. AgentPods(s, rule) \subseteq OfKind(s, "Pod")
    BY DEF AgentPods
  <2>2. PICK p \in AgentPods(s, rule) :
            p \in OfKind(t, "Pod") /\ e = [from |-> from, kind |-> kind, to |-> ID(p)]
    BY <1>1, <1>3, <2>1
  <2>3. p \in AgentPods(t, rule)
    BY <2>2 DEF AgentPods
  <2> QED BY <2>2, <2>3 DEF EdgesTo, IDs
<1>4. ASSUME NEW v \in OfKind(s, "PV"), e \in CorrelatePVToCSIComponents(s, v)
      PROVE  v \in OfKind(t, "PV") /\ e \in CorrelatePVToCSIComponents(t, v)
  <2>1. e.from = ID(v) /\ e.kind \in CSIKinds
    BY <1>4, CSIPartsFit DEF CSIKinds
  <2>2. v \in OfKind(t, "PV")
    BY <2>1, EndsAgree DEF OfKind
  <2>3. PICK rule \in Correlator(v.driver) :
            \/ e \in EdgesTo(ID(v), "managed_by_csi_controller", IDs(ControllerPods(s, rule)))
            \/ e \in EdgesTo(ID(v), "served_by_csi_node_agent",
                             IDs({p \in AgentPods(s, rule) : p.node \in csiAgentNodeNamesForPV(s, v)}))
    BY <1>4 DEF CorrelatePVToCSIComponents
  <2> DEFINE Agents(u) == {p \in AgentPods(u, rule) : p.node \in csiAgentNodeNamesForPV(u, v)}
  <2>4. ASSUME e \in EdgesTo(ID(v), "served_by_csi_node_agent", IDs(Agents(s)))
        PROVE  e \in EdgesTo(ID(v), "served_by_csi_node_agent", IDs(Agents(t)))
    <3>1. Agents(s) \subseteq OfKind(s, "Pod")
      BY DEF AgentPods
    <3>2. PICK p \in Agents(s) :
            p \in OfKind(t, "Pod") /\ e = [from |-> ID(v), kind |-> "served_by_csi_node_agent", to |-> ID(p)]
      BY <1>1, <2>4, <3>1
    <3>3. p \in AgentPods(t, rule)
      BY <3>2 DEF AgentPods
    <3>4. p.node \in csiAgentNodeNamesForPV(t, v)
      <4>1. CSIRules # <<>>
        BY RulesServe
      <4> QED BY <2>1, <4>1, NodeNamesAgree
    <3>5. p \in Agents(t)
      BY <3>3, <3>4
    <3> QED BY <3>2, <3>5 DEF EdgesTo, IDs
  <2>5. \/ e \in EdgesTo(ID(v), "managed_by_csi_controller", IDs(ControllerPods(t, rule)))
        \/ e \in EdgesTo(ID(v), "served_by_csi_node_agent", IDs(Agents(t)))
    BY <1>2, <2>3, <2>4
  <2>6. e \in EdgesTo(ID(v), "managed_by_csi_controller", IDs(ControllerPods(t, rule)))
                \cup EdgesTo(ID(v), "served_by_csi_node_agent", IDs(Agents(t)))
    BY <2>5
  <2>7. e \in CorrelatePVToCSIComponents(t, v)
    BY <2>3, <2>6, Zenon DEF CorrelatePVToCSIComponents
  <2> QED BY <2>2, <2>7
<1>5. ASSUME NEW d \in csiDriverIDs(s), e \in InferCSIComponentEdges(s, d)
      PROVE  d \in csiDriverIDs(t) /\ e \in InferCSIComponentEdges(t, d)
  <2>1. e.kind \in StorageEdgeKinds
    BY <1>5, CSIPartsFit DEF StorageEdgeKinds
  <2>2. d \in csiDriverIDs(t)
    BY <2>1, DriversAgree
  <2>3. PICK rule \in componentRuleForDriver(d.name) :
            \/ e \in EdgesTo(d, "implemented_by_csi_controller", IDs(ControllerPods(s, rule)))
            \/ e \in EdgesTo(d, "implemented_by_csi_node_agent", IDs(AgentPods(s, rule)))
    BY <1>5 DEF InferCSIComponentEdges
  <2>4. \/ e \in EdgesTo(d, "implemented_by_csi_controller", IDs(ControllerPods(t, rule)))
        \/ e \in EdgesTo(d, "implemented_by_csi_node_agent", IDs(AgentPods(t, rule)))
    BY <1>2, <1>3, <2>3
  <2> QED BY <2>2, <2>3, <2>4 DEF InferCSIComponentEdges
<1> QED BY <1>4, <1>5

\* What the builder decides on an edge depends on the objects that affect it alone.
LEMMA Decided ==
    ASSUME NEW s, NEW t, NEW e \in PlainEdges(s), Agree(s, t, e), \A o \in s : LikeTemplate(o)
    PROVE  e \in PlainEdges(t)
<1>0. PlainParts(s, e)
  BY PlainIsParts
<1> SUFFICES PlainParts(t, e)
  BY PlainIsParts
<1>1. CASE \E p \in OfKind(s, "Pod") : e \in PodReferenceEdges(s, p)
  BY <1>1, PodPartsAgree DEF PlainParts
<1>2. CASE \E p \in OfKind(s, "Pod") : e \in OwnerEdges(s, p)
  BY <1>2, PodPartsAgree DEF PlainParts
<1>3. CASE \E p \in OfKind(s, "Pod") : e \in AccountEdges(s, p)
  BY <1>3, PodPartsAgree DEF PlainParts
<1>4. CASE \E p \in OfKind(s, "Pod") : e \in MountEdges(s, p)
  BY <1>4, PodPartsAgree DEF PlainParts
<1>5. CASE \E v \in OfKind(s, "Service") : e \in EdgesTo(ID(v), "selects_pod", IDs(SelectedPods(s, v)))
  BY <1>5, ScopedPartsAgree DEF PlainParts
<1>6. CASE \E ev \in OfKind(s, "Event") : e \in EdgesTo(ID(ev), "reported_by_event", IDs(EventTargets(s, ev)))
  BY <1>6, ScopedPartsAgree DEF PlainParts
<1>7. CASE \E w \in OfKind(s, "Workload") : e \in ControlledByEdges(s, w)
  BY <1>7, ScopedPartsAgree DEF PlainParts
<1>8. CASE e \in InferWorkloadControllerEdges(s)
  BY <1>8, InferredFit, InferredAgree DEF PlainParts
<1>9. CASE e \in BindingEdges(s)
  BY <1>9, ScopedPartsAgree DEF PlainParts
<1>10. CASE \E c \in OfKind(s, "PVC") : e \in ClaimEdges(s, c)
  <2>1. e.kind \in StorageEdgeKinds
    BY <1>10, StoragePartsFit DEF StorageEdgeKinds
  <2> QED BY <1>10, <2>1, StoragePartsAgree DEF PlainParts
<1>11. CASE \E v \in OfKind(s, "PV") : e \in VolumeEdges(s, v)
  <2>1. e.kind \in StorageEdgeKinds
    BY <1>11, StoragePartsFit DEF StorageEdgeKinds
  <2> QED BY <1>11, <2>1, StoragePartsAgree DEF PlainParts
<1>12. CASE \E v \in OfKind(s, "PV") : e \in CorrelatePVToCSIComponents(s, v)
  BY <1>12, CSIPartsAgree DEF PlainParts
<1>13. CASE \E c \in OfKind(s, "StorageClass") : e \in ProvisionerEdges(s, c)
  <2>1. e.kind \in StorageEdgeKinds
    BY <1>13, StoragePartsFit DEF StorageEdgeKinds
  <2> QED BY <1>13, <2>1, StoragePartsAgree DEF PlainParts
<1>14. CASE \E d \in csiDriverIDs(s) : e \in InferCSIComponentEdges(s, d)
  BY <1>14, CSIPartsAgree DEF PlainParts
<1> QED BY <1>0, <1>1, <1>2, <1>3, <1>4, <1>5, <1>6, <1>7, <1>8, <1>9, <1>10, <1>11, <1>12,
           <1>13, <1>14 DEF PlainParts

-----------------------------------------------------------------------------
(* What a scoped update does to the edges.  Made(G, H, s): H, made of G and   *)
(* the snapshot s, has no edge of a kind that a rebuild would not load, but   *)
(* for those to webhooks, and no edge of an event that is not there.          *)
Held(G) == \A e \in EdgesOfKinds(G, {"reported_by_event"}) : e.from \in G.nodes
Made(G, H, s) ==
    /\ \A e \in H.edges : e \in G.edges \/ e \in PlainEdges(s) \/ (e.kind = "affected_by_webhook" /\ Fits(e))
    /\ Held(G) => Held(H)

\* A rebuild's edges of a kind come from the part of that kind.
LEMMA SelectionEdges ==
    ASSUME NEW s, NEW e
    PROVE  e \in PlainEdges(s) /\ e.kind = "selects_pod" <=>
             \E v \in OfKind(s, "Service") : e \in EdgesTo(ID(v), "selects_pod", IDs(SelectedPods(s, v)))
<1>1. ASSUME e \in PlainEdges(s), e.kind = "selects_pod"
      PROVE  \E v \in OfKind(s, "Service") : e \in EdgesTo(ID(v), "selects_pod", IDs(SelectedPods(s, v)))
  BY <1>1, PlainByKind DEF PartsByKind, ControllerRuleKinds, StorageEdgeKinds
<1>2. ASSUME NEW v \in OfKind(s, "Service"), e \in EdgesTo(ID(v), "selects_pod", IDs(SelectedPods(s, v)))
      PROVE  e \in PlainEdges(s) /\ e.kind = "selects_pod"
  BY <1>2, PlainIsParts, ScopedPartsFit DEF PlainParts
<1> QED BY <1>1, <1>2

\* The same of the edges of events,
LEMMA ReportEdges ==
    ASSUME NEW s, NEW e
    PROVE  e \in PlainEdges(s) /\ e.kind = "reported_by_event" <=>
             \E ev \in OfKind(s, "Event") : e \in EdgesTo(ID(ev), "reported_by_event", IDs(EventTargets(s, ev)))
<1>1. ASSUME e \in PlainEdges(s), e.kind = "reported_by_event"
      PROVE  \E ev \in OfKind(s, "Event") : e \in EdgesTo(ID(ev), "reported_by_event", IDs(EventTargets(s, ev)))
  BY <1>1, PlainByKind DEF PartsByKind, ControllerRuleKinds, StorageEdgeKinds
<1>2. ASSUME NEW ev \in OfKind(s, "Event"), e \in EdgesTo(ID(ev), "reported_by_event", IDs(EventTargets(s, ev)))
      PROVE  e \in PlainEdges(s) /\ e.kind = "reported_by_event"
  BY <1>2, PlainIsParts, ScopedPartsFit DEF PlainParts
<1> QED BY <1>1, <1>2

\* of the controller rules,
LEMMA RuleEdges ==
    ASSUME NEW s, NEW e
    PROVE  e \in PlainEdges(s) /\ e.kind \in ControllerRuleKinds <=> e \in InferWorkloadControllerEdges(s)
<1>1. ASSUME e \in PlainEdges(s), e.kind \in ControllerRuleKinds
      PROVE  e \in InferWorkloadControllerEdges(s)
  BY <1>1, PlainByKind DEF PartsByKind, ControllerRuleKinds, StorageEdgeKinds
<1>2. ASSUME e \in InferWorkloadControllerEdges(s)
      PROVE  e \in PlainEdges(s) /\ e.kind \in ControllerRuleKinds
  BY <1>2, InferredFit, PlainIsParts DEF PlainParts
<1> QED BY <1>1, <1>2

\* of storage,
LEMMA CategoryEdgesStorage ==
    ASSUME NEW s, NEW e
    PROVE  e \in PlainEdges(s) /\ e.kind \in StorageEdgeKinds <=> e \in StorageEdges(s)
<1>1. ASSUME e \in PlainEdges(s), e.kind \in StorageEdgeKinds
      PROVE  e \in StorageEdges(s)
  <2>1. PartsByKind(s, e)
    BY <1>1, PlainByKind
  <2>2. CASE e.kind = "mounts_pvc" /\ \E p \in OfKind(s, "Pod") : e.from = ID(p) /\ e \in MountEdges(s, p)
    BY <2>2 DEF StorageEdges
  <2> QED BY <1>1, <2>1, <2>2 DEF PartsByKind, ControllerRuleKinds, StorageEdgeKinds
<1>2. ASSUME e \in StorageEdges(s)
      PROVE  e \in PlainEdges(s) /\ e.kind \in StorageEdgeKinds
  <2>1. e \in PlainEdges(s)
    BY <1>2 DEF PlainEdges
  <2>2. CASE \E p \in OfKind(s, "Pod") : e \in MountEdges(s, p)
    BY <2>1, <2>2, PodPartsFit DEF StorageEdgeKinds
  <2>3. CASE \E c \in OfKind(s, "PVC") : e \in ClaimEdges(s, c)
    BY <2>1, <2>3, StoragePartsFit DEF StorageEdgeKinds
  <2>4. CASE \E v \in OfKind(s, "PV") : e \in VolumeEdges(s, v) \cup CorrelatePVToCSIComponents(s, v)
    BY <2>1, <2>4, StoragePartsFit, CSIPartsFit DEF StorageEdgeKinds
  <2>5. CASE \E c \in OfKind(s, "StorageClass") : e \in ProvisionerEdges(s, c)
    BY <2>1, <2>5, StoragePartsFit DEF StorageEdgeKinds
  <2>6. CASE \E d \in csiDriverIDs(s) : e \in InferCSIComponentEdges(s, d)
    BY <2>1, <2>6, CSIPartsFit DEF StorageEdgeKinds
  <2> QED BY <1>2, <2>2, <2>3, <2>4, <2>5, <2>6 DEF StorageEdges
<1> QED BY <1>1, <1>2

\* and of identity.
LEMMA CategoryEdgesIdentity ==
    ASSUME NEW s, NEW e
    PROVE  e \in PlainEdges(s) /\ e.kind \in IdentityEdgeKinds <=> e \in IdentityEdges(s)
<1>1. ASSUME e \in PlainEdges(s), e.kind \in IdentityEdgeKinds
      PROVE  e \in IdentityEdges(s)
  <2>1. PartsByKind(s, e)
    BY <1>1, PlainByKind
  <2>2. CASE /\ e.kind = "uses_service_account"
             /\ \E p \in OfKind(s, "Pod") : e.from = ID(p) /\ e \in AccountEdges(s, p)
    BY <2>2 DEF IdentityEdges
  <2>3. CASE e \in BindingEdges(s)
    BY <2>3 DEF IdentityEdges
  <2> QED BY <1>1, <2>1, <2>2, <2>3
          DEF PartsByKind, ControllerRuleKinds, StorageEdgeKinds, IdentityEdgeKinds
<1>2. ASSUME e \in IdentityEdges(s)
      PROVE  e \in PlainEdges(s) /\ e.kind \in IdentityEdgeKinds
  <2>1. e \in PlainEdges(s)
    BY <1>2 DEF PlainEdges
  <2>2. CASE \E p \in OfKind(s, "Pod") : e \in AccountEdges(s, p)
    BY <2>1, <2>2, PodPartsFit DEF IdentityEdgeKinds
  <2>3. CASE e \in BindingEdges(s)
    BY <2>1, <2>3, ScopedPartsFit DEF IdentityEdgeKinds
  <2> QED BY <1>2, <2>2, <2>3 DEF IdentityEdges
<1> QED BY <1>1, <1>2

\* Deleting nodes, and edges with them.
LEMMA DeletedEdges ==
    ASSUME NEW G, NEW X
    PROVE  /\ DeleteNodes(G, X).nodes = G.nodes \ X
           /\ \A e : e \in DeleteNodes(G, X).edges <=> e \in G.edges /\ e.from \notin X /\ e.to \notin X
           /\ Held(G) => Held(DeleteNodes(G, X))
<1>1. /\ DeleteNodes(G, X).nodes = G.nodes \ X
      /\ \A e : e \in DeleteNodes(G, X).edges <=> e \in G.edges /\ e.from \notin X /\ e.to \notin X
  BY DEF DeleteNodes, Graph
<1> QED BY <1>1 DEF Held, EdgesOfKinds

\* ServiceReconciler decides anew on what the service selects.
LEMMA ServiceEdges ==
    ASSUME NEW G, NEW s, NEW ns, NEW name, NEW change,
           \A x, y \in Named(s, "Service", ns, {name}) : x = y
    PROVE  LET H == ApplyService(G, s, ns, name, change)
           IN  /\ Made(G, H, s)
               /\ \A e : ~Bears(e.from, "Service", ns, name) /\ ~Bears(e.to, "Service", ns, name) =>
                    (e \in H.edges <=> e \in G.edges)
               /\ \A e : /\ e.kind = "selects_pod" /\ Bears(e.from, "Service", ns, name)
                         /\ e.from \in H.nodes /\ e.from \in IDs(s)
                         => (e \in H.edges <=> e \in PlainEdges(s))
<1> DEFINE found == Named(s, "Service", ns, {name})
           H == ApplyService(G, s, ns, name, change)
           held == NodesNamed(G, "Service", ns, name)
<1>0. \A n \in held : Bears(n, "Service", ns, name)
  BY DEF NodesNamed, Bears
<1>1. ASSUME NEW n, n \in IDs(s), Bears(n, "Service", ns, name)
      PROVE  \E v \in found : n = ID(v)
  BY <1>1, ObjectID DEF IDs, Bears, Named, OfKind
<1>2. CASE change = "delete" \/ found = {}
  <2>1. H = DeleteNodes(G, held)
    BY <1>2 DEF ApplyService
  <2>2. /\ H.nodes = G.nodes \ held
        /\ \A e : e \in H.edges <=> e \in G.edges /\ e.from \notin held /\ e.to \notin held
        /\ Held(G) => Held(H)
    BY <2>1, DeletedEdges
  <2> HIDE DEF H
  <2>3. Made(G, H, s)
    BY <2>2 DEF Made
  <2>4. ASSUME NEW n, Bears(n, "Service", ns, name)
        PROVE  n \notin H.nodes
    BY <2>2, <2>4 DEF NodesNamed, Bears
  <2> QED BY <1>0, <2>2, <2>3, <2>4 DEF H
<1>3. CASE change # "delete" /\ found # {}
  <2> DEFINE v == CHOOSE x \in found : TRUE
             E == EdgesTo(ID(v), "selects_pod", IDs(SelectedPods(s, v)))
  <2>1. v \in found
    BY <1>3
  <2>2. H = Upsert(DeleteEdges(G, SelectorEdges(G, ID(v))), {ID(v)}, E)
    BY <1>3 DEF ApplyService
  <2>3. H.nodes = G.nodes \cup {ID(v)} /\ H.edges = (G.edges \ SelectorEdges(G, ID(v))) \cup E
    BY <2>2 DEF Upsert, DeleteEdges, Graph
  <2>4. v \in OfKind(s, "Service") /\ \A x \in found : x = v
    BY <2>1 DEF Named
  <2>5. Bears(ID(v), "Service", ns, name)
    BY <2>1, ObjectID DEF Bears, Named, OfKind
  <2> HIDE DEF v, H
  <2>6. \A e \in E : e \in PlainEdges(s) /\ e.kind = "selects_pod" /\ e.from = ID(v)
    BY <2>4, SelectionEdges, ScopedPartsFit
  <2>7. ASSUME NEW e, e \in PlainEdges(s), e.kind = "selects_pod", e.from = ID(v)
        PROVE  e \in E
    <3>1. PICK x \in OfKind(s, "Service") : e \in EdgesTo(ID(x), "selects_pod", IDs(SelectedPods(s, x)))
      BY <2>7, SelectionEdges
    <3>2. ID(x) = ID(v)
      BY <2>7, <3>1, ScopedPartsFit
    <3>3. x \in found
      BY <2>5, <3>2, ObjectID DEF Bears, Named, OfKind
    <3> QED BY <2>4, <3>1, <3>3
  <2> HIDE DEF E
  <2>8. Made(G, H, s)
    BY <2>3, <2>6 DEF Made, Held, EdgesOfKinds
  <2>9. ASSUME NEW e, e.kind = "selects_pod", Bears(e.from, "Service", ns, name), e.from \in IDs(s)
        PROVE  e \in H.edges <=> e \in PlainEdges(s)
    <3>1. e.from = ID(v)
      BY <1>1, <2>4, <2>9
    <3> QED BY <2>3, <2>6, <2>7, <2>9, <3>1 DEF SelectorEdges
  <2>10. ASSUME NEW e, ~Bears(e.from, "Service", ns, name)
         PROVE  e \in H.edges <=> e \in G.edges
    BY <2>3, <2>5, <2>6, <2>10 DEF SelectorEdges
  <2> QED BY <2>8, <2>9, <2>10 DEF H
<1> QED BY <1>2, <1>3

\* The rules for controllers decide anew on all of their edges.
LEMMA RulesEdges ==
    ASSUME NEW G, NEW s
    PROVE  LET H == ApplyWorkloadControllerRules(G, s)
           IN  /\ Made(G, H, s) /\ H.nodes = G.nodes
               /\ \A e : e.kind \notin ControllerRuleKinds => (e \in H.edges <=> e \in G.edges)
               /\ \A e : e.kind \in ControllerRuleKinds => (e \in H.edges <=> e \in PlainEdges(s))
<1> DEFINE H == ApplyWorkloadControllerRules(G, s)
<1>1. /\ H.nodes = G.nodes
      /\ H.edges = (G.edges \ EdgesOfKinds(G, ControllerRuleKinds)) \cup InferWorkloadControllerEdges(s)
  BY DEF ApplyWorkloadControllerRules, Upsert, DeleteEdges, Graph
<1>2. \A e : e \in InferWorkloadControllerEdges(s) <=> e \in PlainEdges(s) /\ e.kind \in ControllerRuleKinds
  BY RuleEdges
<1> HIDE DEF H
<1>3. /\ \A e : e.kind \notin ControllerRuleKinds => (e \in H.edges <=> e \in G.edges)
      /\ \A e : e.kind \in ControllerRuleKinds => (e \in H.edges <=> e \in PlainEdges(s))
  BY <1>1, <1>2 DEF EdgesOfKinds
<1>4. Made(G, H, s)
  BY <1>1, <1>2, <1>3 DEF Made, Held, EdgesOfKinds, ControllerRuleKinds
<1> QED BY <1>1, <1>3, <1>4 DEF H

\* An update that reloads a category decides anew on its kinds of edges.
LEMMA ReloadEdges ==
    ASSUME NEW G, NEW s, NEW K, NEW C, NEW L, "reported_by_event" \notin L, NEW E,
           \A e : e \in E <=> e \in PlainEdges(s) /\ e.kind \in L
    PROVE  LET H == Upsert(DeleteNodes(DeleteEdges(G, EdgesOfKinds(G, L)), StaleNodes(G, K, C)), C, E)
           IN  /\ Made(G, H, s)
               /\ \A e : e.kind \notin L /\ e.from.kind \notin K /\ e.to.kind \notin K =>
                    (e \in H.edges <=> e \in G.edges)
               /\ \A e : e.kind \in L => (e \in H.edges <=> e \in PlainEdges(s))
<1> DEFINE X == StaleNodes(G, K, C)
           D == DeleteEdges(G, EdgesOfKinds(G, L))
           F == DeleteNodes(D, X)
           H == Upsert(F, C, E)
<1>1. D.nodes = G.nodes /\ D.edges = G.edges \ EdgesOfKinds(G, L)
  BY DEF DeleteEdges, Graph
<1>2. /\ F.nodes = D.nodes \ X
      /\ \A e : e \in F.edges <=> e \in D.edges /\ e.from \notin X /\ e.to \notin X
      /\ Held(D) => Held(F)
  BY DeletedEdges
<1>3. H.nodes = F.nodes \cup C /\ H.edges = F.edges \cup E
  BY DEF Upsert, Graph
<1>4. \A n \in X : n.kind \in K
  BY DEF StaleNodes, NodesOfKinds
<1> HIDE DEF X, D, F, H
<1>5. Held(G) => Held(D)
  BY <1>1 DEF Held, EdgesOfKinds
<1>6. Held(F) => Held(H)
  BY <1>3 DEF Held, EdgesOfKinds
<1>7. /\ \A e : e.kind \notin L /\ e.from.kind \notin K /\ e.to.kind \notin K =>
            (e \in H.edges <=> e \in G.edges)
      /\ \A e : e.kind \in L => (e \in H.edges <=> e \in PlainEdges(s))
      /\ \A e \in H.edges : e \in G.edges \/ e \in PlainEdges(s)
  BY <1>1, <1>2, <1>3, <1>4 DEF EdgesOfKinds
<1> QED BY <1>2, <1>5, <1>6, <1>7 DEF Made, H, F, D, X

\* StorageReconciler and IdentitySecurityReconciler.
LEMMA CategoryEdges ==
    ASSUME NEW G, NEW s
    PROVE  /\ LET H == ApplyStorage(G, s)
              IN  /\ Made(G, H, s)
                  /\ \A e : e.kind \notin StorageEdgeKinds /\ e.from.kind \notin StorageKinds
                                /\ e.to.kind \notin StorageKinds => (e \in H.edges <=> e \in G.edges)
                  /\ \A e : e.kind \in StorageEdgeKinds => (e \in H.edges <=> e \in PlainEdges(s))
           /\ LET H == ApplyIdentitySecurity(G, s)
              IN  /\ Made(G, H, s)
                  /\ \A e : e.kind \notin IdentityEdgeKinds /\ e.from.kind \notin IdentityKinds
                                /\ e.to.kind \notin IdentityKinds => (e \in H.edges <=> e \in G.edges)
                  /\ \A e : e.kind \in IdentityEdgeKinds => (e \in H.edges <=> e \in PlainEdges(s))
<1>1. /\ "reported_by_event" \notin StorageEdgeKinds
      /\ \A e : e \in StorageEdges(s) <=> e \in PlainEdges(s) /\ e.kind \in StorageEdgeKinds
  BY CategoryEdgesStorage DEF StorageEdgeKinds
<1>2. /\ "reported_by_event" \notin IdentityEdgeKinds
      /\ \A e : e \in IdentityEdges(s) <=> e \in PlainEdges(s) /\ e.kind \in IdentityEdgeKinds
  BY CategoryEdgesIdentity DEF IdentityEdgeKinds
<1>3. LET H == ApplyStorage(G, s)
      IN  /\ Made(G, H, s)
          /\ \A e : e.kind \notin StorageEdgeKinds /\ e.from.kind \notin StorageKinds
                        /\ e.to.kind \notin StorageKinds => (e \in H.edges <=> e \in G.edges)
          /\ \A e : e.kind \in StorageEdgeKinds => (e \in H.edges <=> e \in PlainEdges(s))
  BY <1>1, ReloadEdges DEF ApplyStorage
<1>4. LET H == ApplyIdentitySecurity(G, s)
      IN  /\ Made(G, H, s)
          /\ \A e : e.kind \notin IdentityEdgeKinds /\ e.from.kind \notin IdentityKinds
                        /\ e.to.kind \notin IdentityKinds => (e \in H.edges <=> e \in G.edges)
          /\ \A e : e.kind \in IdentityEdgeKinds => (e \in H.edges <=> e \in PlainEdges(s))
  BY <1>2, ReloadEdges DEF ApplyIdentitySecurity
<1> QED BY <1>3, <1>4

\* Pruning images takes no edge away.
LEMMA PruneEdges ==
    ASSUME NEW G, NEW I
    PROVE  LET H == pruneImages(G, I)
           IN  /\ H.edges = G.edges
               /\ \A n : n.kind # "Image" => (n \in H.nodes <=> n \in G.nodes)
               /\ Held(G) => Held(H)
<1> DEFINE X == {i \in I : ~nodeReferenced(G, i) /\ i.kind = "Image"}
           H == pruneImages(G, I)
<1>1. /\ H.nodes = G.nodes \ X
      /\ \A e : e \in H.edges <=> e \in G.edges /\ e.from \notin X /\ e.to \notin X
      /\ Held(G) => Held(H)
  BY DeletedEdges DEF pruneImages
<1>2. H.edges \subseteq G.edges
  BY <1>1
<1>3. \A e \in G.edges : e.from \notin X /\ e.to \notin X
  BY DEF nodeReferenced
<1> QED BY <1>1, <1>2, <1>3

\* What a rebuild loads out of and into a pod is what the pod's own update loads.
LEMMA PodPlain ==
    ASSUME NEW s, NEW p \in OfKind(s, "Pod"), \A q \in OfKind(s, "Pod") : ID(q) = ID(p) => q = p, NEW e
    PROVE  e \in PlainEdges(s) /\ isPodScopedEdge(e, ID(p)) <=> e \in rebuildPodEdges(s, p)
<1>1. ASSUME e \in rebuildPodEdges(s, p)
      PROVE  e \in PlainEdges(s) /\ isPodScopedEdge(e, ID(p))
  <2>1. CASE e \in PodReferenceEdges(s, p)
    BY <2>1, PodPartsFit, PlainIsParts DEF PlainParts, isPodScopedEdge, PodSourceKinds
  <2>2. CASE e \in MountEdges(s, p)
    BY <2>2, PodPartsFit, PlainIsParts DEF PlainParts, isPodScopedEdge, PodSourceKinds
  <2>3. CASE e \in AccountEdges(s, p)
    BY <2>3, PodPartsFit, PlainIsParts DEF PlainParts, isPodScopedEdge, PodSourceKinds
  <2>4. CASE e \in OwnerEdges(s, p)
    BY <2>4, PodPartsFit, PlainIsParts DEF PlainParts, isPodScopedEdge, PodSourceKinds, PodTargetKinds
  <2>5. CASE e \in {[from |-> ID(v), kind |-> "selects_pod", to |-> ID(p)] : v \in SelectingServices(s, p)}
    <3>1. PICK v \in SelectingServices(s, p) : e = [from |-> ID(v), kind |-> "selects_pod", to |-> ID(p)]
      BY <2>5
    <3>2. v \in OfKind(s, "Service") /\ p \in SelectedPods(s, v)
      BY DEF SelectingServices, SelectedPods
    <3>3. e \in EdgesTo(ID(v), "selects_pod", IDs(SelectedPods(s, v)))
      BY <3>1, <3>2 DEF EdgesTo, IDs
    <3>4. e.kind = "selects_pod" /\ e.to = ID(p)
      BY <3>1
    <3> QED BY <3>2, <3>3, <3>4, SelectionEdges DEF isPodScopedEdge, PodTargetKinds
  <2> QED BY <1>1, <2>1, <2>2, <2>3, <2>4, <2>5 DEF rebuildPodEdges
<1>2. ASSUME e \in PlainEdges(s), isPodScopedEdge(e, ID(p))
      PROVE  e \in rebuildPodEdges(s, p)
  <2>1. PartsByKind(s, e)
    BY <1>2, PlainByKind
  <2>2. CASE e.kind \in PodSourceKinds /\ e.from = ID(p)
    <3>1. CASE /\ e.kind \in {"scheduled_on", "uses_image", "uses_config_map", "uses_secret"}
               /\ \E q \in OfKind(s, "Pod") : e.from = ID(q) /\ e \in PodReferenceEdges(s, q)
      BY <2>2, <3>1 DEF rebuildPodEdges
    <3>2. CASE e.kind = "managed_by" /\ \E q \in OfKind(s, "Pod") : e.from = ID(q) /\ e \in OwnerEdges(s, q)
      BY <2>2, <3>2 DEF rebuildPodEdges
    <3>3. CASE /\ e.kind = "uses_service_account"
               /\ \E q \in OfKind(s, "Pod") : e.from = ID(q) /\ e \in AccountEdges(s, q)
      BY <2>2, <3>3 DEF rebuildPodEdges
    <3>4. CASE e.kind = "mounts_pvc" /\ e \in StorageEdges(s)
      <4>1. PICK q \in OfKind(s, "Pod") : e \in MountEdges(s, q)
        <5>1. PlainParts(s, e)
          BY <1>2, PlainIsParts
        <5> QED BY <3>4, <5>1, StoragePartsFit, CSIPartsFit, PodPartsFit, ScopedPartsFit, InferredFit
                DEF PlainParts, ControllerRuleKinds
      <4>2. e.from = ID(q)
        BY <4>1, PodPartsFit
      <4> QED BY <2>2, <4>1, <4>2 DEF rebuildPodEdges
    <3>5. CASE /\ e.kind = "mounts_pvc"
               /\ \E q \in OfKind(s, "Pod") : e.from = ID(q) /\ e \in MountEdges(s, q)
      BY <2>2, <3>5 DEF rebuildPodEdges
    <3> QED BY <2>1, <2>2, <3>1, <3>2, <3>3, <3>4, <3>5
            DEF PartsByKind, PodSourceKinds, ControllerRuleKinds, StorageEdgeKinds
  <2>3. CASE e.kind \in PodTargetKinds /\ e.to = ID(p)
    <3>1. CASE e.kind = "owns_pod" /\ \E q \in OfKind(s, "Pod") : e.to = ID(q) /\ e \in OwnerEdges(s, q)
      BY <2>3, <3>1 DEF rebuildPodEdges
    <3>2. CASE e.kind = "selects_pod"
      <4>1. PICK v \in OfKind(s, "Service") : e \in EdgesTo(ID(v), "selects_pod", IDs(SelectedPods(s, v)))
        BY <1>2, <3>2, SelectionEdges
      <4>2. PICK q \in SelectedPods(s, v) : e = [from |-> ID(v), kind |-> "selects_pod", to |-> ID(q)]
        BY <4>1 DEF EdgesTo, IDs
      <4>3. q = p
        BY <2>3, <4>2 DEF SelectedPods
      <4>4. v \in SelectingServices(s, p)
        BY <4>3 DEF SelectedPods, SelectingServices
      <4> QED BY <4>2, <4>3, <4>4 DEF rebuildPodEdges
    <3> QED BY <2>1, <2>3, <3>1, <3>2 DEF PartsByKind, PodTargetKinds, ControllerRuleKinds, StorageEdgeKinds
  <2> QED BY <1>2, <2>2, <2>3 DEF isPodScopedEdge
<1> QED BY <1>1, <1>2

(* An edge that a pod of this namespace and name has as its own. *)
PodsOwn(e, ns, name) ==
    \/ e.kind \in PodSourceKinds /\ Bears(e.from, "Pod", ns, name)
    \/ e.kind \in PodTargetKinds /\ Bears(e.to, "Pod", ns, name)

\* PodReconciler decides anew on the pod's own edges.
LEMMA PodsEdges ==
    ASSUME NEW G, NEW s, NEW ns, NEW name, NEW change,
           \A x, y \in Named(s, "Pod", ns, {name}) : x = y
    PROVE  LET H == ApplyPod(G, s, ns, name, change)
           IN  /\ Made(G, H, s)
               /\ \A e : ~Bears(e.from, "Pod", ns, name) /\ ~Bears(e.to, "Pod", ns, name) =>
                    (e \in H.edges <=> e \in G.edges)
               /\ \A e : /\ PodsOwn(e, ns, name)
                         /\ \A n \in {e.from, e.to} : Bears(n, "Pod", ns, name) => n \in H.nodes /\ n \in IDs(s)
                         => (e \in H.edges <=> e \in PlainEdges(s))
<1> DEFINE found == Named(s, "Pod", ns, {name})
           H == ApplyPod(G, s, ns, name, change)
           held == NodesNamed(G, "Pod", ns, name)
<1>0. \A n \in held : Bears(n, "Pod", ns, name)
  BY DEF NodesNamed, Bears
<1>1. ASSUME NEW n, n \in IDs(s), Bears(n, "Pod", ns, name)
      PROVE  \E p \in found : n = ID(p)
  BY <1>1, ObjectID DEF IDs, Bears, Named, OfKind
<1>2. CASE change = "delete" \/ found = {}
  <2> DEFINE D == DeleteNodes(G, held)
  <2>1. H = pruneImages(D, UsedImages(G, held))
    BY <1>2 DEF ApplyPod
  <2>2. /\ D.nodes = G.nodes \ held
        /\ \A e : e \in D.edges <=> e \in G.edges /\ e.from \notin held /\ e.to \notin held
        /\ Held(G) => Held(D)
    BY DeletedEdges
  <2> HIDE DEF D
  <2>3. /\ H.edges = D.edges /\ (Held(D) => Held(H))
        /\ \A n : n.kind # "Image" => (n \in H.nodes <=> n \in D.nodes)
    BY <2>1, PruneEdges
  <2> HIDE DEF H
  <2>4. Made(G, H, s)
    BY <2>2, <2>3 DEF Made
  <2>5. ASSUME NEW n, Bears(n, "Pod", ns, name)
        PROVE  n \notin H.nodes
    BY <2>2, <2>3, <2>5 DEF NodesNamed, Bears
  <2>6. \A e : ~Bears(e.from, "Pod", ns, name) /\ ~Bears(e.to, "Pod", ns, name) =>
            (e \in H.edges <=> e \in G.edges)
    BY <1>0, <2>2, <2>3
  <2>7. ASSUME NEW e, PodsOwn(e, ns, name)
        PROVE  \E n \in {e.from, e.to} : Bears(n, "Pod", ns, name)
    BY <2>7 DEF PodsOwn
  <2> QED BY <2>4, <2>5, <2>6, <2>7 DEF H
<1>3. CASE change # "delete" /\ found # {}
  <2> DEFINE p == CHOOSE x \in found : TRUE
             others == OtherIncarnations(held, p)
             D == DeleteNodes(G, others)
             C == DeleteEdges(D, PodScopedEdges(G, ID(p)))
             U == Upsert(C, {ID(p)} \cup ImageIDs(p), rebuildPodEdges(s, p))
  <2>1. p \in found
    BY <1>3
  <2>2. H = pruneImages(U, UsedImages(G, held \cup {ID(p)}))
    BY <1>3 DEF ApplyPod
  <2>3. p \in OfKind(s, "Pod") /\ \A x \in found : x = p
    BY <2>1 DEF Named
  <2>4. Bears(ID(p), "Pod", ns, name)
    BY <2>1, ObjectID DEF Bears, Named, OfKind
  <2> HIDE DEF p
  <2>5. \A q \in OfKind(s, "Pod") : ID(q) = ID(p) => q = p
    BY <2>3, <2>4, ObjectID DEF Bears, Named, OfKind
  <2>6. \A n \in others : Bears(n, "Pod", ns, name) /\ n # ID(p)
    BY <1>0 DEF OtherIncarnations
  <2>7. \A e : e \in D.edges <=> e \in G.edges /\ e.from \notin others /\ e.to \notin others
    BY DeletedEdges
  <2>8. Held(G) => Held(D)
    BY DeletedEdges
  <2> HIDE DEF D, others
  <2>9. C.nodes = D.nodes /\ C.edges = D.edges \ PodScopedEdges(G, ID(p))
    BY DEF DeleteEdges, Graph
  <2> HIDE DEF C
  <2>10. U.nodes = C.nodes \cup {ID(p)} \cup ImageIDs(p) /\ U.edges = C.edges \cup rebuildPodEdges(s, p)
    BY DEF Upsert, Graph
  <2> HIDE DEF U
  <2>11. H.edges = U.edges /\ (Held(U) => Held(H))
    BY <2>2, PruneEdges
  <2> HIDE DEF H
  <2>12. \A e : e \in rebuildPodEdges(s, p) <=> e \in PlainEdges(s) /\ isPodScopedEdge(e, ID(p))
    BY <2>3, <2>5, PodPlain
  <2>13. Held(D) => Held(U)
    BY <2>9, <2>10, <2>12 DEF Held, EdgesOfKinds, isPodScopedEdge, PodSourceKinds, PodTargetKinds
  <2>14. Made(G, H, s)
    BY <2>7, <2>8, <2>9, <2>10, <2>11, <2>12, <2>13 DEF Made
  <2>15. ASSUME NEW e, ~Bears(e.from, "Pod", ns, name), ~Bears(e.to, "Pod", ns, name)
         PROVE  e \in H.edges <=> e \in G.edges
    <3>1. ~isPodScopedEdge(e, ID(p))
      BY <2>4, <2>15 DEF isPodScopedEdge
    <3>2. e.from \notin others /\ e.to \notin others
      BY <2>6, <2>15
    <3> QED BY <2>7, <2>9, <2>10, <2>11, <2>12, <3>1, <3>2 DEF PodScopedEdges
  <2>16. ASSUME NEW e, PodsOwn(e, ns, name),
                \A n \in {e.from, e.to} : Bears(n, "Pod", ns, name) => n \in IDs(s)
         PROVE  e \in H.edges <=> e \in PlainEdges(s)
    <3>1. \A n \in {e.from, e.to} : Bears(n, "Pod", ns, name) => n = ID(p)
      BY <1>1, <2>3, <2>16
    <3>2. isPodScopedEdge(e, ID(p))
      BY <2>16, <3>1 DEF PodsOwn, isPodScopedEdge
    <3> QED BY <2>7, <2>9, <2>10, <2>11, <2>12, <3>2 DEF PodScopedEdges
  <2> QED BY <2>14, <2>15, <2>16 DEF H
<1> QED BY <1>2, <1>3

\* An edge to the webhook that an event is blamed on.
LEMMA WebhookFits ==
    ASSUME NEW s, NEW W \in SUBSET Webhooks(s), NEW pick \in WebhookPicks(s, W),
           NEW ev \in FailedEvents(s), NEW w \in OfKind(s, "Workload"), NEW e \in WebhookEdge(pick, ev, w)
    PROVE  e.kind = "affected_by_webhook" /\ Fits(e)
<1>1. <<ev, w>> \in DOMAIN pick
  BY DEF WebhookEdge
<1>2. W # {}
  BY <1>1 DEF WebhookPicks
<1>3. pick[<<ev, w>>] \in Webhooks(s)
  BY <1>2 DEF WebhookPicks
<1>4. e = [from |-> ID(w), kind |-> "affected_by_webhook", to |-> ID(pick[<<ev, w>>])]
  BY <1>1 DEF WebhookEdge
<1>5. e.kind = "affected_by_webhook" /\ e.from.kind = "Workload" /\ e.to.kind = "WebhookConfig"
  <2>1. w.kind = "Workload" /\ pick[<<ev, w>>].kind = "WebhookConfig"
    BY <1>3 DEF OfKind, Webhooks
  <2> QED BY <1>4, <2>1, ObjectID
<1> QED BY <1>5 DEF Fits, Joined, ControllerRuleKinds

\* All of a snapshot.
LEMMA EvidenceFits ==
    ASSUME NEW s, NEW W \in SUBSET Webhooks(s), NEW pick \in WebhookPicks(s, W),
           NEW e \in WebhookEvidenceEdges(s, pick)
    PROVE  e.kind = "affected_by_webhook" /\ Fits(e)
<1>1. PICK ev \in FailedEvents(s) : \E w \in LastNamed(s, ev.ns, ev.involved.name) : e \in WebhookEdge(pick, ev, w)
  BY DEF WebhookEvidenceEdges
<1>2. PICK w \in LastNamed(s, ev.ns, ev.involved.name) : e \in WebhookEdge(pick, ev, w)
  BY <1>1
<1>3. w \in OfKind(s, "Workload")
  BY DEF LastNamed, Named
<1> QED BY <1>2, <1>3, WebhookFits

\* EventReconciler decides anew on what the event reports on, and on all that is
\* blamed on webhooks.
LEMMA EventEdges ==
    ASSUME NEW G, NEW s, NEW ns, NEW name, NEW change,
           NEW W \in SUBSET Webhooks(s), NEW pick \in WebhookPicks(s, W)
    PROVE  LET H == ApplyEvent(G, s, ns, name, change, pick)
           IN  /\ Made(G, H, s)
               /\ \A e : /\ e.kind # "affected_by_webhook"
                         /\ ~Bears(e.from, "Event", ns, name) /\ ~Bears(e.to, "Event", ns, name)
                         => (e \in H.edges <=> e \in G.edges)
               /\ Held(G) => \A e :
                    /\ e.kind = "reported_by_event" /\ Bears(e.from, "Event", ns, name)
                    /\ e.from \in H.nodes /\ e.from \in IDs(s)
                    => (e \in H.edges <=> e \in PlainEdges(s))
               /\ \A e : e.kind = "affected_by_webhook" =>
                    (e \in H.edges <=> e \in WebhookEvidenceEdges(s, pick))
<1> DEFINE found == Named(s, "Event", ns, {name})
           upserts == IF change = "delete" THEN {} ELSE found
           held == NodesNamed(G, "Event", ns, name)
           D == DeleteNodes(G, held)
           C == DeleteEdges(D, EdgesOfKinds(G, {"affected_by_webhook"}))
           R == UNION {EdgesTo(ID(ev), "reported_by_event", IDs(EventTargets(s, ev))) : ev \in upserts}
           B == WebhookEvidenceEdges(s, pick)
           H == ApplyEvent(G, s, ns, name, change, pick)
<1>1. H = Upsert(C, IDs(upserts), R \cup B)
  BY DEF ApplyEvent
<1>2. /\ D.nodes = G.nodes \ held
      /\ \A e : e \in D.edges <=> e \in G.edges /\ e.from \notin held /\ e.to \notin held
      /\ Held(G) => Held(D)
  BY DeletedEdges
<1>3. C.nodes = D.nodes /\ C.edges = D.edges \ EdgesOfKinds(G, {"affected_by_webhook"})
  BY DEF DeleteEdges, Graph
<1>4. H.nodes = C.nodes \cup IDs(upserts) /\ H.edges = C.edges \cup R \cup B
  BY <1>1 DEF Upsert, Graph
<1>5. \A n \in held : Bears(n, "Event", ns, name)
  BY DEF NodesNamed, Bears
<1>6. \A ev \in upserts : ev \in OfKind(s, "Event") /\ Bears(ID(ev), "Event", ns, name)
  BY ObjectID DEF Named, OfKind, Bears
<1>7. \A e \in B : e.kind = "affected_by_webhook" /\ Fits(e)
  BY EvidenceFits
<1>8. ASSUME NEW e \in R
      PROVE  /\ e \in PlainEdges(s) /\ e.kind = "reported_by_event"
             /\ e.from \in IDs(upserts) /\ Bears(e.from, "Event", ns, name)
  <2>1. PICK ev \in upserts : e \in EdgesTo(ID(ev), "reported_by_event", IDs(EventTargets(s, ev)))
    BY <1>8
  <2>2. e \in PlainEdges(s) /\ e.kind = "reported_by_event" /\ e.from = ID(ev)
    BY <1>6, <2>1, ReportEdges, ScopedPartsFit
  <2> QED BY <1>6, <2>2 DEF IDs
<1>9. ASSUME NEW e, e \in PlainEdges(s), e.kind = "reported_by_event", Bears(e.from, "Event", ns, name),
             change # "delete"
      PROVE  e \in R
  <2>1. PICK ev \in OfKind(s, "Event") : e \in EdgesTo(ID(ev), "reported_by_event", IDs(EventTargets(s, ev)))
    BY <1>9, ReportEdges
  <2>2. e.from = ID(ev)
    BY <2>1, ScopedPartsFit
  <2>3. ev \in upserts
    BY <1>9, <2>2, ObjectID DEF Bears, Named, OfKind
  <2> QED BY <2>1, <2>3
<1> HIDE DEF H, C, D, R, B
<1>10. Held(G) => Held(H)
  BY <1>2, <1>3, <1>4, <1>7, <1>8 DEF Held, EdgesOfKinds
<1>11. Made(G, H, s)
  BY <1>2, <1>3, <1>4, <1>7, <1>8, <1>10 DEF Made
<1>12. \A e : /\ e.kind # "affected_by_webhook"
              /\ ~Bears(e.from, "Event", ns, name) /\ ~Bears(e.to, "Event", ns, name)
              => (e \in H.edges <=> e \in G.edges)
  BY <1>2, <1>3, <1>4, <1>5, <1>7, <1>8 DEF EdgesOfKinds
<1>13. ASSUME Held(G), NEW e, e.kind = "reported_by_event", Bears(e.from, "Event", ns, name),
              e.from \in H.nodes
       PROVE  e \in H.edges <=> e \in PlainEdges(s)
  <2>1. e \notin C.edges
    BY <1>2, <1>3, <1>13 DEF Held, EdgesOfKinds, NodesNamed, Bears
  <2>2. e.from \in IDs(upserts)
    BY <1>2, <1>3, <1>4, <1>13 DEF NodesNamed, Bears
  <2>3. change # "delete"
    BY <2>2 DEF IDs
  <2> QED BY <1>4, <1>7, <1>8, <1>9, <1>13, <2>1, <2>3
<1>14. \A e : e.kind = "affected_by_webhook" => (e \in H.edges <=> e \in B)
  BY <1>2, <1>3, <1>4, <1>8 DEF EdgesOfKinds
<1> QED BY <1>11, <1>12, <1>13, <1>14 DEF H, B

\* WorkloadReconciler touches edges of owners, events and webhooks alone, but for those
\* of the nodes it deletes.
LEMMA WorkloadEdges ==
    ASSUME NEW G, NEW s, NEW ns, NEW name, NEW change,
           NEW W \in SUBSET Webhooks(s), NEW pick \in WebhookPicks(s, W)
    PROVE  LET H == ApplyWorkload(G, s, ns, name, change, pick)
           IN  /\ Made(G, H, s)
               /\ \A e : /\ e.kind \notin OwnerKinds \cup {"reported_by_event", "affected_by_webhook"}
                         /\ ~Bears(e.from, "Workload", ns, name) /\ ~Bears(e.to, "Workload", ns, name)
                         => (e \in H.edges <=> e \in G.edges)
<1> DEFINE found == Named(s, "Workload", ns, {name})
           T == IF change = "delete" THEN {} ELSE found
           gone == NodesNamed(G, "Workload", ns, name) \ IDs(T)
           C == DeleteNodes(G, gone)
           scoped == {e \in C.edges : \E id \in IDs(T) : isWorkloadScopedEdge(e, id)}
           E == rebuildWorkloadEdges(C, s, T, pick)
           H == ApplyWorkload(G, s, ns, name, change, pick)
<1>1. /\ C.nodes = G.nodes \ gone
      /\ \A e : e \in C.edges <=> e \in G.edges /\ e.from \notin gone /\ e.to \notin gone
      /\ Held(G) => Held(C)
  <2> HIDE DEF gone
  <2> QED BY DeletedEdges
<1>2. \A n \in gone : Bears(n, "Workload", ns, name)
  BY DEF NodesNamed, Bears
<1>3. T \in SUBSET OfKind(s, "Workload") /\ T \subseteq s
  BY DEF Named, OfKind
<1>4. \A e \in scoped : e.kind \in OwnerKinds \cup {"reported_by_event", "affected_by_webhook"}
  BY DEF isWorkloadScopedEdge, OwnerKinds
<1>5. \/ H = C
      \/ H = Upsert(DeleteEdges(C, scoped), IDs(T), E)
  BY DEF ApplyWorkload
<1> HIDE DEF C, T, gone
<1>6. ASSUME NEW e \in E
      PROVE  /\ e.kind \in OwnerKinds \cup {"reported_by_event", "affected_by_webhook"}
             /\ e \in PlainEdges(s) \/ (e.kind = "affected_by_webhook" /\ Fits(e))
             /\ e.kind = "reported_by_event" => e.from \in C.nodes
  <2>1. CASE \E p \in OfKind(s, "Pod") : e \in OwnerEdges(s, p)
    BY <2>1, PodPartsFit, PlainIsParts DEF PlainParts, OwnerKinds
  <2>2. CASE \E w \in OfKind(s, "Workload") : e \in ControlledByEdges(s, w)
    BY <2>2, ScopedPartsFit, PlainIsParts DEF PlainParts, OwnerKinds
  <2>3. CASE \E ev \in OfKind(s, "Event") :
                ID(ev) \in C.nodes /\ e \in EdgesTo(ID(ev), "reported_by_event", IDs(EventTargets(T, ev)))
    <3>1. PICK ev \in OfKind(s, "Event") :
                ID(ev) \in C.nodes /\ e \in EdgesTo(ID(ev), "reported_by_event", IDs(EventTargets(T, ev)))
      BY <2>3
    <3>2. e \in EdgesTo(ID(ev), "reported_by_event", IDs(EventTargets(s, ev)))
      BY <1>3, <3>1 DEF EventTargets, EdgesTo, IDs
    <3> QED BY <3>1, <3>2, ScopedPartsFit, ReportEdges
  <2>4. CASE \E ev \in FailedEvents(s) : \E w \in Named(T, "Workload", ev.ns, {ev.involved.name}) :
                e \in WebhookEdge(pick, ev, w)
    <3>1. PICK ev \in FailedEvents(s) : \E w \in Named(T, "Workload", ev.ns, {ev.involved.name}) :
                e \in WebhookEdge(pick, ev, w)
      BY <2>4
    <3>2. PICK w \in Named(T, "Workload", ev.ns, {ev.involved.name}) : e \in WebhookEdge(pick, ev, w)
      BY <3>1
    <3>3. w \in OfKind(s, "Workload")
      BY <1>3 DEF Named, OfKind
    <3> QED BY <3>2, <3>3, WebhookFits
  <2> QED BY <2>1, <2>2, <2>3, <2>4 DEF rebuildWorkloadEdges
<1>7. CASE H = C
  <2> HIDE DEF H
  <2> QED BY <1>1, <1>2, <1>7 DEF Made, H
<1>8. CASE H = Upsert(DeleteEdges(C, scoped), IDs(T), E)
  <2>1. H.nodes = C.nodes \cup IDs(T) /\ H.edges = (C.edges \ scoped) \cup E
    BY <1>8 DEF Upsert, DeleteEdges, Graph
  <2> HIDE DEF H, E, scoped
  <2>2. Held(C) => Held(H)
    BY <1>6, <2>1 DEF Held, EdgesOfKinds
  <2>3. Made(G, H, s)
    BY <1>1, <1>6, <2>1, <2>2 DEF Made
  <2> QED BY <1>1, <1>2, <1>4, <1>6, <2>1, <2>3 DEF H
<1> QED BY <1>5, <1>7, <1>8

-----------------------------------------------------------------------------
(* The edges on which the update for an event decides anew. *)
Reloads(ev, e) ==
    \/ ev.kind = "service" /\ e.kind = "selects_pod" /\ Names(ev, e.from)
    \/ ev.kind = "pod" /\ e.kind \in PodSourceKinds /\ Names(ev, e.from)
    \/ ev.kind = "pod" /\ e.kind \in PodTargetKinds /\ Names(ev, e.to)
    \/ ev.kind = "event" /\ e.kind = "reported_by_event" /\ Names(ev, e.from)
    \/ ev.kind = "storage" /\ e.kind \in StorageEdgeKinds
    \/ ev.kind = "identity/security" /\ e.kind \in IdentityEdgeKinds
    \/ ev.kind \in {"pod", "workload"} /\ e.kind \in ControllerRuleKinds

(* The ends that a scoped update could delete are there, in H and in s. *)
Present(H, s, e) == \A n \in {e.from, e.to} : n.kind \in ScopedKinds => n \in H.nodes /\ n \in IDs(s)

\* What an event names.
LEMMA NamesBears ==
    ASSUME NEW ev, NEW n
    PROVE  /\ ev.kind = "pod" => (Names(ev, n) <=> Bears(n, "Pod", ev.ns, ev.name))
           /\ ev.kind = "service" => (Names(ev, n) <=> Bears(n, "Service", ev.ns, ev.name))
           /\ ev.kind = "event" => (Names(ev, n) <=> Bears(n, "Event", ev.ns, ev.name))
           /\ ev.kind = "workload" /\ Bears(n, "Workload", ev.ns, ev.name) => Names(ev, n)
           /\ ev.kind = "storage" => (Names(ev, n) <=> n.kind \in StorageKinds)
           /\ ev.kind = "identity/security" => (Names(ev, n) <=> n.kind \in IdentityKinds)
BY KindOfEvent DEF Names, Bears, ScopedKinds, StorageKinds, IdentityKinds

\* One update after another.
LEMMA MadeTwice ==
    ASSUME NEW G, NEW M, NEW H, NEW s, Made(G, M, s), Made(M, H, s)
    PROVE  Made(G, H, s)
BY DEF Made

\* An update leaves alone the edges that its event does not affect, and decides anew
\* on the ones it reloads.
LEMMA NarrowEdges ==
    ASSUME IInv, NEW ev \in ChangeEvent, NEW pick \in WebhookPicks(collected, Candidates(ev, collected))
    PROVE  LET H == NarrowApply(ev, collected, pick)
           IN  /\ Made(g, H, collected)
               /\ \A e : /\ ~Affects(ev, e)
                         /\ ev.kind \in {"event", "workload"} => e.kind # "affected_by_webhook"
                         => (e \in H.edges <=> e \in g.edges)
               /\ Held(g) => \A e : Reloads(ev, e) /\ Present(H, collected, e) =>
                    (e \in H.edges <=> e \in PlainEdges(collected))
               /\ ev.kind = "event" => \A e : e.kind = "affected_by_webhook" =>
                    (e \in H.edges <=> e \in WebhookEvidenceEdges(collected, pick))
<1> DEFINE s == collected
           H == NarrowApply(ev, s, pick)
           W == Candidates(ev, s)
           Leaves == \A e : /\ ~Affects(ev, e)
                            /\ ev.kind \in {"event", "workload"} => e.kind # "affected_by_webhook"
                            => (e \in H.edges <=> e \in g.edges)
           Renews == \A e : Reloads(ev, e) /\ Present(H, s, e) => (e \in H.edges <=> e \in PlainEdges(s))
           Blames == \A e : e.kind = "affected_by_webhook" =>
                        (e \in H.edges <=> e \in WebhookEvidenceEdges(s, pick))
<1>0. \A ns, name : \A K \in {"Pod", "Service", "Event"} : \A x, y \in Named(s, K, ns, {name}) : x = y
  BY SnapshotFacts
<1>1. W \in SUBSET Webhooks(s) /\ pick \in WebhookPicks(s, W)
  BY DEF Candidates, KnownWebhooks
<1> SUFFICES Made(g, H, s) /\ Leaves /\ (Held(g) => Renews) /\ (ev.kind = "event" => Blames)
  OBVIOUS
<1>2. CASE ev.kind = "service"
  <2>1. H = ApplyService(g, s, ev.ns, ev.name, ev.change)
    BY <1>2, Zenon DEF NarrowApply
  <2> HIDE DEF s
  <2>2. /\ Made(g, H, s)
        /\ \A e : ~Bears(e.from, "Service", ev.ns, ev.name) /\ ~Bears(e.to, "Service", ev.ns, ev.name) =>
              (e \in H.edges <=> e \in g.edges)
        /\ \A e : /\ e.kind = "selects_pod" /\ Bears(e.from, "Service", ev.ns, ev.name)
                  /\ e.from \in H.nodes /\ e.from \in IDs(s)
                  => (e \in H.edges <=> e \in PlainEdges(s))
    BY <1>0, <2>1, ServiceEdges
  <2> HIDE DEF H
  <2>3. Leaves
    BY <1>2, <2>2, NamesBears DEF Affects
  <2>4. Renews
    BY <1>2, <2>2, NamesBears DEF Reloads, Present, Bears, ScopedKinds
  <2> QED BY <1>2, <2>2, <2>3, <2>4
<1>3. CASE ev.kind = "event"
  <2>1. H = ApplyEvent(g, s, ev.ns, ev.name, ev.change, pick)
    BY <1>3, Zenon DEF NarrowApply
  <2> HIDE DEF s
  <2>2. /\ Made(g, H, s)
        /\ \A e : /\ e.kind # "affected_by_webhook"
                  /\ ~Bears(e.from, "Event", ev.ns, ev.name) /\ ~Bears(e.to, "Event", ev.ns, ev.name)
                  => (e \in H.edges <=> e \in g.edges)
        /\ Held(g) => \A e :
              /\ e.kind = "reported_by_event" /\ Bears(e.from, "Event", ev.ns, ev.name)
              /\ e.from \in H.nodes /\ e.from \in IDs(s)
              => (e \in H.edges <=> e \in PlainEdges(s))
        /\ \A e : e.kind = "affected_by_webhook" => (e \in H.edges <=> e \in WebhookEvidenceEdges(s, pick))
    BY <1>1, <2>1, EventEdges
  <2> HIDE DEF H
  <2>3. Leaves
    BY <1>3, <2>2, NamesBears DEF Affects
  <2>4. Held(g) => Renews
    BY <1>3, <2>2, NamesBears DEF Reloads, Present, Bears, ScopedKinds
  <2> QED BY <2>2, <2>3, <2>4
<1>4. CASE ev.kind = "storage"
  <2>1. H = ApplyStorage(g, s)
    BY <1>4, Zenon DEF NarrowApply
  <2> HIDE DEF s
  <2>2. /\ Made(g, H, s)
        /\ \A e : e.kind \notin StorageEdgeKinds /\ e.from.kind \notin StorageKinds
                      /\ e.to.kind \notin StorageKinds => (e \in H.edges <=> e \in g.edges)
        /\ \A e : e.kind \in StorageEdgeKinds => (e \in H.edges <=> e \in PlainEdges(s))
    BY <2>1, CategoryEdges
  <2> HIDE DEF H
  <2>3. Leaves
    BY <1>4, <2>2, NamesBears DEF Affects
  <2>4. Renews
    BY <1>4, <2>2 DEF Reloads
  <2> QED BY <1>4, <2>2, <2>3, <2>4
<1>5. CASE ev.kind = "identity/security"
  <2>1. H = ApplyIdentitySecurity(g, s)
    BY <1>5, Zenon DEF NarrowApply
  <2> HIDE DEF s
  <2>2. /\ Made(g, H, s)
        /\ \A e : e.kind \notin IdentityEdgeKinds /\ e.from.kind \notin IdentityKinds
                      /\ e.to.kind \notin IdentityKinds => (e \in H.edges <=> e \in g.edges)
        /\ \A e : e.kind \in IdentityEdgeKinds => (e \in H.edges <=> e \in PlainEdges(s))
    BY <2>1, CategoryEdges
  <2> HIDE DEF H
  <2>3. Leaves
    BY <1>5, <2>2, NamesBears DEF Affects
  <2>4. Renews
    BY <1>5, <2>2 DEF Reloads
  <2> QED BY <1>5, <2>2, <2>3, <2>4
<1>6. CASE ev.kind = "pod"
  <2> DEFINE M == ApplyPod(g, s, ev.ns, ev.name, ev.change)
  <2>1. H = ApplyWorkloadControllerRules(M, s)
    BY <1>6, Zenon DEF NarrowApply
  <2> HIDE DEF s
  <2>2. /\ Made(g, M, s)
        /\ \A e : ~Bears(e.from, "Pod", ev.ns, ev.name) /\ ~Bears(e.to, "Pod", ev.ns, ev.name) =>
              (e \in M.edges <=> e \in g.edges)
        /\ \A e : /\ PodsOwn(e, ev.ns, ev.name)
                  /\ \A n \in {e.from, e.to} :
                        Bears(n, "Pod", ev.ns, ev.name) => n \in M.nodes /\ n \in IDs(s)
                  => (e \in M.edges <=> e \in PlainEdges(s))
    BY <1>0, PodsEdges
  <2> HIDE DEF M
  <2>3. /\ Made(M, H, s) /\ H.nodes = M.nodes
        /\ \A e : e.kind \notin ControllerRuleKinds => (e \in H.edges <=> e \in M.edges)
        /\ \A e : e.kind \in ControllerRuleKinds => (e \in H.edges <=> e \in PlainEdges(s))
    BY <2>1, RulesEdges
  <2> HIDE DEF H
  <2>4. Made(g, H, s)
    BY <2>2, <2>3, MadeTwice
  <2>5. Leaves
    BY <1>6, <2>2, <2>3, NamesBears DEF Affects
  <2>6. ASSUME NEW e, Reloads(ev, e), Present(H, s, e)
        PROVE  e \in H.edges <=> e \in PlainEdges(s)
    <3>1. CASE e.kind \in ControllerRuleKinds
      BY <2>3, <3>1
    <3>2. CASE e.kind \notin ControllerRuleKinds
      <4>1. PodsOwn(e, ev.ns, ev.name)
        BY <1>6, <2>6, <3>2, NamesBears DEF Reloads, PodsOwn
      <4>2. \A n \in {e.from, e.to} : Bears(n, "Pod", ev.ns, ev.name) => n \in M.nodes /\ n \in IDs(s)
        BY <2>3, <2>6 DEF Present, Bears, ScopedKinds
      <4> QED BY <2>2, <2>3, <3>2, <4>1, <4>2
    <3> QED BY <3>1, <3>2
  <2> QED BY <1>6, <2>4, <2>5, <2>6
<1>7. CASE ev.kind = "workload"
  <2> DEFINE M == ApplyWorkload(g, s, ev.ns, ev.name, ev.change, pick)
  <2>1. H = ApplyWorkloadControllerRules(M, s)
    BY <1>7, Zenon DEF NarrowApply
  <2> HIDE DEF s
  <2>2. /\ Made(g, M, s)
        /\ \A e : /\ e.kind \notin OwnerKinds \cup {"reported_by_event", "affected_by_webhook"}
                  /\ ~Bears(e.from, "Workload", ev.ns, ev.name) /\ ~Bears(e.to, "Workload", ev.ns, ev.name)
                  => (e \in M.edges <=> e \in g.edges)
    BY <1>1, WorkloadEdges
  <2> HIDE DEF M
  <2>3. /\ Made(M, H, s)
        /\ \A e : e.kind \notin ControllerRuleKinds => (e \in H.edges <=> e \in M.edges)
        /\ \A e : e.kind \in ControllerRuleKinds => (e \in H.edges <=> e \in PlainEdges(s))
    BY <2>1, RulesEdges
  <2> HIDE DEF H
  <2>4. Made(g, H, s)
    BY <2>2, <2>3, MadeTwice
  <2>5. Leaves
    BY <1>7, <2>2, <2>3, NamesBears DEF Affects
  <2>6. Renews
    BY <1>7, <2>3 DEF Reloads
  <2> QED BY <1>7, <2>4, <2>5, <2>6
<1> QED BY <1>2, <1>3, <1>4, <1>5, <1>6, <1>7 DEF ChangeEvent, ChangeKinds

-----------------------------------------------------------------------------
(* Edges of these kinds are reloaded by every event that affects them. *)
EventsReload(K) ==
    \A ev, e : \A t \in Templates :
        About(ev, t, ev.change) /\ WellMade(e) /\ e.kind \in K /\ Affects(ev, e) => Reloads(ev, e)

\* The kinds of events of the two ends of an edge.
LEMMA EndKinds ==
    ASSUME NEW ev, NEW n, Names(ev, n), ev.kind # ""
    PROVE  /\ n.kind \in WatchedKinds \cup {"ReplicaSet"}
           /\ n.kind = "Pod" => ev.kind = "pod"
           /\ n.kind = "Service" => ev.kind = "service"
           /\ n.kind = "Event" => ev.kind = "event"
           /\ n.kind = "Workload" => ev.kind = "workload"
           /\ n.kind \in StorageKinds => ev.kind = "storage"
           /\ n.kind \in IdentityKinds => ev.kind = "identity/security"
BY KindOfEvent DEF Names

\* The kinds of KeptEdgesMatchRebuild: an event that names an end of such an edge, or on
\* which it depends otherwise, has an update that decides anew on it.
LEMMA KeptReload ==
    ASSUME NEW ev, NEW e, ev.kind # "", Fits(e), e.kind \in KeptKinds, Affects(ev, e)
    PROVE  Reloads(ev, e)
<1>1. CASE Names(ev, e.from)
  <2>1. CASE e.kind \in {"scheduled_on", "uses_image", "uses_config_map", "uses_secret",
                         "uses_service_account", "mounts_pvc"}
    <3>1. e.from.kind = "Pod"
      BY <2>1 DEF Fits, Joined
    <3> QED BY <1>1, <2>1, <3>1, EndKinds DEF Reloads, PodSourceKinds
  <2>2. CASE e.kind = "selects_pod"
    <3>1. e.from.kind = "Service"
      BY <2>2 DEF Fits, Joined
    <3> QED BY <1>1, <2>2, <3>1, EndKinds DEF Reloads
  <2>3. CASE e.kind = "bound_by_role_binding"
    <3>1. e.from.kind \in IdentityKinds
      BY <2>3 DEF Fits, Joined, IdentityKinds
    <3> QED BY <1>1, <2>3, <3>1, EndKinds DEF Reloads, IdentityEdgeKinds
  <2>4. CASE e.kind \in {"bound_to_pv", "uses_storage_class", "provisioned_by_csi_driver"}
    <3>1. e.from.kind \in StorageKinds
      BY <2>4 DEF Fits, Joined, StorageKinds
    <3> QED BY <1>1, <2>4, <3>1, EndKinds DEF Reloads, StorageEdgeKinds
  <2>5. CASE e.kind \in ControllerRuleKinds
    <3>1. e.from.kind = "Workload"
      BY <2>5 DEF Fits, Joined
    <3> QED BY <1>1, <2>5, <3>1, EndKinds DEF Reloads
  <2> QED BY <2>1, <2>2, <2>3, <2>4, <2>5 DEF KeptKinds
<1>2. CASE Names(ev, e.to)
  <2>0. e.to.kind \in WatchedKinds \cup {"ReplicaSet"}
    BY <1>2, EndKinds
  <2>1. CASE e.kind \in {"scheduled_on", "uses_image", "uses_config_map", "uses_secret"}
    <3>1. e.to.kind \in {"Node", "Image", "ConfigMap", "Secret"}
      BY <2>1 DEF Fits, Joined
    <3> QED BY <2>0, <3>1 DEF WatchedKinds, ScopedKinds, StorageKinds, IdentityKinds
  <2>2. CASE e.kind \in {"uses_service_account", "bound_by_role_binding"}
    <3>1. e.to.kind \in IdentityKinds
      BY <2>2 DEF Fits, Joined, IdentityKinds
    <3> QED BY <1>2, <2>2, <3>1, EndKinds DEF Reloads, IdentityEdgeKinds
  <2>3. CASE e.kind \in {"mounts_pvc", "bound_to_pv", "uses_storage_class", "provisioned_by_csi_driver"}
    <3>1. e.to.kind \in StorageKinds
      BY <2>3 DEF Fits, Joined, StorageKinds
    <3> QED BY <1>2, <2>3, <3>1, EndKinds DEF Reloads, StorageEdgeKinds
  <2>4. CASE e.kind = "selects_pod"
    <3>1. e.to.kind = "Pod"
      BY <2>4 DEF Fits, Joined
    <3> QED BY <1>2, <2>4, <3>1, EndKinds DEF Reloads, PodTargetKinds
  <2>5. CASE e.kind \in ControllerRuleKinds
    <3>1. e.to.kind = "Pod"
      BY <2>5 DEF Fits, Joined
    <3> QED BY <1>2, <2>5, <3>1, EndKinds DEF Reloads
  <2> QED BY <2>1, <2>2, <2>3, <2>4, <2>5 DEF KeptKinds
<1>3. CASE ~Names(ev, e.from) /\ ~Names(ev, e.to)
  BY <1>3 DEF Affects, Reloads, KeptKinds, OwnerKinds, CSIKinds, ControllerRuleKinds
<1> QED BY <1>1, <1>2, <1>3

\* The other kinds too, in a cluster in which the rest stays as it is.
LEMMA RestReload ==
    ASSUME RestStays, NEW t \in Templates, NEW ev, About(ev, t, ev.change), t.kind # "ReplicaSet",
           NEW e, ev.kind # "", WellMade(e), e.kind \in PlainKinds \ KeptKinds, Affects(ev, e)
    PROVE  Reloads(ev, e)
<1>1. ev.kind = informerChangeKind(t) /\ ev.ns = t.ns /\ ev.name = t.name
  BY DEF About
<1>2. ev.kind # "workload"
  <2>1. t.kind # "Workload"
    BY DEF RestStays, OwnersStay
  <2> QED BY <1>1, <2>1, KindOfEvent
<1>3. ev.kind = "pod" => ~ServesCSI(ev.ns, ev.name) /\ ~MountsOnNode(ev.ns, ev.name)
  BY <1>1, KindOfEvent DEF RestStays, ComponentsStay
<1>4. CASE e.kind \in OwnerKinds
  <2>1. CASE e.kind = "managed_by"
    <3>1. e.from.kind = "Pod" /\ e.to.kind = "Workload"
      BY <2>1 DEF WellMade, Fits, Joined
    <3>2. Names(ev, e.from)
      BY <1>2, <2>1, <3>1, EndKinds
         DEF Affects, OwnerKinds, StorageEdgeKinds, IdentityEdgeKinds, ControllerRuleKinds, CSIKinds
    <3> QED BY <2>1, <3>1, <3>2, EndKinds DEF Reloads, PodSourceKinds
  <2>2. CASE e.kind = "owns_pod"
    <3>1. e.from.kind = "Workload" /\ e.to.kind = "Pod"
      BY <2>2 DEF WellMade, Fits, Joined
    <3>2. Names(ev, e.to)
      BY <1>2, <2>2, <3>1, EndKinds
         DEF Affects, OwnerKinds, StorageEdgeKinds, IdentityEdgeKinds, ControllerRuleKinds, CSIKinds
    <3> QED BY <2>2, <3>1, <3>2, EndKinds DEF Reloads, PodTargetKinds
  <2>3. CASE e.kind = "controlled_by"
    <3>1. e.from.kind = "Workload" /\ e.to.kind = "Workload"
      BY <2>3 DEF WellMade, Fits, Joined
    <3> QED BY <1>2, <2>3, <3>1, EndKinds
            DEF Affects, OwnerKinds, StorageEdgeKinds, IdentityEdgeKinds, ControllerRuleKinds, CSIKinds
  <2> QED BY <1>4, <2>1, <2>2, <2>3 DEF OwnerKinds
<1>5. CASE e.kind \in CSIKinds
  <2>1. e.from.kind \in StorageKinds /\ e.to.kind = "Pod" /\ ServesCSI(e.to.ns, e.to.name)
    BY <1>5 DEF WellMade, FitsRules, Fits, Joined, CSIKinds, StorageKinds
  <2>2. e.kind \in StorageEdgeKinds
    BY <1>5 DEF CSIKinds, StorageEdgeKinds
  <2>3. ~Names(ev, e.to)
    <3>1. ASSUME Names(ev, e.to)
          PROVE  ev.kind = "pod" /\ ev.ns = e.to.ns /\ ev.name = e.to.name
      BY <2>1, <3>1, EndKinds DEF Names, ScopedKinds
    <3> QED BY <1>3, <2>1, <3>1
  <2>4. ev.kind = "storage"
    <3>1. CASE Names(ev, e.from)
      BY <2>1, <3>1, EndKinds
    <3>2. CASE ~Names(ev, e.from)
      BY <1>2, <1>3, <1>5, <2>3, <3>2
         DEF Affects, OwnerKinds, CSIKinds, IdentityEdgeKinds, ControllerRuleKinds
    <3> QED BY <3>1, <3>2
  <2> QED BY <2>2, <2>4 DEF Reloads
<1>6. CASE e.kind = "reported_by_event"
  <2>1. e.from.kind = "Event"
    BY <1>6 DEF WellMade, Fits, Joined
  <2>2. ~Names(ev, e.to)
    <3>1. PICK r \in Templates \cup Initial, x \in Templates \cup Initial :
            r.kind = "Event" /\ x.src = r.involved.kind /\ x.kind = e.to.kind
      BY <1>6 DEF WellMade, FitsReports
    <3>2. informerChangeKind(x) # informerChangeKind(t)
      BY <3>1 DEF RestStays, ReportsStay
    <3>3. informerChangeKind(e.to) = informerChangeKind(x)
      BY <3>1, EventKindOf
    <3> QED BY <1>1, <3>2, <3>3 DEF Names
  <2>3. Names(ev, e.from)
    BY <1>2, <1>6, <2>2
       DEF Affects, StorageEdgeKinds, IdentityEdgeKinds, ControllerRuleKinds, CSIKinds
  <2> QED BY <1>6, <2>1, <2>3, EndKinds DEF Reloads
<1> QED BY <1>4, <1>5, <1>6 DEF PlainKinds

\* Both, of the events of the templates.
LEMMA TemplatesReload ==
    ASSUME ScopesDisjoint
    PROVE  EventsReload(KeptKinds) /\ (RestStays => EventsReload(PlainKinds))
<1>1. ASSUME NEW ev, NEW t \in Templates, About(ev, t, ev.change)
      PROVE  ev.kind # "" /\ t.kind # "ReplicaSet"
  BY <1>1 DEF About, ScopesDisjoint
<1>2. EventsReload(KeptKinds)
  BY <1>1, KeptReload DEF EventsReload, WellMade
<1>3. ASSUME RestStays
      PROVE  EventsReload(PlainKinds)
  <2> SUFFICES ASSUME NEW ev, NEW e, NEW t \in Templates, About(ev, t, ev.change), WellMade(e),
                      e.kind \in PlainKinds, Affects(ev, e)
               PROVE  Reloads(ev, e)
    BY DEF EventsReload
  <2>1. CASE e.kind \in KeptKinds
    BY <1>1, <2>1, KeptReload DEF WellMade
  <2>2. CASE e.kind \notin KeptKinds
    BY <1>1, <1>3, <2>2, RestReload
  <2> QED BY <2>1, <2>2
<1> QED BY <1>2, <1>3

-----------------------------------------------------------------------------
(* EdgesInv *)

\* The edges that a rebuild loads are well made,
LEMMA PlainWellMade ==
    ASSUME NEW s, \A o \in s : LikeTemplate(o), NEW e \in PlainEdges(s)
    PROVE  WellMade(e)
<1>1. Fits(e) /\ FitsRules(e)
  BY PlainByKind
<1>2. ASSUME e.kind = "reported_by_event"
      PROVE  \E ev, x \in Templates \cup Initial :
                ev.kind = "Event" /\ x.src = ev.involved.kind /\ x.kind = e.to.kind
  <2>1. PICK r \in OfKind(s, "Event") : e \in EdgesTo(ID(r), "reported_by_event", IDs(EventTargets(s, r)))
    BY <1>2, ReportEdges
  <2>2. PICK o \in EventTargets(s, r) : e = [from |-> ID(r), kind |-> "reported_by_event", to |-> ID(o)]
    BY <2>1 DEF EdgesTo, IDs
  <2>3. PICK ev \in Templates \cup Initial : ev.kind = "Event" /\ ev.involved.kind = r.involved.kind
    <3>1. LikeTemplate(r) /\ r.kind = "Event"
      BY DEF OfKind
    <3> QED BY <3>1 DEF LikeTemplate
  <2>4. PICK x \in Templates \cup Initial : x.src = o.src /\ x.kind = o.kind
    <3>1. LikeTemplate(o)
      BY DEF EventTargets
    <3> QED BY <3>1 DEF LikeTemplate
  <2>5. o.src = r.involved.kind /\ e.to.kind = o.kind
    BY <2>2, ObjectID DEF EventTargets
  <2> QED BY <2>3, <2>4, <2>5
<1>3. e.kind \in PlainKinds
  <2>1. PartsByKind(s, e)
    BY PlainByKind
  <2> QED
    BY <2>1 DEF PartsByKind, PlainKinds, KeptKinds, OwnerKinds, CSIKinds, ControllerRuleKinds, StorageEdgeKinds
<1> QED BY <1>1, <1>2, <1>3 DEF WellMade, FitsReports

\* and so are those to webhooks.
LEMMA WebhookWellMade ==
    ASSUME NEW e, e.kind = "affected_by_webhook", Fits(e)
    PROVE  WellMade(e)
BY DEF WellMade, FitsRules, FitsReports, CSIKinds

\* Some choice of webhooks can be made.
LEMMA PickExists ==
    ASSUME NEW s, NEW W
    PROVE  \E pick : pick \in WebhookPicks(s, W)
<1>1. CASE W = {}
  BY <1>1 DEF WebhookPicks
<1>2. CASE W # {}
  <2>1. PICK h : h \in W
    BY <1>2
  <2>2. [x \in FailedEvents(s) \X OfKind(s, "Workload") |-> h] \in WebhookPicks(s, W)
    BY <1>2, <2>1 DEF WebhookPicks
  <2> QED BY <2>2
<1> QED BY <1>1, <1>2

\* A graph built from a snapshot.
LEMMA BuiltEdges ==
    ASSUME NEW s, \A o \in s : LikeTemplate(o), NEW pick \in WebhookPicks(s, Webhooks(s))
    PROVE  LET G == Build(s, pick)
           IN  /\ \A e \in G.edges : WellMade(e)
               /\ Held(G)
               /\ \A e : e.kind # "affected_by_webhook" => (e \in G.edges <=> e \in PlainEdges(s))
               /\ \A e : e.kind = "affected_by_webhook" => (e \in G.edges <=> e \in WebhookEvidenceEdges(s, pick))
<1> DEFINE G == Build(s, pick)
<1>1. G.nodes = BuildNodes(s) /\ G.edges = BuildEdges(s, pick)
  BY DEF Build, Graph
<1>2. G.edges = PlainEdges(s) \cup WebhookEvidenceEdges(s, pick)
  BY <1>1 DEF BuildEdges
<1>3. \A e \in WebhookEvidenceEdges(s, pick) : e.kind = "affected_by_webhook" /\ Fits(e)
  BY EvidenceFits
<1>4. \A e \in PlainEdges(s) : WellMade(e) /\ e.kind # "affected_by_webhook"
  <2> SUFFICES ASSUME NEW e \in PlainEdges(s)
               PROVE  WellMade(e) /\ e.kind # "affected_by_webhook"
    OBVIOUS
  <2>1. WellMade(e)
    BY PlainWellMade
  <2>2. PartsByKind(s, e)
    BY PlainByKind
  <2> QED BY <2>1, <2>2 DEF PartsByKind, ControllerRuleKinds, StorageEdgeKinds
<1>5. \A e \in G.edges : e.from \in G.nodes
  BY <1>1, BuildClosed
<1> HIDE DEF G
<1>6. \A e \in G.edges : WellMade(e)
  BY <1>2, <1>3, <1>4, WebhookWellMade
<1> QED BY <1>2, <1>3, <1>4, <1>5, <1>6 DEF G, Held, EdgesOfKinds

\* NoEvent affects no edge.
LEMMA NoEventAffects ==
    ASSUME NEW e
    PROVE  ~Affects(NoEvent, e)
BY KindOfEvent DEF Affects, Names, NoEvent

\* EdgesInv when neither the cluster nor the graph nor the events change.
LEMMA SameEdges ==
    ASSUME NEW K, EdgesInv(K), UNCHANGED <<cluster, pending, current, g>>
    PROVE  EdgesInv(K)'
<1>1. ASSUME NEW e
      PROVE  Told(e)' <=> Told(e)
  BY DEF Told, Events
<1>2. EdgesInStep(K)'
  BY <1>1 DEF EdgesInv, EdgesInStep
<1>3. CurrentHasSource' /\ ReportsHeld'
  BY DEF EdgesInv, CurrentHasSource, ReportsHeld
<1> QED BY <1>2, <1>3 DEF EdgesInv

\* A change of the cluster keeps EdgesInv: its event affects what it may make differ.
LEMMA ChangeEdges ==
    ASSUME ScopesDisjoint, IInv, IInv', NEW K, EdgesInv(K),
           NEW o, NEW t, NEW change, Changed(o, t, change)
    PROVE  EdgesInv(K)'
<1> DEFINE ev == changeEventForInformerObject(o, change)
<1>1. /\ o.src \in Informers /\ pending' = [pending EXCEPT ![o.src] = Append(@, ev)]
      /\ About(ev, o, change)
  BY ChangeTold
<1>2. pending \in [Informers -> Seq(ChangeEvent)]
  BY DEF IInv, ObjectsInv
<1> HIDE DEF ev
<1>0. PICK k \in Informers : k = o.src
  BY <1>1
<1>3. /\ \A i \in Informers : \A j \in Events(i) : j \in Events(i)' /\ pending'[i][j] = pending[i][j]
      /\ \E j \in Events(k)' : pending'[k][j] = ev
  <2>1. pending' = [pending EXCEPT ![k] = Append(@, ev)]
    BY <1>1, <1>0
  <2> QED BY <1>2, <2>1, Enqueued
<1>4. UNCHANGED <<current, g>>
  BY DEF Changed
<1>5. ASSUME NEW e, Told(e)'
      PROVE  Told(e) /\ ~Affects(ev, e)
  BY <1>1, <1>3, <1>4, <1>5 DEF Told
<1>6. ASSUME NEW x \in (cluster \ cluster') \cup (cluster' \ cluster)
      PROVE  Key(x) = Key(o)
  <2>1. ID(x) = ID(o)
    BY DEF Changed
  <2>2. x.kind = o.kind /\ x.ns = o.ns /\ x.name = o.name
    BY <2>1, ObjectID
  <2> QED BY <2>2, EventKindOf DEF Key
<1>7. ASSUME NEW e, Told(e)'
      PROVE  Agree(cluster, cluster', e)
  <2>1. ~Affects(Key(o), e)
    BY <1>1, <1>5, <1>7, AffectsByKey
  <2> QED BY <1>6, <2>1 DEF Agree
<1>8. (\A x \in cluster : LikeTemplate(x)) /\ (\A x \in cluster' : LikeTemplate(x))
  BY DEF IInv, ObjectsInv
<1>9. ASSUME NEW e, Told(e)'
      PROVE  e \in PlainEdges(cluster) <=> e \in PlainEdges(cluster')
  <2>1. Agree(cluster, cluster', e) /\ Agree(cluster', cluster, e)
    BY <1>7, <1>9, AgreeBoth
  <2> QED BY <1>8, <2>1, Decided
<1>10. EdgesInStep(K)'
  <2> SUFFICES ASSUME NEW e, e \in g.edges \cup PlainEdges(cluster'), e.kind \in K, EndsIn(g, e), Told(e)'
               PROVE  e \in g.edges <=> e \in PlainEdges(cluster')
    BY <1>4 DEF EdgesInStep
  <2>1. Told(e) /\ (e \in PlainEdges(cluster) <=> e \in PlainEdges(cluster'))
    BY <1>5, <1>9
  <2> QED BY <2>1 DEF EdgesInv, EdgesInStep
<1>11. CurrentHasSource' /\ ReportsHeld'
  BY <1>4 DEF EdgesInv, CurrentHasSource, ReportsHeld
<1> QED BY <1>4, <1>10, <1>11 DEF EdgesInv

\* So does taking an event: it is still outstanding.
LEMMA TakeEdges ==
    ASSUME IInv, RebuildInv, NEW K, EdgesInv(K), NEW k \in Informers, TakeEvent(k)
    PROVE  EdgesInv(K)'
<1>1. /\ current = NoEvent /\ pending[k] # <<>> /\ current' = Head(pending[k])
      /\ pending' = [pending EXCEPT ![k] = Tail(@)] /\ UNCHANGED <<cluster, g>>
  BY DEF TakeEvent
<1>2. pending \in [Informers -> Seq(ChangeEvent)]
  BY DEF IInv, ObjectsInv
<1>3. /\ \A i \in Informers : i # k => pending'[i] = pending[i] /\ Events(i)' = Events(i)
      /\ 1 \in Events(k) /\ current' = pending[k][1]
      /\ \A j \in Events(k)' : j + 1 \in Events(k) /\ pending'[k][j] = pending[k][j + 1]
      /\ \A j \in Events(k) : j = 1 \/ j - 1 \in Events(k)'
      /\ \A i \in Informers : Events(i) \subseteq Nat
  BY <1>1, <1>2, Dequeued
<1>4. ASSUME NEW e, Told(e)'
      PROVE  Told(e)
  <2>1. ~Affects(current, e)
    BY <1>1, NoEventAffects
  <2>2. ASSUME NEW i \in Informers, NEW j \in Events(i)
        PROVE  ~Affects(pending[i][j], e)
    <3>1. CASE i # k
      BY <1>3, <1>4, <3>1 DEF Told
    <3>2. CASE i = k /\ j = 1
      BY <1>3, <1>4, <3>2 DEF Told
    <3>3. CASE i = k /\ j # 1
      <4>1. j - 1 \in Events(k)' /\ j \in Nat
        BY <1>3, <3>3
      <4>2. pending'[k][j - 1] = pending[k][j]
        BY <1>3, <4>1
      <4> QED BY <1>4, <3>3, <4>1, <4>2 DEF Told
    <3> QED BY <3>1, <3>2, <3>3
  <2> QED BY <2>1, <2>2 DEF Told
<1>5. EdgesInStep(K)'
  BY <1>1, <1>4 DEF EdgesInv, EdgesInStep
<1>6. CurrentHasSource'
  BY <1>3 DEF RebuildInv, EventsHaveSources, CurrentHasSource
<1>7. ReportsHeld'
  BY <1>1 DEF EdgesInv, ReportsHeld
<1> QED BY <1>1, <1>5, <1>6, <1>7 DEF EdgesInv

\* A complete snapshot and the cluster agree on an edge that no waiting event affects.
LEMMA SnapshotAgrees ==
    ASSUME ListsAreTold, current # NoEvent, todo = {}, NEW e,
           \A i \in Informers : \A j \in Events(i) : ~Affects(pending[i][j], e)
    PROVE  Agree(collected, cluster, e)
<1>1. ASSUME NEW o, NEW change, Waiting(o, change)
      PROVE  ~Affects(Key(o), e)
  BY <1>1, AffectsByKey DEF Waiting
<1>2. \A o \in cluster : o \in collected \/ Waiting(o, "upsert")
  BY SnapshotTold
<1>3. \A o \in collected : o \in cluster \/ Waiting(o, "delete") \/ Waiting(o, "upsert")
  BY DEF ListsAreTold
<1> QED BY <1>1, <1>2, <1>3 DEF Agree

\* A rebuild loads the edges anew.
LEMMA FullEdges ==
    ASSUME IInv, RebuildInv, NEW K, "affected_by_webhook" \notin K, EdgesInv(K), ApplyFull
    PROVE  EdgesInv(K)'
<1>1. PICK pick \in WebhookPicks(collected, Webhooks(collected)) : g' = Build(collected, pick)
  BY DEF ApplyFull
<1>2. /\ current # NoEvent /\ todo = {} /\ current' = NoEvent
      /\ UNCHANGED <<cluster, pending>>
  BY DEF ApplyFull, Done
<1>3. (\A o \in collected : LikeTemplate(o)) /\ (\A o \in cluster : LikeTemplate(o))
  BY DEF IInv, ObjectsInv
<1>4. /\ \A e \in g'.edges : WellMade(e)
      /\ Held(g')
      /\ \A e : e.kind # "affected_by_webhook" => (e \in g'.edges <=> e \in PlainEdges(collected))
  BY <1>1, <1>3, BuiltEdges
<1>5. EdgesInStep(K)'
  <2> SUFFICES ASSUME NEW e, e.kind \in K, Told(e)'
               PROVE  e \in g'.edges <=> e \in PlainEdges(cluster)
    BY <1>2 DEF EdgesInStep
  <2>1. \A i \in Informers : \A j \in Events(i) : ~Affects(pending[i][j], e)
    BY <1>2 DEF Told, Events
  <2>2. Agree(collected, cluster, e) /\ Agree(cluster, collected, e)
    BY <1>2, <2>1, SnapshotAgrees, AgreeBoth DEF RebuildInv
  <2>3. e \in PlainEdges(collected) <=> e \in PlainEdges(cluster)
    BY <1>3, <2>2, Decided
  <2> QED BY <1>4, <2>3
<1>6. CurrentHasSource' /\ ReportsHeld'
  BY <1>2, <1>4 DEF CurrentHasSource, ReportsHeld, Held
<1> QED BY <1>4, <1>5, <1>6 DEF EdgesInv

\* The ends of an edge that no event affects any more are live, and in the snapshot.
LEMMA EndsPresent ==
    ASSUME RebuildInv, RebuildInv', Done, current # NoEvent, todo = {},
           NEW e, Told(e)', EndsIn(g', e)
    PROVE  Present(g', collected, e)
<1> SUFFICES ASSUME NEW n \in {e.from, e.to}, n.kind \in ScopedKinds
             PROVE  n \in g'.nodes /\ n \in IDs(collected)
  BY DEF Present
<1>1. current' = NoEvent /\ UNCHANGED <<cluster, pending>>
  BY DEF Done
<1>2. n \in g'.nodes
  BY DEF EndsIn, ScopedKinds
<1>3. ASSUME NEW x, NEW change, Names(Key(x), n)
      PROVE  ~Waiting(x, change)
  <2>1. Affects(Key(x), e)
    BY <1>3 DEF Affects
  <2>2. \A i \in Informers : \A j \in Events(i) : ~Affects(pending[i][j], e)
    BY <1>1 DEF Told, Events
  <2> QED BY <2>1, <2>2, AffectsByKey DEF Waiting
<1>4. n \in IDs(cluster)
  <2>1. n \in IDs(cluster) \/ Outstanding(n, "delete")'
    BY <1>1, <1>2 DEF RebuildInv, NodesAreTold, NodesOfKinds
  <2>2. Outstanding(n, "delete")' => Waiting(n, "delete")
    BY DoneQueues
  <2>3. Names(Key(n), n)
    BY DEF Names, Key
  <2> QED BY <1>3, <2>1, <2>2, <2>3
<1>5. PICK o \in cluster : n = ID(o)
  BY <1>4 DEF IDs
<1>6. o \in collected
  <2>1. o \in collected \/ Waiting(o, "upsert")
    BY SnapshotTold DEF RebuildInv
  <2> QED BY <1>3, <1>5, <2>1, KeyNames
<1> QED BY <1>2, <1>5, <1>6 DEF IDs

\* The ends of an edge that the update does not affect were there before.
LEMMA EndsBefore ==
    ASSUME IInv, NEW ev \in ChangeEvent, NEW pick \in WebhookPicks(collected, Candidates(ev, collected)),
           NEW n \in NarrowApply(ev, collected, pick).nodes, n.kind # "Image", ~Names(ev, n)
    PROVE  n \in g.nodes
<1> DEFINE H == NarrowApply(ev, collected, pick)
<1>1. /\ \A x : x.kind \in ScopedKinds /\ ~Concerns(ev, x) => (x \in H.nodes <=> x \in g.nodes)
      /\ \A x : x.kind \notin WatchedKinds \cup {"Image"} => (x \in H.nodes <=> x \in g.nodes)
      /\ ev.kind # "storage" => NodesOfKinds(H, StorageKinds) = NodesOfKinds(g, StorageKinds)
      /\ ev.kind # "identity/security" => NodesOfKinds(H, IdentityKinds) = NodesOfKinds(g, IdentityKinds)
  BY NarrowNodes
<1> HIDE DEF H
<1>2. n \in H.nodes
  BY DEF H
<1>3. CASE n.kind \in ScopedKinds
  BY <1>1, <1>2, <1>3 DEF Names, Concerns
<1>4. CASE n.kind \in StorageKinds
  BY <1>1, <1>2, <1>4, NamesBears DEF NodesOfKinds
<1>5. CASE n.kind \in IdentityKinds
  BY <1>1, <1>2, <1>5, NamesBears DEF NodesOfKinds
<1>6. CASE n.kind \notin WatchedKinds
  BY <1>1, <1>2, <1>6
<1> QED BY <1>3, <1>4, <1>5, <1>6 DEF WatchedKinds

\* No edge of these kinds leaves an image.
LEMMA FromNoImage ==
    ASSUME NEW e, Fits(e), e.kind \in PlainKinds
    PROVE  e.from.kind # "Image"
BY DEF Fits, Joined, PlainKinds, KeptKinds, OwnerKinds, CSIKinds, ControllerRuleKinds

\* A scoped update decides anew on what its event affects, from a snapshot that agrees
\* with the cluster wherever no event that waits affects the edge.
LEMMA NarrowEdgesInv ==
    ASSUME IInv, RebuildInv, RebuildInv', NEW K \in SUBSET PlainKinds, EventsReload(K), EdgesInv(K),
           ApplyNarrow
    PROVE  EdgesInv(K)'
<1>1. PICK pick \in WebhookPicks(collected, Candidates(current, collected)) :
        g' = NarrowApply(current, collected, pick)
  BY DEF ApplyNarrow
<1>2. /\ current # NoEvent /\ todo = {} /\ Done /\ current' = NoEvent /\ current \in ChangeEvent
      /\ UNCHANGED <<cluster, pending>>
  BY DEF ApplyNarrow, Done, IInv, ObjectsInv
<1>3. (\A o \in collected : LikeTemplate(o)) /\ (\A o \in cluster : LikeTemplate(o))
  BY DEF IInv, ObjectsInv
<1>4. Held(g) /\ \A e \in g.edges : WellMade(e)
  BY DEF EdgesInv, ReportsHeld, Held
<1>5. /\ Made(g, g', collected)
      /\ \A e : /\ ~Affects(current, e)
                /\ current.kind \in {"event", "workload"} => e.kind # "affected_by_webhook"
                => (e \in g'.edges <=> e \in g.edges)
      /\ \A e : Reloads(current, e) /\ Present(g', collected, e) =>
            (e \in g'.edges <=> e \in PlainEdges(collected))
  BY <1>1, <1>2, <1>4, NarrowEdges
<1>6. \A e \in g'.edges : WellMade(e)
  BY <1>3, <1>4, <1>5, PlainWellMade, WebhookWellMade DEF Made
<1>7. PICK t \in Templates : About(current, t, current.change)
  BY <1>2 DEF EdgesInv, CurrentHasSource
<1>8. EdgesInStep(K)'
  <2> SUFFICES ASSUME NEW e, e \in g'.edges \cup PlainEdges(cluster), e.kind \in K, EndsIn(g', e), Told(e)'
               PROVE  e \in g'.edges <=> e \in PlainEdges(cluster)
    BY <1>2 DEF EdgesInStep
  <2>1. WellMade(e)
    BY <1>3, <1>6, PlainWellMade
  <2>2. \A i \in Informers : \A j \in Events(i) : ~Affects(pending[i][j], e)
    BY <1>2 DEF Told, Events
  <2>3. e \in PlainEdges(collected) <=> e \in PlainEdges(cluster)
    <3>1. Agree(collected, cluster, e) /\ Agree(cluster, collected, e)
      BY <1>2, <2>2, SnapshotAgrees, AgreeBoth DEF RebuildInv
    <3> QED BY <1>3, <3>1, Decided
  <2>4. CASE Affects(current, e)
    <3>1. Reloads(current, e)
      BY <1>7, <2>1, <2>4 DEF EventsReload
    <3>2. Present(g', collected, e)
      BY <1>2, EndsPresent
    <3> QED BY <1>5, <2>3, <3>1, <3>2
  <2>5. CASE ~Affects(current, e)
    <3>1. e.kind # "affected_by_webhook"
      BY DEF PlainKinds, KeptKinds, OwnerKinds, CSIKinds, ControllerRuleKinds
    <3>2. e \in g'.edges <=> e \in g.edges
      BY <1>5, <2>5, <3>1
    <3>3. Told(e)
      BY <2>2, <2>5 DEF Told
    <3>4. ~Names(current, e.from) /\ ~Names(current, e.to) /\ e.from.kind # "Image"
      BY <2>1, <2>5, FromNoImage DEF Affects, WellMade
    <3>5. EndsIn(g, e)
      <4>1. \A n \in g'.nodes : n.kind # "Image" /\ ~Names(current, n) => n \in g.nodes
        BY <1>1, <1>2, EndsBefore
      <4> QED BY <3>4, <4>1 DEF EndsIn
    <3> QED BY <3>2, <3>3, <3>5 DEF EdgesInv, EdgesInStep
  <2> QED BY <2>4, <2>5
<1>9. CurrentHasSource' /\ ReportsHeld'
  BY <1>2, <1>4, <1>5 DEF CurrentHasSource, ReportsHeld, Held, Made
<1> QED BY <1>6, <1>8, <1>9 DEF EdgesInv

-----------------------------------------------------------------------------
(* The edges at rest *)

\* EdgesInv holds of the bootstrap graph.
LEMMA InitEdges ==
    ASSUME Init, NEW K, "affected_by_webhook" \notin K
    PROVE  EdgesInv(K)
<1>1. PICK pick \in WebhookPicks(Initial, Webhooks(Initial)) : g = Build(Initial, pick)
  BY DEF Init
<1>2. cluster = Initial /\ current = NoEvent
  BY DEF Init
<1>3. \A o \in Initial : LikeTemplate(o)
  BY ObjectsAssumption DEF LikeTemplate
<1>4. /\ \A e \in g.edges : WellMade(e)
      /\ Held(g)
      /\ \A e : e.kind # "affected_by_webhook" => (e \in g.edges <=> e \in PlainEdges(Initial))
  BY <1>1, <1>3, BuiltEdges
<1> QED BY <1>2, <1>4 DEF EdgesInv, EdgesInStep, ReportsHeld, Held, CurrentHasSource

\* Every step keeps EdgesInv for kinds of edges that their events decide anew.
LEMMA NextEdges ==
    ASSUME ScopesDisjoint, IInv, IInv', RebuildInv, RebuildInv',
           NEW K \in SUBSET PlainKinds, EventsReload(K), EdgesInv(K), [Next]_vars
    PROVE  EdgesInv(K)'
<1>0. "affected_by_webhook" \notin K
  BY DEF PlainKinds, KeptKinds, OwnerKinds, CSIKinds, ControllerRuleKinds
<1>1. CASE Cluster
  <2>1. PICK o, t, change : Changed(o, t, change)
    BY <1>1, ClusterChanges
  <2> QED BY <2>1, ChangeEdges
<1>2. ASSUME NEW i \in Informers, TakeEvent(i) PROVE EdgesInv(K)'
  BY <1>2, TakeEdges
<1>3. CASE CollectList
  BY <1>3, SameEdges DEF CollectList, stream
<1>4. CASE CollectFail
  BY <1>4, SameEdges DEF CollectFail, stream
<1>5. CASE ApplyNarrow
  BY <1>5, NarrowEdgesInv
<1>6. CASE RejectNarrow
  BY <1>6, SameEdges DEF RejectNarrow, stream
<1>7. CASE ApplyFull
  BY <1>0, <1>7, FullEdges
<1>8. CASE UNCHANGED vars
  BY <1>8, SameEdges DEF vars, stream
<1> QED BY <1>1, <1>2, <1>3, <1>4, <1>5, <1>6, <1>7, <1>8 DEF Next, Manager

\* The ends of a rebuild's edges are nodes of the rebuild.
LEMMA PlainEnds ==
    ASSUME NEW s, NEW e \in PlainEdges(s)
    PROVE  e.from \in BuildNodes(s) /\ e.to \in BuildNodes(s)
<1>1. PICK pick : pick \in WebhookPicks(s, Webhooks(s))
  BY PickExists
<1>2. e \in BuildEdges(s, pick)
  BY DEF BuildEdges
<1> QED BY <1>1, <1>2, BuildClosed

\* With no event outstanding, EdgesInv makes the edges of these kinds those of a rebuild.
LEMMA QuietEdges ==
    ASSUME IInv, RebuildInv, NEW K, EdgesInv(K), Quiescent, NEW e, e.kind \in K
    PROVE  e \in LiveEdges(g) <=> e \in PlainEdges(cluster)
<1>1. g.nodes = BuildNodes(cluster)
  BY QuietNodes
<1>2. current = NoEvent /\ \A i \in Informers : Events(i) = {}
  BY DEF Quiescent, Events
<1>3. Told(e)
  BY <1>2, NoEventAffects DEF Told
<1>4. e \in PlainEdges(cluster) => e.from \in g.nodes /\ e.to \in g.nodes
  BY <1>1, PlainEnds
<1> QED BY <1>3, <1>4 DEF EdgesInv, EdgesInStep, EndsIn, LiveEdges

\* The edges of KeptKinds converge: once every event has been applied they are those a
\* rebuild would load, whatever the order in which events, lists and changes of the
\* cluster interleave.  It takes ScopesDisjoint and nothing more: workloads, the pods of
\* CSI components and what events report on may come and go.
THEOREM LiveKeptEdgesMatchRebuild ==
    ASSUME ScopesDisjoint
    PROVE  Spec => []KeptEdgesMatchRebuild
<1>0. KeptKinds \in SUBSET PlainKinds /\ "affected_by_webhook" \notin KeptKinds
  BY DEF PlainKinds, KeptKinds, ControllerRuleKinds
<1>1. Init => RebuildInv /\ EdgesInv(KeptKinds)
  BY <1>0, InitRebuild, InitEdges
<1>2. IInv /\ IInv' /\ RebuildInv /\ [Next]_vars => RebuildInv'
  BY NextRebuild
<1>3. IInv /\ IInv' /\ RebuildInv /\ RebuildInv' /\ EdgesInv(KeptKinds) /\ [Next]_vars
        => EdgesInv(KeptKinds)'
  BY <1>0, NextEdges, TemplatesReload
<1>4. IInv /\ RebuildInv /\ EdgesInv(KeptKinds) => KeptEdgesMatchRebuild
  <2> SUFFICES ASSUME IInv, RebuildInv, EdgesInv(KeptKinds), Quiescent
               PROVE  \A e : e.kind \in KeptKinds => (e \in LiveEdges(g) <=> e \in PlainEdges(cluster))
    BY DEF KeptEdgesMatchRebuild
  <2> QED BY QuietEdges
<1> QED BY <1>1, <1>2, <1>3, <1>4, LiveInvariant, PTL DEF Spec


-----------------------------------------------------------------------------
(* The edges to webhooks *)

EvidenceKinds == {"Event", "Workload", "WebhookConfig"}

\* What events are blamed on is decided from events, workloads and webhooks.
LEMMA SameEvidence ==
    ASSUME NEW s, NEW t, \A o : o.kind \in EvidenceKinds => (o \in s <=> o \in t)
    PROVE  /\ WebhookPicks(s, Webhooks(s)) = WebhookPicks(t, Webhooks(t))
           /\ \A pick : WebhookEvidenceEdges(s, pick) = WebhookEvidenceEdges(t, pick)
<1>1. /\ OfKind(s, "Event") = OfKind(t, "Event") /\ OfKind(s, "Workload") = OfKind(t, "Workload")
      /\ OfKind(s, "WebhookConfig") = OfKind(t, "WebhookConfig")
  BY DEF OfKind, EvidenceKinds
<1>2. FailedEvents(s) = FailedEvents(t) /\ Webhooks(s) = Webhooks(t)
  BY <1>1 DEF FailedEvents, Webhooks
<1>3. ASSUME NEW ns, NEW name
      PROVE  LastNamed(s, ns, name) = LastNamed(t, ns, name)
  <2>1. Named(s, "Workload", ns, {name}) = Named(t, "Workload", ns, {name})
    BY <1>1 DEF Named
  <2> QED BY <2>1 DEF LastNamed
<1>4. WebhookPicks(s, Webhooks(s)) = WebhookPicks(t, Webhooks(t))
  BY <1>1, <1>2 DEF WebhookPicks
<1>5. ASSUME NEW pick
      PROVE  WebhookEvidenceEdges(s, pick) = WebhookEvidenceEdges(t, pick)
  <2>1. \A e : e \in WebhookEvidenceEdges(s, pick) <=>
            \E ev \in FailedEvents(s) : \E w \in LastNamed(s, ev.ns, ev.involved.name) :
                e \in WebhookEdge(pick, ev, w)
    BY DEF WebhookEvidenceEdges
  <2>2. \A e : e \in WebhookEvidenceEdges(t, pick) <=>
            \E ev \in FailedEvents(t) : \E w \in LastNamed(t, ev.ns, ev.involved.name) :
                e \in WebhookEdge(pick, ev, w)
    BY DEF WebhookEvidenceEdges
  <2>3. \A e : e \in WebhookEvidenceEdges(s, pick) <=> e \in WebhookEvidenceEdges(t, pick)
    BY <1>2, <1>3, <2>1, <2>2
  <2> QED BY <2>3
<1> QED BY <1>4, <1>5

\* No event is about a workload when workloads stay.
LEMMA NoWorkloadEvents ==
    ASSUME ScopesDisjoint, OwnersStay, NEW ev, NEW t \in Templates, About(ev, t, ev.change)
    PROVE  ev.kind # "workload" /\ ev.kind # ""
BY KindOfEvent DEF ScopesDisjoint, OwnersStay, About

\* With no event of an event waiting, a complete snapshot and the cluster have the same
\* events, workloads and webhooks.
LEMMA SnapshotEvidence ==
    ASSUME ScopesDisjoint, OwnersStay, RebuildInv, current # NoEvent, todo = {},
           \A i \in Informers : \A j \in Events(i) : pending[i][j].kind # "event"
    PROVE  \A o : o.kind \in EvidenceKinds => (o \in collected <=> o \in cluster)
<1> SUFFICES ASSUME NEW o, o.kind \in EvidenceKinds
             PROVE  o \in collected <=> o \in cluster
  OBVIOUS
<1>1. informerChangeKind(o) \in {"event", "workload", ""}
  BY EventKindOf DEF EvidenceKinds, StorageKinds, IdentityKinds
<1>2. \A i \in Informers : \A j \in Events(i) : pending[i][j].kind # "workload" /\ pending[i][j].kind # ""
  BY NoWorkloadEvents DEF RebuildInv, EventsHaveSources
<1>3. \A i \in Informers : \A j \in Events(i) : pending[i][j].kind # informerChangeKind(o)
  BY <1>1, <1>2
<1> QED BY <1>3, SnapshotTold DEF RebuildInv

\* WebhooksInStep when the edges to webhooks are those of a complete snapshot.
LEMMA SnapshotWebhooks ==
    ASSUME ScopesDisjoint, OwnersStay, RebuildInv, current # NoEvent, todo = {}, Done,
           NEW pick \in WebhookPicks(collected, Webhooks(collected)),
           \A e : e.kind = "affected_by_webhook" => (e \in g'.edges <=> e \in WebhookEvidenceEdges(collected, pick))
    PROVE  WebhooksInStep'
<1> SUFFICES ASSUME NoneOutstanding("event")'
             PROVE  \E p \in WebhookPicks(cluster', Webhooks(cluster')) :
                        EdgesOfKinds(g', {"affected_by_webhook"}) = WebhookEvidenceEdges(cluster', p)
  BY DEF WebhooksInStep
<1>1. cluster' = cluster
  BY DEF Done
<1>2. \A i \in Informers : \A j \in Events(i) : pending[i][j].kind # "event"
  BY DoneQueues
<1>3. \A o : o.kind \in EvidenceKinds => (o \in collected <=> o \in cluster)
  BY <1>2, SnapshotEvidence
<1>4. pick \in WebhookPicks(cluster, Webhooks(cluster))
  BY <1>3, SameEvidence
<1>5. WebhookEvidenceEdges(collected, pick) = WebhookEvidenceEdges(cluster, pick)
  BY <1>3, SameEvidence
<1>6. \A e \in WebhookEvidenceEdges(collected, pick) : e.kind = "affected_by_webhook"
  BY EvidenceFits
<1>7. EdgesOfKinds(g', {"affected_by_webhook"}) = WebhookEvidenceEdges(cluster, pick)
  BY <1>5, <1>6 DEF EdgesOfKinds
<1> QED BY <1>1, <1>4, <1>7

\* Only events of workloads and events affect edges to webhooks.
LEMMA WebhookAffected ==
    ASSUME NEW ev, NEW e, e.kind = "affected_by_webhook", Fits(e), ev.kind # "workload", ev.kind # ""
    PROVE  ~Affects(ev, e)
<1>1. e.from.kind = "Workload" /\ e.to.kind = "WebhookConfig"
  BY DEF Fits, Joined
<1>2. informerChangeKind(e.from) = "workload" /\ informerChangeKind(e.to) = ""
  BY <1>1, KindOfEvent DEF WatchedKinds, ScopedKinds, StorageKinds, IdentityKinds
<1> QED BY <1>2 DEF Affects, Names, StorageEdgeKinds, IdentityEdgeKinds, ControllerRuleKinds, OwnerKinds, CSIKinds


\* WebhooksInStep holds of the bootstrap graph.
LEMMA InitWebhooks ==
    ASSUME Init
    PROVE  WebhooksInStep
<1>1. PICK pick \in WebhookPicks(Initial, Webhooks(Initial)) : g = Build(Initial, pick)
  BY DEF Init
<1>2. \A o \in Initial : LikeTemplate(o)
  BY ObjectsAssumption DEF LikeTemplate
<1>3. \A e : e.kind = "affected_by_webhook" => (e \in g.edges <=> e \in WebhookEvidenceEdges(Initial, pick))
  BY <1>1, <1>2, BuiltEdges
<1>4. \A e \in WebhookEvidenceEdges(Initial, pick) : e.kind = "affected_by_webhook"
  BY EvidenceFits
<1>5. EdgesOfKinds(g, {"affected_by_webhook"}) = WebhookEvidenceEdges(Initial, pick)
  BY <1>3, <1>4 DEF EdgesOfKinds
<1> QED BY <1>1, <1>5 DEF Init, WebhooksInStep

\* A change of the cluster keeps WebhooksInStep: it is told, or changes neither events
\* nor workloads nor webhooks.
LEMMA ChangeWebhooks ==
    ASSUME ScopesDisjoint, OwnersStay, IInv, WebhooksInStep,
           NEW o, NEW t, NEW change, Changed(o, t, change)
    PROVE  WebhooksInStep'
<1> SUFFICES ASSUME NoneOutstanding("event")'
             PROVE  \E p \in WebhookPicks(cluster', Webhooks(cluster')) :
                        EdgesOfKinds(g', {"affected_by_webhook"}) = WebhookEvidenceEdges(cluster', p)
  BY DEF WebhooksInStep
<1> DEFINE ev == changeEventForInformerObject(o, change)
<1>1. /\ o.src \in Informers /\ pending' = [pending EXCEPT ![o.src] = Append(@, ev)]
      /\ ev.kind = informerChangeKind(o) /\ ev.change = change /\ About(ev, t, change)
  BY ChangeTold
<1>2. pending \in [Informers -> Seq(ChangeEvent)] /\ current' = current /\ g' = g /\ t \in Templates
  BY DEF IInv, ObjectsInv, Changed
<1> HIDE DEF ev
<1>3. PICK k \in Informers : k = o.src
  BY <1>1
<1>4. /\ \A i \in Informers : \A j \in Events(i) : j \in Events(i)' /\ pending'[i][j] = pending[i][j]
      /\ \E j \in Events(k)' : pending'[k][j] = ev
  <2>1. pending' = [pending EXCEPT ![k] = Append(@, ev)]
    BY <1>1, <1>3
  <2> QED BY <1>2, <2>1, Enqueued
<1>5. NoneOutstanding("event") /\ ev.kind # "event"
  BY <1>2, <1>4 DEF NoneOutstanding
<1>6. ev.kind # "workload" /\ ev.kind # ""
  BY <1>1, <1>2, NoWorkloadEvents
<1>7. o.kind \notin EvidenceKinds
  BY <1>1, <1>5, <1>6, KindOfEvent DEF EvidenceKinds, WatchedKinds, ScopedKinds, StorageKinds, IdentityKinds
<1>8. \A x : x.kind \in EvidenceKinds => (x \in cluster' <=> x \in cluster)
  <2>1. \A x \in cluster' : x \in cluster \/ x.kind = o.kind
    BY DEF Changed
  <2>2. \A x \in cluster : x \in cluster' \/ x.kind = o.kind
    BY ObjectID DEF Changed
  <2> QED BY <1>7, <2>1, <2>2
<1>9. WebhookPicks(cluster', Webhooks(cluster')) = WebhookPicks(cluster, Webhooks(cluster))
  BY <1>8, SameEvidence
<1>10. \A p : WebhookEvidenceEdges(cluster', p) = WebhookEvidenceEdges(cluster, p)
  BY <1>8, SameEvidence
<1>11. PICK p \in WebhookPicks(cluster, Webhooks(cluster)) :
        EdgesOfKinds(g, {"affected_by_webhook"}) = WebhookEvidenceEdges(cluster, p)
  BY <1>5 DEF WebhooksInStep
<1> QED BY <1>2, <1>9, <1>10, <1>11

\* Taking an event keeps it: the event is still outstanding.
LEMMA TakeWebhooks ==
    ASSUME IInv, WebhooksInStep, NEW k \in Informers, TakeEvent(k)
    PROVE  WebhooksInStep'
<1>1. /\ current = NoEvent /\ pending[k] # <<>> /\ current' = Head(pending[k])
      /\ pending' = [pending EXCEPT ![k] = Tail(@)] /\ UNCHANGED <<cluster, g>>
  BY DEF TakeEvent
<1>2. pending \in [Informers -> Seq(ChangeEvent)]
  BY DEF IInv, ObjectsInv
<1>3. /\ \A i \in Informers : i # k => pending'[i] = pending[i] /\ Events(i)' = Events(i)
      /\ 1 \in Events(k) /\ current' = pending[k][1]
      /\ \A j \in Events(k)' : j + 1 \in Events(k) /\ pending'[k][j] = pending[k][j + 1]
      /\ \A j \in Events(k) : j = 1 \/ j - 1 \in Events(k)'
      /\ \A i \in Informers : Events(i) \subseteq Nat
  BY <1>1, <1>2, Dequeued
<1>4. ASSUME NoneOutstanding("event")'
      PROVE  NoneOutstanding("event")
  <2>1. current'.kind # "event" /\ \A i \in Informers : \A j \in Events(i)' : pending'[i][j].kind # "event"
    BY <1>4 DEF NoneOutstanding
  <2>2. ASSUME NEW i \in Informers, NEW j \in Events(i)
        PROVE  pending[i][j].kind # "event"
    <3>1. CASE i # k
      BY <1>3, <2>1, <3>1
    <3>2. CASE i = k /\ j = 1
      BY <1>3, <2>1, <3>2
    <3>3. CASE i = k /\ j # 1
      <4>1. j - 1 \in Events(k)' /\ j \in Nat
        BY <1>3, <3>3
      <4>2. pending'[k][j - 1] = pending[k][j]
        BY <1>3, <4>1
      <4> QED BY <2>1, <3>3, <4>1, <4>2
    <3> QED BY <3>1, <3>2, <3>3
  <2> QED BY <1>1, <2>2 DEF NoneOutstanding, NoEvent
<1> QED BY <1>1, <1>4 DEF WebhooksInStep

\* A scoped update of an event decides on all edges to webhooks, and others on none.
LEMMA NarrowWebhooks ==
    ASSUME ScopesDisjoint, OwnersStay, IInv, RebuildInv, NEW K, EdgesInv(K), EdgesInv(K)',
           WebhooksInStep, ApplyNarrow
    PROVE  WebhooksInStep'
<1>1. PICK pick \in WebhookPicks(collected, Candidates(current, collected)) :
        g' = NarrowApply(current, collected, pick)
  BY DEF ApplyNarrow
<1>2. /\ current # NoEvent /\ todo = {} /\ Done /\ current' = NoEvent /\ current \in ChangeEvent
      /\ UNCHANGED <<cluster, pending>>
  BY DEF ApplyNarrow, Done, IInv, ObjectsInv
<1>3. PICK t \in Templates : About(current, t, current.change)
  BY <1>2 DEF EdgesInv, CurrentHasSource
<1>4. current.kind # "workload" /\ current.kind # ""
  BY <1>3, NoWorkloadEvents
<1>5. /\ \A e : /\ ~Affects(current, e)
                /\ current.kind \in {"event", "workload"} => e.kind # "affected_by_webhook"
                => (e \in g'.edges <=> e \in g.edges)
      /\ current.kind = "event" => \A e : e.kind = "affected_by_webhook" =>
            (e \in g'.edges <=> e \in WebhookEvidenceEdges(collected, pick))
  BY <1>1, <1>2, NarrowEdges
<1>6. CASE current.kind = "event"
  <2>1. pick \in WebhookPicks(collected, Webhooks(collected))
    BY <1>6 DEF Candidates
  <2> QED BY <1>2, <1>5, <1>6, <2>1, SnapshotWebhooks
<1>7. CASE current.kind # "event"
  <2>1. \A e : e.kind = "affected_by_webhook" /\ Fits(e) => (e \in g'.edges <=> e \in g.edges)
    BY <1>4, <1>5, <1>7, WebhookAffected
  <2>2. (\A e \in g.edges : Fits(e)) /\ (\A e \in g'.edges : Fits(e))
    BY DEF EdgesInv, WellMade
  <2>3. EdgesOfKinds(g', {"affected_by_webhook"}) = EdgesOfKinds(g, {"affected_by_webhook"})
    BY <2>1, <2>2 DEF EdgesOfKinds
  <2>4. NoneOutstanding("event")' => NoneOutstanding("event")
    BY <1>2, <1>7 DEF NoneOutstanding, Events
  <2> QED BY <1>2, <2>3, <2>4 DEF WebhooksInStep
<1> QED BY <1>6, <1>7

\* WebhooksInStep when neither the cluster nor the graph nor the events change.
LEMMA SameWebhooks ==
    ASSUME WebhooksInStep, UNCHANGED <<cluster, pending, current, g>>
    PROVE  WebhooksInStep'
<1>1. NoneOutstanding("event")' <=> NoneOutstanding("event")
  BY DEF NoneOutstanding, Events
<1> QED BY <1>1 DEF WebhooksInStep

\* Every step keeps WebhooksInStep.
LEMMA NextWebhooks ==
    ASSUME ScopesDisjoint, OwnersStay, IInv, RebuildInv, NEW K, EdgesInv(K), EdgesInv(K)',
           WebhooksInStep, [Next]_vars
    PROVE  WebhooksInStep'
<1>1. CASE Cluster
  <2>1. PICK o, t, change : Changed(o, t, change)
    BY <1>1, ClusterChanges
  <2> QED BY <2>1, ChangeWebhooks
<1>2. ASSUME NEW i \in Informers, TakeEvent(i) PROVE WebhooksInStep'
  BY <1>2, TakeWebhooks
<1>3. CASE CollectList
  BY <1>3, SameWebhooks DEF CollectList, stream
<1>4. CASE CollectFail
  BY <1>4, SameWebhooks DEF CollectFail, stream
<1>5. CASE ApplyNarrow
  BY <1>5, NarrowWebhooks
<1>6. CASE RejectNarrow
  BY <1>6, SameWebhooks DEF RejectNarrow, stream
<1>7. CASE ApplyFull
  <2>1. PICK pick \in WebhookPicks(collected, Webhooks(collected)) : g' = Build(collected, pick)
    BY <1>7 DEF ApplyFull
  <2>2. \A o \in collected : LikeTemplate(o)
    BY DEF IInv, ObjectsInv
  <2>3. \A e : e.kind = "affected_by_webhook" =>
            (e \in g'.edges <=> e \in WebhookEvidenceEdges(collected, pick))
    BY <2>1, <2>2, BuiltEdges
  <2> QED BY <1>7, <2>3, SnapshotWebhooks DEF ApplyFull
<1>8. CASE UNCHANGED vars
  BY <1>8, SameWebhooks DEF vars, stream
<1> QED BY <1>1, <1>2, <1>3, <1>4, <1>5, <1>6, <1>7, <1>8 DEF Next, Manager

\* With no event outstanding, all edges are those of a rebuild.
LEMMA QuietAllEdges ==
    ASSUME IInv, RebuildInv, EdgesInv(PlainKinds), WebhooksInStep, Quiescent
    PROVE  \E pick \in WebhookPicks(cluster, Webhooks(cluster)) : LiveEdges(g) = BuildEdges(cluster, pick)
<1>1. NoneOutstanding("event")
  <2>1. current = NoEvent /\ \A i \in Informers : Events(i) = {}
    BY DEF Quiescent, Events
  <2> QED BY <2>1 DEF NoneOutstanding, NoEvent
<1>2. PICK pick \in WebhookPicks(cluster, Webhooks(cluster)) :
        EdgesOfKinds(g, {"affected_by_webhook"}) = WebhookEvidenceEdges(cluster, pick)
  BY <1>1 DEF WebhooksInStep
<1>3. g.nodes = BuildNodes(cluster)
  BY QuietNodes
<1>4. \A e \in BuildEdges(cluster, pick) : e.from \in g.nodes /\ e.to \in g.nodes
  BY <1>2, <1>3, BuildClosed
<1>5. \A e : e.kind \in PlainKinds => (e \in LiveEdges(g) <=> e \in PlainEdges(cluster))
  BY QuietEdges
<1>6. \A e \in PlainEdges(cluster) : e.kind \in PlainKinds
  <2>1. \A e \in PlainEdges(cluster) : PartsByKind(cluster, e)
    BY PlainByKind
  <2> QED
    BY <2>1 DEF PartsByKind, PlainKinds, KeptKinds, OwnerKinds, CSIKinds, ControllerRuleKinds, StorageEdgeKinds
<1>7. \A e \in g.edges : e.kind \in PlainKinds \/ e \in WebhookEvidenceEdges(cluster, pick)
  BY <1>2 DEF EdgesInv, WellMade, EdgesOfKinds
<1>8. WebhookEvidenceEdges(cluster, pick) \subseteq g.edges
  BY <1>2 DEF EdgesOfKinds
<1>9. \A e : e \in LiveEdges(g) <=> e \in BuildEdges(cluster, pick)
  BY <1>4, <1>5, <1>6, <1>7, <1>8 DEF LiveEdges, BuildEdges
<1>10. LiveEdges(g) = BuildEdges(cluster, pick)
  <2>1. LiveEdges(g) \subseteq BuildEdges(cluster, pick)
    BY <1>9
  <2>2. BuildEdges(cluster, pick) \subseteq LiveEdges(g)
    BY <1>9
  <2> QED BY <2>1, <2>2
<1> QED BY <1>2, <1>10

\* All edges converge: once every event has been applied they are those a rebuild would
\* load, for some choice of the webhooks that events are blamed on.  Besides
\* ScopesDisjoint it takes what the scoped updates miss to stay as it is: workloads, the
\* pods of CSI components, pods with a claim and a node, and the kinds of objects that
\* events report on (RestStays).
THEOREM LiveEdgesMatchRebuild ==
    ASSUME ScopesDisjoint, RestStays
    PROVE  Spec => []EdgesMatchRebuild
<1>0. OwnersStay /\ EventsReload(PlainKinds) /\ PlainKinds \in SUBSET PlainKinds
  BY TemplatesReload DEF RestStays
<1>1. "affected_by_webhook" \notin PlainKinds
  BY DEF PlainKinds, KeptKinds, OwnerKinds, CSIKinds, ControllerRuleKinds
<1>2. Init => RebuildInv /\ EdgesInv(PlainKinds) /\ WebhooksInStep
  BY <1>1, InitRebuild, InitEdges, InitWebhooks
<1>3. IInv /\ IInv' /\ RebuildInv /\ [Next]_vars => RebuildInv'
  BY NextRebuild
<1>4. IInv /\ IInv' /\ RebuildInv /\ RebuildInv' /\ EdgesInv(PlainKinds) /\ [Next]_vars
        => EdgesInv(PlainKinds)'
  BY <1>0, NextEdges
<1>5. IInv /\ RebuildInv /\ EdgesInv(PlainKinds) /\ EdgesInv(PlainKinds)' /\ WebhooksInStep /\ [Next]_vars
        => WebhooksInStep'
  BY <1>0, NextWebhooks
<1>6. IInv /\ RebuildInv /\ EdgesInv(PlainKinds) /\ WebhooksInStep => EdgesMatchRebuild
  BY QuietAllEdges DEF EdgesMatchRebuild
<1> QED BY <1>2, <1>3, <1>4, <1>5, <1>6, LiveInvariant, PTL DEF Spec


=============================================================================
