----------------------------- MODULE Reconcilers -----------------------------
(***************************************************************************)
(* The scoped updates of internal/reconcile: what one Apply call does to   *)
(* the kernel's graph, given the snapshot collected for it.  Manager.mu is *)
(* held for the whole of a call, so each is one function from a graph to a *)
(* graph.                                                                  *)
(*                                                                         *)
(* An operator named after another with a suffix (StaleNodesKept after     *)
(* StaleNodes) is a plausible mistake in it, kept to show that the checked *)
(* properties would notice; nothing uses it.                               *)
(***************************************************************************)
EXTENDS Ontology

DeleteNodes(g, X) ==
    Graph(g.nodes \ X, {e \in g.edges : e.from \notin X /\ e.to \notin X})
DeleteEdges(g, X) == Graph(g.nodes, g.edges \ X)
Upsert(g, N, E) == Graph(g.nodes \cup N, g.edges \cup E)

EdgesOfKinds(g, kinds) == {e \in g.edges : e.kind \in kinds}
NodesOfKinds(g, kinds) == {n \in g.nodes : n.kind \in kinds}
NodesNamed(g, kind, ns, name) == {n \in g.nodes : n.kind = kind /\ n.ns = ns /\ n.name = name}

-----------------------------------------------------------------------------
(* service.go *)

SelectorEdges(g, id) == {e \in g.edges : e.from = id /\ e.kind = "selects_pod"}

ApplyService(g, s, ns, name, change) ==
    LET found == Named(s, "Service", ns, {name})
    IN  IF change = "delete" \/ found = {}
        THEN DeleteNodes(g, NodesNamed(g, "Service", ns, name))
        ELSE LET v == CHOOSE x \in found : TRUE
             IN  Upsert(DeleteEdges(g, SelectorEdges(g, ID(v))),
                        {ID(v)}, EdgesTo(ID(v), "selects_pod", IDs(SelectedPods(s, v))))

-----------------------------------------------------------------------------
(* pod.go *)

PodSourceKinds == {"scheduled_on", "uses_config_map", "uses_secret", "uses_service_account",
                   "mounts_pvc", "uses_image", "managed_by"}
PodTargetKindsOwnersOnly == {"owns_pod"}
PodTargetKinds == {"owns_pod", "selects_pod"}
isPodScopedEdge(e, id) ==
    \/ e.kind \in PodSourceKinds /\ e.from = id
    \/ e.kind \in PodTargetKinds /\ e.to = id
PodScopedEdges(g, id) == {e \in g.edges : isPodScopedEdge(e, id)}

rebuildPodEdges(s, p) ==
    PodReferenceEdges(s, p) \cup MountEdges(s, p) \cup AccountEdges(s, p) \cup OwnerEdges(s, p)
      \cup {[from |-> ID(v), kind |-> "selects_pod", to |-> ID(p)] : v \in SelectingServices(s, p)}

(* The images the pods X had: candidates for pruning. *)
UsedImages(g, X) == {e.to : e \in {x \in g.edges : x.kind = "uses_image" /\ x.from \in X}}
nodeReferenced(g, id) == \E e \in g.edges : e.from = id \/ e.to = id
pruneImagesForgotten(g, images) == g
pruneImagesUnchecked(g, images) == DeleteNodes(g, images)
pruneImages(g, images) ==
    DeleteNodes(g, {i \in images : ~nodeReferenced(g, i) /\ i.kind = "Image"})

OtherIncarnationsKept(held, p) == {}
OtherIncarnations(held, p) == held \ {ID(p)}

ApplyPod(g, s, ns, name, change) ==
    LET found == Named(s, "Pod", ns, {name})
        held  == NodesNamed(g, "Pod", ns, name)
    IN  IF change = "delete" \/ found = {}
        THEN pruneImages(DeleteNodes(g, held), UsedImages(g, held))
        ELSE LET p == CHOOSE x \in found : TRUE
                 cleared == DeleteEdges(DeleteNodes(g, OtherIncarnations(held, p)),
                                       PodScopedEdges(g, ID(p)))
             IN  pruneImages(Upsert(cleared, {ID(p)} \cup ImageIDs(p), rebuildPodEdges(s, p)),
                             UsedImages(g, held \cup {ID(p)}))

-----------------------------------------------------------------------------
(* event.go *)

ApplyEvent(g, s, ns, name, change, pick) ==
    LET found   == Named(s, "Event", ns, {name})
        cleared == DeleteEdges(DeleteNodes(g, NodesNamed(g, "Event", ns, name)),
                               EdgesOfKinds(g, {"affected_by_webhook"}))
        upserts == IF change = "delete" THEN {} ELSE found
    IN  Upsert(cleared, IDs(upserts),
               (UNION {EdgesTo(ID(ev), "reported_by_event", IDs(EventTargets(s, ev))) :
                      ev \in upserts})
                 \cup WebhookEvidenceEdges(s, pick))

-----------------------------------------------------------------------------
(* workload.go, workload_controller.go *)

isWorkloadScopedEdgeNoWebhooks(e, id) ==
    \/ e.kind \in {"owns_pod", "controlled_by"} /\ e.from = id
    \/ e.kind \in {"managed_by", "reported_by_event", "controlled_by"} /\ e.to = id
isWorkloadScopedEdge(e, id) ==
    \/ e.kind \in {"owns_pod", "affected_by_webhook", "controlled_by"} /\ e.from = id
    \/ e.kind \in {"managed_by", "reported_by_event", "controlled_by"} /\ e.to = id

KnownWebhooks(g, s) == {h \in Webhooks(s) : ID(h) \in g.nodes}

rebuildWorkloadEdges(g, s, T, pick) ==
    (UNION {OwnerEdges(s, p) : p \in {q \in OfKind(s, "Pod") : ResolveOwners(s, q) \cap IDs(T) # {}}})
      \cup {e \in UNION {ControlledByEdges(s, w) : w \in OfKind(s, "Workload")} :
               e.from \in IDs(T) \/ e.to \in IDs(T)}
      \cup (UNION {EdgesTo(ID(ev), "reported_by_event", IDs(EventTargets(T, ev))) :
                  ev \in {x \in OfKind(s, "Event") : ID(x) \in g.nodes}})
      \cup (UNION {UNION {WebhookEdge(pick, ev, w) : w \in Named(T, "Workload", ev.ns, {ev.involved.name})} :
                  ev \in FailedEvents(s)})

ApplyWorkload(g, s, ns, name, change, pick) ==
    LET found   == Named(s, "Workload", ns, {name})
        T       == IF change = "delete" THEN {} ELSE found
        cleared == DeleteNodes(g, NodesNamed(g, "Workload", ns, name) \ IDs(T))
        scoped  == {e \in cleared.edges : \E id \in IDs(T) : isWorkloadScopedEdge(e, id)}
    IN  IF T = {} THEN cleared
        ELSE Upsert(DeleteEdges(cleared, scoped), IDs(T),
                    rebuildWorkloadEdges(cleared, s, T, pick))

ControllerRuleKinds == {"managed_by_controller", "served_by_node_daemon"}
ApplyWorkloadControllerRules(g, s) ==
    Upsert(DeleteEdges(g, EdgesOfKinds(g, ControllerRuleKinds)), {}, InferWorkloadControllerEdges(s))

-----------------------------------------------------------------------------
(* Nodes of a category that the snapshot no longer has, for the two updates  *)
(* below that reload a whole category.                                       *)
StaleNodesKept(g, kinds, current) == {}
StaleNodes(g, kinds, current) == NodesOfKinds(g, kinds) \ current

(* identity_security.go *)

IdentityKinds == {"ServiceAccount", "RoleBinding", "ClusterRoleBinding"}
IdentityEdgeKindsNoBindings == {"uses_service_account"}
IdentityEdgeKinds == {"uses_service_account", "bound_by_role_binding"}
IdentityIDs(s) == IDs({o \in s : o.kind \in IdentityKinds})

ApplyIdentitySecurity(g, s) ==
    LET cleared == DeleteEdges(g, EdgesOfKinds(g, IdentityEdgeKinds))
        fresh   == DeleteNodes(cleared, StaleNodes(g, IdentityKinds, IdentityIDs(s)))
    IN  Upsert(fresh, IdentityIDs(s), IdentityEdges(s))

-----------------------------------------------------------------------------
(* storage.go *)

StorageKinds == {"PVC", "PV", "StorageClass", "CSIDriver"}
StorageEdgeKinds ==
    {"mounts_pvc", "bound_to_pv", "uses_storage_class", "provisioned_by_csi_driver",
     "implemented_by_csi_controller", "implemented_by_csi_node_agent",
     "served_by_csi_node_agent", "managed_by_csi_controller"}
StorageIDs(s) == IDs({o \in s : o.kind \in StorageKinds}) \cup SyntheticDrivers(s)

ApplyStorage(g, s) ==
    LET cleared == DeleteEdges(g, EdgesOfKinds(g, StorageEdgeKinds))
        fresh   == DeleteNodes(cleared, StaleNodes(g, StorageKinds, StorageIDs(s)))
    IN  Upsert(fresh, StorageIDs(s), StorageEdges(s))

-----------------------------------------------------------------------------
(* Image edges join pods of the graph to images of the graph; no other edge   *)
(* touches an image, and every image has one.                                 *)
ImageEnds(G) ==
    \A e \in G.edges :
        IF e.kind = "uses_image"
        THEN /\ e.from \in G.nodes /\ e.from.kind = "Pod"
             /\ e.to \in G.nodes /\ e.to.kind = "Image"
        ELSE e.from.kind # "Image" /\ e.to.kind # "Image"
ImageGraph(G) ==
    /\ ImageEnds(G)
    /\ \A n \in NodesOfKinds(G, {"Image"}) :
        \E e \in EdgesOfKinds(G, {"uses_image"}) : e.to = n

(* The kinds of nodes that edges of each kind join. *)
Joined(e, kinds, F, T) == e.kind \in kinds => e.from.kind \in F /\ e.to.kind \in T
Fits(e) ==
    /\ Joined(e, {"scheduled_on"}, {"Pod"}, {"Node"})
    /\ Joined(e, {"uses_image"}, {"Pod"}, {"Image"})
    /\ Joined(e, {"uses_config_map"}, {"Pod"}, {"ConfigMap"})
    /\ Joined(e, {"uses_secret"}, {"Pod"}, {"Secret"})
    /\ Joined(e, {"uses_service_account"}, {"Pod"}, {"ServiceAccount"})
    /\ Joined(e, {"bound_by_role_binding"}, {"ServiceAccount"}, {"RoleBinding", "ClusterRoleBinding"})
    /\ Joined(e, {"mounts_pvc"}, {"Pod"}, {"PVC"})
    /\ Joined(e, {"bound_to_pv"}, {"PVC"}, {"PV"})
    /\ Joined(e, {"uses_storage_class"}, {"PVC", "PV"}, {"StorageClass"})
    /\ Joined(e, {"provisioned_by_csi_driver"}, {"StorageClass"}, {"CSIDriver"})
    /\ Joined(e, {"implemented_by_csi_controller", "implemented_by_csi_node_agent"}, {"CSIDriver"}, {"Pod"})
    /\ Joined(e, {"managed_by_csi_controller", "served_by_csi_node_agent"}, {"PV"}, {"Pod"})
    /\ Joined(e, {"managed_by"}, {"Pod"}, {"Workload"})
    /\ Joined(e, {"owns_pod"}, {"Workload"}, {"Pod"})
    /\ Joined(e, ControllerRuleKinds, {"Workload"}, {"Pod"})
    /\ Joined(e, {"controlled_by"}, {"Workload"}, {"Workload"})
    /\ Joined(e, {"selects_pod"}, {"Service"}, {"Pod"})
    /\ Joined(e, {"reported_by_event"}, {"Event"}, EventTargetKinds)
    /\ Joined(e, {"affected_by_webhook"}, {"Workload"}, {"WebhookConfig"})

=============================================================================
