------------------------- MODULE ReconcilersProofs -------------------------
(***************************************************************************)
(* What the builder's edges join, and what each scoped update does to the  *)
(* nodes and to the image edges of a graph, for every snapshot and graph.  *)
(***************************************************************************)
EXTENDS Reconcilers, TLAPS

-----------------------------------------------------------------------------
(* The nodes of a snapshot that stand for objects and CSI drivers. *)
Entities(s) == IDs({o \in s : o.kind # "ReplicaSet"}) \cup SyntheticDrivers(s)

(* Edges between them. *)
Joins(s, E) ==
    \A e \in E : e.kind # "uses_image" /\ e.from \in Entities(s) /\ e.to \in Entities(s)

\* The id of an object that is not a ReplicaSet is an entity.
LEMMA ObjectEntity ==
    ASSUME NEW s, NEW S \in SUBSET s, \A o \in S : o.kind # "ReplicaSet"
    PROVE  IDs(S) \subseteq Entities(s)
BY DEF IDs, Entities

\* Objects of a kind other than ReplicaSet are entities, named ones too.
LEMMA KindEntity ==
    ASSUME NEW s, NEW kind, kind # "ReplicaSet"
    PROVE  /\ IDs(OfKind(s, kind)) \subseteq Entities(s)
           /\ \A ns, names : IDs(Named(s, kind, ns, names)) \subseteq Entities(s)
           /\ \A o \in OfKind(s, kind) : ID(o) \in Entities(s)
BY DEF IDs, Entities, OfKind, Named

\* Edges from an entity to entities join entities.
LEMMA EdgesToJoin ==
    ASSUME NEW s, NEW from \in Entities(s), NEW kind, kind # "uses_image",
           NEW T \in SUBSET Entities(s)
    PROVE  Joins(s, EdgesTo(from, kind, T))
BY DEF Joins, EdgesTo

\* The owners of a pod or workload are workloads of the snapshot.
LEMMA OwnersAreEntities ==
    ASSUME NEW s, NEW o
    PROVE  ResolveOwners(s, o) \subseteq IDs(OfKind(s, "Workload"))
BY DEF ResolveOwners, IDs

\* Two edge sets that join entities join entities together.
LEMMA CupJoins ==
    ASSUME NEW s, NEW A, NEW B, Joins(s, A), Joins(s, B)
    PROVE  Joins(s, A \cup B)
BY DEF Joins

(* The uses_image edges of a pod. *)
PodImageEdges(p) == EdgesTo(ID(p), "uses_image", ImageIDs(p))

\* Everything else that a pod refers to or is owned by is an entity.
LEMMA PodJoins ==
    ASSUME NEW s, NEW p \in OfKind(s, "Pod")
    PROVE  /\ Joins(s, PodReferenceEdges(s, p) \ PodImageEdges(p))
           /\ PodImageEdges(p) \subseteq PodReferenceEdges(s, p)
           /\ Joins(s, MountEdges(s, p)) /\ Joins(s, AccountEdges(s, p)) /\ Joins(s, OwnerEdges(s, p))
           /\ Joins(s, {[from |-> ID(v), kind |-> "selects_pod", to |-> ID(p)] :
                            v \in SelectingServices(s, p)})
<1>0. ID(p) \in Entities(s)
  BY KindEntity
<1>1. /\ Joins(s, EdgesTo(ID(p), "scheduled_on", IDs(Named(s, "Node", "", {p.node}))))
      /\ Joins(s, EdgesTo(ID(p), "uses_config_map", IDs(Named(s, "ConfigMap", p.ns, p.configMaps))))
      /\ Joins(s, EdgesTo(ID(p), "uses_secret", IDs(Named(s, "Secret", p.ns, p.secrets))))
  BY <1>0, KindEntity, EdgesToJoin
<1>2. Joins(s, PodReferenceEdges(s, p) \ PodImageEdges(p))
  BY <1>1 DEF PodReferenceEdges, PodImageEdges, Joins
<1>3. Joins(s, MountEdges(s, p)) /\ Joins(s, AccountEdges(s, p))
  BY <1>0, KindEntity, EdgesToJoin DEF MountEdges, AccountEdges
<1>4. Joins(s, OwnerEdges(s, p))
  <2>1. ResolveOwners(s, p) \subseteq Entities(s)
    BY OwnersAreEntities, KindEntity
  <2> QED BY <1>0, <2>1 DEF OwnerEdges, Joins
<1>5. Joins(s, {[from |-> ID(v), kind |-> "selects_pod", to |-> ID(p)] :
                    v \in SelectingServices(s, p)})
  <2>1. \A v \in SelectingServices(s, p) : ID(v) \in Entities(s)
    BY KindEntity DEF SelectingServices
  <2> QED BY <1>0, <2>1 DEF Joins
<1>6. PodImageEdges(p) \subseteq PodReferenceEdges(s, p)
  BY DEF PodReferenceEdges, PodImageEdges
<1> QED BY <1>2, <1>3, <1>4, <1>5, <1>6

\* Services, events and workloads lead to entities.
LEMMA OtherJoins ==
    ASSUME NEW s
    PROVE  /\ \A v \in OfKind(s, "Service") :
                Joins(s, EdgesTo(ID(v), "selects_pod", IDs(SelectedPods(s, v))))
           /\ \A ev \in OfKind(s, "Event"), T \in SUBSET s :
                Joins(s, EdgesTo(ID(ev), "reported_by_event", IDs(EventTargets(T, ev))))
           /\ \A w \in OfKind(s, "Workload") : Joins(s, ControlledByEdges(s, w))
           /\ Joins(s, BindingEdges(s))
           /\ Joins(s, InferWorkloadControllerEdges(s))
<1>1. ASSUME NEW v \in OfKind(s, "Service")
      PROVE  Joins(s, EdgesTo(ID(v), "selects_pod", IDs(SelectedPods(s, v))))
  <2>1. IDs(SelectedPods(s, v)) \subseteq Entities(s)
    BY KindEntity DEF SelectedPods, IDs
  <2> QED BY <2>1, KindEntity, EdgesToJoin
<1>2. ASSUME NEW ev \in OfKind(s, "Event"), NEW T \in SUBSET s
      PROVE  Joins(s, EdgesTo(ID(ev), "reported_by_event", IDs(EventTargets(T, ev))))
  <2>1. IDs(EventTargets(T, ev)) \subseteq Entities(s)
    <3>1. EventTargets(T, ev) \in SUBSET s
      BY DEF EventTargets
    <3>2. \A o \in EventTargets(T, ev) : o.kind # "ReplicaSet"
      BY DEF EventTargets, EventTargetKinds
    <3> QED BY <3>1, <3>2, ObjectEntity
  <2> QED BY <2>1, KindEntity, EdgesToJoin
<1>3. ASSUME NEW w \in OfKind(s, "Workload") PROVE Joins(s, ControlledByEdges(s, w))
  <2>1. ResolveOwners(s, w) \ {ID(w)} \subseteq Entities(s)
    BY OwnersAreEntities, KindEntity
  <2> QED BY <2>1, KindEntity, EdgesToJoin DEF ControlledByEdges
<1>4. Joins(s, BindingEdges(s))
  <2>1. ASSUME NEW b \in OfKind(s, "RoleBinding") \cup OfKind(s, "ClusterRoleBinding"),
               NEW a \in BoundAccounts(s, b)
        PROVE  ID(a) \in Entities(s) /\ ID(b) \in Entities(s)
    BY KindEntity DEF BoundAccounts
  <2> QED BY <2>1 DEF BindingEdges, Joins
<1>5. Joins(s, InferWorkloadControllerEdges(s))
  <2> DEFINE Pods == OfKind(s, "Pod")
             Matched(w) == {rule \in ControllerRules : Pattern(rule.kind, w.src)}
             Controllers(w) == {p \in Pods : \E rule \in Matched(w) :
                                   Pattern(rule.ns, p.ns) /\ p.name \in rule.controllers}
             OwnedNodes(w) == {p.node : p \in {q \in Pods : ID(w) \in ResolveOwners(s, q)}} \ {""}
             Daemons(w) == {p \in Pods : p.node \in OwnedNodes(w) /\ \E rule \in Matched(w) :
                                   Pattern(rule.ns, p.ns) /\ p.name \in rule.daemons}
  <2>1. ASSUME NEW w \in OfKind(s, "Workload")
        PROVE  Joins(s, EdgesTo(ID(w), "managed_by_controller", IDs(Controllers(w)))
                          \cup EdgesTo(ID(w), "served_by_node_daemon", IDs(Daemons(w))))
    <3>1. IDs(Controllers(w)) \subseteq Entities(s) /\ IDs(Daemons(w)) \subseteq Entities(s)
      <4>1. Controllers(w) \subseteq Pods /\ Daemons(w) \subseteq Pods
        OBVIOUS
      <4> HIDE DEF Controllers, Daemons
      <4> QED BY <4>1, KindEntity DEF IDs
    <3> HIDE DEF Controllers, Daemons
    <3> QED BY <3>1, KindEntity, EdgesToJoin, CupJoins
  <2> HIDE DEF Controllers, Daemons
  <2>2. InferWorkloadControllerEdges(s) =
          UNION {EdgesTo(ID(w), "managed_by_controller", IDs(Controllers(w)))
                   \cup EdgesTo(ID(w), "served_by_node_daemon", IDs(Daemons(w))) :
                 w \in OfKind(s, "Workload")}
    BY Zenon DEF InferWorkloadControllerEdges, Controllers, Daemons
  <2> QED BY <2>1, <2>2 DEF Joins
<1> QED BY <1>1, <1>2, <1>3, <1>4, <1>5

\* Claims, volumes, classes and drivers, and the pods behind a driver, are entities.
LEMMA StorageJoins ==
    ASSUME NEW s
    PROVE  Joins(s, StorageEdges(s))
<1>1. ASSUME NEW p \in OfKind(s, "Pod") PROVE Joins(s, MountEdges(s, p))
  BY PodJoins
<1>2. ASSUME NEW c \in OfKind(s, "PVC") PROVE Joins(s, ClaimEdges(s, c))
  BY KindEntity, EdgesToJoin, CupJoins DEF ClaimEdges
<1>3. ASSUME NEW v \in OfKind(s, "PV"), NEW rule
      PROVE  /\ Joins(s, VolumeEdges(s, v))
             /\ Joins(s, EdgesTo(ID(v), "managed_by_csi_controller", IDs(ControllerPods(s, rule))))
             /\ Joins(s, EdgesTo(ID(v), "served_by_csi_node_agent",
                          IDs({p \in AgentPods(s, rule) : p.node \in csiAgentNodeNamesForPV(s, v)})))
  <2>1. /\ IDs(ControllerPods(s, rule)) \subseteq Entities(s)
        /\ IDs({p \in AgentPods(s, rule) : p.node \in csiAgentNodeNamesForPV(s, v)})
             \subseteq Entities(s)
    BY KindEntity DEF ControllerPods, AgentPods, IDs
  <2> QED BY <2>1, KindEntity, EdgesToJoin DEF VolumeEdges
<1>4. ASSUME NEW v \in OfKind(s, "PV") PROVE Joins(s, CorrelatePVToCSIComponents(s, v))
  BY <1>3 DEF CorrelatePVToCSIComponents, Joins
<1>5. csiDriverIDs(s) \subseteq Entities(s)
  BY KindEntity DEF csiDriverIDs, Entities
<1>6. ASSUME NEW c \in OfKind(s, "StorageClass") PROVE Joins(s, ProvisionerEdges(s, c))
  BY <1>5, KindEntity, EdgesToJoin DEF ProvisionerEdges
<1>7. ASSUME NEW d \in csiDriverIDs(s) PROVE Joins(s, InferCSIComponentEdges(s, d))
  <2>1. ASSUME NEW rule
        PROVE  /\ Joins(s, EdgesTo(d, "implemented_by_csi_controller", IDs(ControllerPods(s, rule))))
               /\ Joins(s, EdgesTo(d, "implemented_by_csi_node_agent", IDs(AgentPods(s, rule))))
    <3>1. /\ IDs(ControllerPods(s, rule)) \subseteq Entities(s)
          /\ IDs(AgentPods(s, rule)) \subseteq Entities(s)
      BY KindEntity DEF ControllerPods, AgentPods, IDs
    <3> QED BY <1>5, <3>1, EdgesToJoin
  <2> QED BY <2>1 DEF InferCSIComponentEdges, Joins
<1> QED BY <1>1, <1>2, <1>3, <1>4, <1>6, <1>7 DEF StorageEdges, Joins

\* A webhook that is blamed is one of the snapshot.
LEMMA WebhookJoins ==
    ASSUME NEW s, NEW W \in SUBSET Webhooks(s), NEW pick \in WebhookPicks(s, W),
           NEW ev \in FailedEvents(s), NEW w \in OfKind(s, "Workload")
    PROVE  Joins(s, WebhookEdge(pick, ev, w))
<1>1. CASE W = {}
  BY <1>1 DEF WebhookPicks, WebhookEdge, Joins
<1>2. CASE W # {}
  <2>1. pick[<<ev, w>>] \in Webhooks(s)
    BY <1>2 DEF WebhookPicks
  <2>2. ID(pick[<<ev, w>>]) \in Entities(s) /\ ID(w) \in Entities(s)
    BY <2>1, KindEntity DEF Webhooks
  <2> QED BY <2>2 DEF WebhookEdge, Joins
<1> QED BY <1>1, <1>2

\* The evidence of failed events joins workloads and webhooks of the snapshot.
LEMMA EvidenceJoins ==
    ASSUME NEW s, NEW W \in SUBSET Webhooks(s), NEW pick \in WebhookPicks(s, W)
    PROVE  Joins(s, WebhookEvidenceEdges(s, pick))
<1>1. ASSUME NEW ev \in FailedEvents(s), NEW w \in LastNamed(s, ev.ns, ev.involved.name)
      PROVE  Joins(s, WebhookEdge(pick, ev, w))
  <2>1. w \in OfKind(s, "Workload")
    BY DEF LastNamed, Named
  <2> QED BY <2>1, WebhookJoins
<1> QED BY <1>1 DEF WebhookEvidenceEdges, Joins

(* All the uses_image edges of a snapshot. *)
ImageEdges(s) == UNION {PodImageEdges(p) : p \in OfKind(s, "Pod")}

\* Of what a full rebuild loads, image edges apart, every edge joins entities.
LEMMA BuildJoins ==
    ASSUME NEW s, NEW pick \in WebhookPicks(s, Webhooks(s))
    PROVE  /\ Joins(s, BuildEdges(s, pick) \ ImageEdges(s))
           /\ ImageEdges(s) \subseteq BuildEdges(s, pick)
<1>1. Joins(s, (UNION {PodReferenceEdges(s, p) \cup OwnerEdges(s, p) : p \in OfKind(s, "Pod")})
                 \ ImageEdges(s))
  BY PodJoins DEF ImageEdges, Joins
<1>2. Joins(s, IdentityEdges(s))
  BY PodJoins, OtherJoins DEF IdentityEdges, Joins
<1>3. Joins(s, UNION {EdgesTo(ID(v), "selects_pod", IDs(SelectedPods(s, v))) :
                         v \in OfKind(s, "Service")})
  BY OtherJoins DEF Joins
<1>4. Joins(s, UNION {EdgesTo(ID(ev), "reported_by_event", IDs(EventTargets(s, ev))) :
                         ev \in OfKind(s, "Event")})
  BY OtherJoins DEF Joins
<1>5. Joins(s, UNION {ControlledByEdges(s, w) : w \in OfKind(s, "Workload")})
  BY OtherJoins DEF Joins
<1>6. Joins(s, InferWorkloadControllerEdges(s)) /\ Joins(s, StorageEdges(s))
        /\ Joins(s, WebhookEvidenceEdges(s, pick))
  BY OtherJoins, StorageJoins, EvidenceJoins
<1>7. ImageEdges(s) \subseteq BuildEdges(s, pick)
  <2> SUFFICES ASSUME NEW p \in OfKind(s, "Pod"), NEW e \in PodImageEdges(p)
               PROVE  e \in BuildEdges(s, pick)
    BY DEF ImageEdges
  <2>1. e \in PodReferenceEdges(s, p) \cup OwnerEdges(s, p)
    BY PodJoins
  <2> QED BY <2>1 DEF BuildEdges, PlainEdges
<1> QED BY <1>1, <1>2, <1>3, <1>4, <1>5, <1>6, <1>7 DEF BuildEdges, PlainEdges, Joins

-----------------------------------------------------------------------------
(* Images.  No object of a snapshot is an image. *)
NoImages(s) == \A o \in s : o.kind # "Image"

\* The parts of a canonical id.
LEMMA IDParts ==
    ASSUME NEW kind, NEW src, NEW ns, NEW name, NEW uid
    PROVE  LET id == CanonicalID(kind, src, ns, name, uid)
           IN  id.kind = kind /\ id.src = src /\ id.ns = ns /\ id.name = name /\ id.uid = uid
BY DEF CanonicalID

\* The parts of an object's id are the object's.
LEMMA ObjectID ==
    ASSUME NEW o
    PROVE  /\ ID(o).kind = o.kind /\ ID(o).src = o.src /\ ID(o).ns = o.ns
           /\ ID(o).name = o.name /\ ID(o).uid = o.uid
BY IDParts DEF ID

\* A driver made up for a provisioner is a CSIDriver node.
LEMMA DriverID ==
    ASSUME NEW s, NEW d \in SyntheticDrivers(s)
    PROVE  d.kind = "CSIDriver"
<1>1. PICK c : d = CanonicalID("CSIDriver", "CSIDriver", "", c.provisioner, NoUid)
  BY Zenon DEF SyntheticDrivers, csiDriverID
<1>2. CanonicalID("CSIDriver", "CSIDriver", "", c.provisioner, NoUid).kind = "CSIDriver"
  BY DEF CanonicalID
<1> QED BY <1>1, <1>2

\* Entities are not images.
LEMMA EntitiesAreNotImages ==
    ASSUME NEW s, NoImages(s)
    PROVE  \A n \in Entities(s) : n.kind # "Image"
BY ObjectID, DriverID DEF NoImages, Entities, IDs

\* A pod's image edges lead from it to its images.
LEMMA PodImages ==
    ASSUME NEW p
    PROVE  /\ \A e \in PodImageEdges(p) :
                e.kind = "uses_image" /\ e.from = ID(p) /\ e.to \in ImageIDs(p)
           /\ \A i \in ImageIDs(p) : i.kind = "Image" /\ \E e \in PodImageEdges(p) : e.to = i
<1>1. ASSUME NEW i \in ImageIDs(p) PROVE i.kind = "Image"
  <2>1. PICK name : i = CanonicalID("Image", "Image", "", normalize(name), NoUid)
    BY Zenon DEF ImageIDs
  <2>2. CanonicalID("Image", "Image", "", normalize(name), NoUid).kind = "Image"
    BY DEF CanonicalID
  <2> QED BY <2>1, <2>2
<1>2. ASSUME NEW i \in ImageIDs(p) PROVE \E e \in PodImageEdges(p) : e.to = i
  <2>1. [from |-> ID(p), kind |-> "uses_image", to |-> i] \in PodImageEdges(p)
    BY DEF PodImageEdges, EdgesTo
  <2> QED BY <2>1
<1> QED BY <1>1, <1>2 DEF PodImageEdges, EdgesTo

\* A full rebuild loads a graph whose images are in order.
LEMMA BuildImageGraph ==
    ASSUME NEW s, NoImages(s), NEW pick \in WebhookPicks(s, Webhooks(s))
    PROVE  ImageGraph(Build(s, pick))
<1> DEFINE N == BuildNodes(s)
           E == BuildEdges(s, pick)
<1>0. Build(s, pick) = [nodes |-> N, edges |-> E]
  BY DEF Build, Graph
<1>1. ASSUME NEW e \in E, e \notin ImageEdges(s)
      PROVE  e.kind # "uses_image" /\ e.from.kind # "Image" /\ e.to.kind # "Image"
  BY <1>1, BuildJoins, EntitiesAreNotImages DEF Joins
<1>2. ASSUME NEW e \in ImageEdges(s)
      PROVE  /\ e.kind = "uses_image" /\ e.from \in N /\ e.from.kind = "Pod"
             /\ e.to \in N /\ e.to.kind = "Image"
  <2>1. PICK p \in OfKind(s, "Pod") : e \in PodImageEdges(p)
    BY DEF ImageEdges
  <2>2. e.kind = "uses_image" /\ e.from = ID(p) /\ e.to \in ImageIDs(p) /\ e.to.kind = "Image"
    BY <2>1, PodImages
  <2>3. ID(p) \in N /\ ID(p).kind = "Pod"
    BY DEF BuildNodes, IDs, OfKind, ID, CanonicalID
  <2>4. ImageIDs(p) \subseteq N
    BY DEF BuildNodes
  <2> QED BY <2>2, <2>3, <2>4
<1>3. ASSUME NEW n \in N, n.kind = "Image" PROVE \E e \in E : e.kind = "uses_image" /\ e.to = n
  <2>1. n \notin Entities(s)
    BY <1>3, EntitiesAreNotImages
  <2>2. PICK p \in OfKind(s, "Pod") : n \in ImageIDs(p)
    BY <2>1 DEF BuildNodes, Entities
  <2>3. PICK e \in PodImageEdges(p) : e.kind = "uses_image" /\ e.to = n
    BY <2>2, PodImages
  <2>4. e \in E
    BY BuildJoins DEF ImageEdges
  <2> QED BY <2>3, <2>4
<1> HIDE DEF N, E
<1> QED BY <1>0, <1>1, <1>2, <1>3 DEF ImageGraph, ImageEnds, NodesOfKinds, EdgesOfKinds

-----------------------------------------------------------------------------
(* What an update that is not about pods may do: H comes from G by deleting   *)
(* and adding nodes of the kinds K and edges that are not image edges: the    *)
(* edges added join entities of the snapshot s.                               *)
LeavesImages(G, H, s, K) ==
    /\ "Pod" \notin K /\ "Image" \notin K
    /\ \A n : n.kind \notin K => (n \in H.nodes <=> n \in G.nodes)
    /\ EdgesOfKinds(H, {"uses_image"}) = EdgesOfKinds(G, {"uses_image"})
    /\ \A e \in H.edges : e \in G.edges \/ (e.from \in Entities(s) /\ e.to \in Entities(s))

\* Such an update keeps the images in order.
LEMMA LeavesImageGraph ==
    ASSUME NEW G, NEW H, NEW s, NoImages(s), NEW K, ImageGraph(G), LeavesImages(G, H, s, K)
    PROVE  ImageGraph(H)
BY EntitiesAreNotImages DEF ImageGraph, ImageEnds, LeavesImages, NodesOfKinds, EdgesOfKinds

-----------------------------------------------------------------------------
(* The updates of one object.  H comes from G by an update for the objects    *)
(* of kind K that the snapshot s has under a namespace and a name.            *)
Bears(n, K, ns, name) == n.kind = K /\ n.ns = ns /\ n.name = name

ScopedUpdate(G, H, s, K, ns, name, change) ==
    /\ \A n : ~Bears(n, K, ns, name) => (n \in H.nodes <=> n \in G.nodes)
    /\ change = "delete" => NodesNamed(H, K, ns, name) = {}
    /\ NodesNamed(H, K, ns, name) \subseteq G.nodes \cup IDs(Named(s, K, ns, {name}))
    /\ change # "delete" => IDs(Named(s, K, ns, {name})) \subseteq H.nodes

\* Named objects bear their kind and name.
LEMMA NamedBear ==
    ASSUME NEW s, NEW K, NEW ns, NEW name, NEW n \in IDs(Named(s, K, ns, {name}))
    PROVE  Bears(n, K, ns, name)
BY ObjectID DEF Bears, IDs, Named, OfKind

\* ServiceReconciler: the service and its selector edges.
LEMMA ServiceUpdate ==
    ASSUME NEW G, ImageGraph(G), NEW s, NoImages(s), NEW ns, NEW name, NEW change,
           \A x, y \in Named(s, "Service", ns, {name}) : x = y
    PROVE  LET H == ApplyService(G, s, ns, name, change)
           IN  LeavesImages(G, H, s, {"Service"}) /\ ScopedUpdate(G, H, s, "Service", ns, name, change)
<1> DEFINE found == Named(s, "Service", ns, {name})
           H == ApplyService(G, s, ns, name, change)
           held == NodesNamed(G, "Service", ns, name)
<1>0. \A n \in held : Bears(n, "Service", ns, name)
  BY DEF NodesNamed, Bears
<1>1. CASE change = "delete" \/ found = {}
  <2>1. H = DeleteNodes(G, held)
    BY <1>1 DEF ApplyService
  <2>2. H.nodes = G.nodes \ held /\ H.edges = {e \in G.edges : e.from \notin held /\ e.to \notin held}
    BY <2>1 DEF DeleteNodes, Graph
  <2>3. IDs(found) = {} \/ change = "delete"
    BY <1>1 DEF IDs
  <2> HIDE DEF H, found
  <2>4. ScopedUpdate(G, H, s, "Service", ns, name, change)
    BY <1>0, <2>2, <2>3 DEF ScopedUpdate, NodesNamed, Bears, found
  <2>5. LeavesImages(G, H, s, {"Service"})
    BY <1>0, <2>2 DEF LeavesImages, EdgesOfKinds, Bears, ImageGraph, ImageEnds
  <2> QED BY <2>4, <2>5 DEF H
<1>2. CASE change # "delete" /\ found # {}
  <2> DEFINE v == CHOOSE x \in found : TRUE
             E == EdgesTo(ID(v), "selects_pod", IDs(SelectedPods(s, v)))
  <2>1. v \in found
    BY <1>2
  <2>2. H = Upsert(DeleteEdges(G, SelectorEdges(G, ID(v))), {ID(v)}, E)
    BY <1>2 DEF ApplyService
  <2>3. H.nodes = G.nodes \cup {ID(v)} /\ H.edges = (G.edges \ SelectorEdges(G, ID(v))) \cup E
    BY <2>2 DEF Upsert, DeleteEdges, Graph
  <2>4. v \in OfKind(s, "Service")
    BY <2>1 DEF Named
  <2>5. Joins(s, E)
    BY <2>4, OtherJoins
  <2>6. found = {v}
    BY <2>1
  <2> HIDE DEF v, E, H
  <2>7. IDs(found) = {ID(v)} /\ Bears(ID(v), "Service", ns, name)
    BY <2>6, <2>1, NamedBear DEF IDs
  <2> HIDE DEF found
  <2>8. ScopedUpdate(G, H, s, "Service", ns, name, change)
    BY <1>2, <2>3, <2>7 DEF ScopedUpdate, NodesNamed, found
  <2>9. \A e \in E : e.kind # "uses_image" /\ e.from \in Entities(s) /\ e.to \in Entities(s)
    BY <2>5, EntitiesAreNotImages DEF Joins
  <2>10. \A e \in SelectorEdges(G, ID(v)) : e.kind # "uses_image"
    BY DEF SelectorEdges
  <2>11. LeavesImages(G, H, s, {"Service"})
    BY <2>3, <2>7, <2>9, <2>10 DEF LeavesImages, EdgesOfKinds, Bears
  <2> QED BY <2>8, <2>11 DEF H
<1> QED BY <1>1, <1>2

\* EventReconciler: the event, its edges, and the webhooks that are blamed.
LEMMA EventUpdate ==
    ASSUME NEW G, ImageGraph(G), NEW s, NoImages(s), NEW ns, NEW name, NEW change,
           NEW W \in SUBSET Webhooks(s), NEW pick \in WebhookPicks(s, W)
    PROVE  LET H == ApplyEvent(G, s, ns, name, change, pick)
           IN  LeavesImages(G, H, s, {"Event"}) /\ ScopedUpdate(G, H, s, "Event", ns, name, change)
<1> DEFINE found == Named(s, "Event", ns, {name})
           upserts == IF change = "delete" THEN {} ELSE found
           held == NodesNamed(G, "Event", ns, name)
           E == (UNION {EdgesTo(ID(ev), "reported_by_event", IDs(EventTargets(s, ev))) :
                        ev \in upserts}) \cup WebhookEvidenceEdges(s, pick)
           H == ApplyEvent(G, s, ns, name, change, pick)
<1>1. \A n \in held : Bears(n, "Event", ns, name)
  BY DEF NodesNamed, Bears
<1>2. H.nodes = (G.nodes \ held) \cup IDs(upserts)
  BY DEF ApplyEvent, DeleteNodes, DeleteEdges, Upsert, Graph
<1>3. H.edges = ({e \in G.edges : e.from \notin held /\ e.to \notin held}
                   \ EdgesOfKinds(G, {"affected_by_webhook"})) \cup E
  BY DEF ApplyEvent, DeleteNodes, DeleteEdges, Upsert, Graph
<1>4. Joins(s, E)
  <2>1. ASSUME NEW ev \in upserts
        PROVE  Joins(s, EdgesTo(ID(ev), "reported_by_event", IDs(EventTargets(s, ev))))
    <3>1. ev \in OfKind(s, "Event")
      BY DEF Named
    <3> QED BY <3>1, OtherJoins
  <2>2. Joins(s, WebhookEvidenceEdges(s, pick))
    BY EvidenceJoins
  <2> QED BY <2>1, <2>2 DEF Joins
<1> HIDE DEF E, H
<1>5. \A n \in IDs(upserts) : Bears(n, "Event", ns, name)
  BY NamedBear DEF IDs
<1>6. ScopedUpdate(G, H, s, "Event", ns, name, change)
  <2>1. IDs(upserts) = IF change = "delete" THEN {} ELSE IDs(found)
    BY DEF IDs
  <2> HIDE DEF upserts, found
  <2>2. NodesNamed(H, "Event", ns, name) = IDs(upserts)
    BY <1>2, <1>5 DEF NodesNamed, Bears
  <2> QED BY <1>1, <1>2, <1>5, <2>1, <2>2 DEF ScopedUpdate, found
<1>7. \A e \in E : e.kind # "uses_image" /\ e.from \in Entities(s) /\ e.to \in Entities(s)
  BY <1>4, EntitiesAreNotImages DEF Joins
<1> HIDE DEF upserts
<1>8. LeavesImages(G, H, s, {"Event"})
  BY <1>1, <1>2, <1>3, <1>5, <1>7 DEF LeavesImages, EdgesOfKinds, Bears, ImageGraph, ImageEnds
<1> QED BY <1>6, <1>8 DEF H

\* The edges of workloads join entities.
LEMMA WorkloadJoins ==
    ASSUME NEW G, NEW s, NEW W \in SUBSET Webhooks(s), NEW pick \in WebhookPicks(s, W),
           NEW T \in SUBSET OfKind(s, "Workload")
    PROVE  Joins(s, rebuildWorkloadEdges(G, s, T, pick))
<1>1. Joins(s, UNION {OwnerEdges(s, p) :
                  p \in {q \in OfKind(s, "Pod") : ResolveOwners(s, q) \cap IDs(T) # {}}})
  BY PodJoins DEF Joins
<1>2. Joins(s, {e \in UNION {ControlledByEdges(s, w) : w \in OfKind(s, "Workload")} :
                  e.from \in IDs(T) \/ e.to \in IDs(T)})
  BY OtherJoins DEF Joins
<1>3. Joins(s, UNION {EdgesTo(ID(ev), "reported_by_event", IDs(EventTargets(T, ev))) :
                  ev \in {x \in OfKind(s, "Event") : ID(x) \in G.nodes}})
  <2>1. T \in SUBSET s
    BY DEF OfKind
  <2> QED BY <2>1, OtherJoins DEF Joins
<1>4. Joins(s, UNION {UNION {WebhookEdge(pick, ev, w) :
                                w \in Named(T, "Workload", ev.ns, {ev.involved.name})} :
                  ev \in FailedEvents(s)})
  <2>1. ASSUME NEW ev \in FailedEvents(s), NEW w \in Named(T, "Workload", ev.ns, {ev.involved.name})
        PROVE  Joins(s, WebhookEdge(pick, ev, w))
    <3>1. w \in OfKind(s, "Workload")
      BY DEF Named, OfKind
    <3> QED BY <3>1, WebhookJoins
  <2> DEFINE Blamed(ev) == UNION {WebhookEdge(pick, ev, w) :
                                    w \in Named(T, "Workload", ev.ns, {ev.involved.name})}
  <2>2. ASSUME NEW ev \in FailedEvents(s) PROVE Joins(s, Blamed(ev))
    BY <2>1 DEF Joins
  <2> HIDE DEF Blamed
  <2>3. Joins(s, UNION {Blamed(ev) : ev \in FailedEvents(s)})
    BY <2>2 DEF Joins
  <2> QED BY <2>3 DEF Blamed
<1> QED BY <1>1, <1>2, <1>3, <1>4, CupJoins DEF rebuildWorkloadEdges

\* WorkloadReconciler: every workload of the namespace and name, with its edges.
LEMMA WorkloadUpdate ==
    ASSUME NEW G, ImageGraph(G), NEW s, NoImages(s), NEW ns, NEW name, NEW change,
           NEW W \in SUBSET Webhooks(s), NEW pick \in WebhookPicks(s, W)
    PROVE  LET H == ApplyWorkload(G, s, ns, name, change, pick)
           IN  LeavesImages(G, H, s, {"Workload"}) /\ ScopedUpdate(G, H, s, "Workload", ns, name, change)
<1> DEFINE found == Named(s, "Workload", ns, {name})
           T == IF change = "delete" THEN {} ELSE found
           gone == NodesNamed(G, "Workload", ns, name) \ IDs(T)
           cleared == DeleteNodes(G, gone)
           scoped == {e \in cleared.edges : \E id \in IDs(T) : isWorkloadScopedEdge(e, id)}
           E == rebuildWorkloadEdges(cleared, s, T, pick)
           H == ApplyWorkload(G, s, ns, name, change, pick)
<1>1. \A n \in gone : Bears(n, "Workload", ns, name)
  BY DEF NodesNamed, Bears
<1>2. cleared.nodes = G.nodes \ gone
        /\ cleared.edges = {e \in G.edges : e.from \notin gone /\ e.to \notin gone}
  BY DEF DeleteNodes, Graph
<1>3. H = IF T = {} THEN cleared ELSE Upsert(DeleteEdges(cleared, scoped), IDs(T), E)
  BY DEF ApplyWorkload
<1>4. T \subseteq OfKind(s, "Workload")
  BY DEF Named
<1>5. \A e \in E : e.kind # "uses_image" /\ e.from \in Entities(s) /\ e.to \in Entities(s)
  <2>1. Joins(s, E)
    BY <1>4, WorkloadJoins
  <2> HIDE DEF E
  <2> QED BY <2>1, EntitiesAreNotImages DEF Joins
<1>6. \A e \in scoped : e.kind # "uses_image"
  BY DEF isWorkloadScopedEdge
<1>7. IDs(T) = IF change = "delete" THEN {} ELSE IDs(found)
  BY DEF IDs
<1>8. T = {} => IDs(T) = {}
  BY DEF IDs
<1>9. \A n \in IDs(T) : Bears(n, "Workload", ns, name)
  BY <1>7, NamedBear
<1> HIDE DEF E, H, T, scoped, cleared
<1>10. H.nodes = (G.nodes \ gone) \cup IDs(T)
  BY <1>2, <1>3, <1>8 DEF Upsert, DeleteEdges, Graph
<1>11. H.edges = cleared.edges \/ H.edges = (cleared.edges \ scoped) \cup E
  BY <1>3 DEF Upsert, DeleteEdges, Graph
<1> HIDE DEF found
<1>12. ScopedUpdate(G, H, s, "Workload", ns, name, change)
  <2>1. NodesNamed(H, "Workload", ns, name) = IDs(T)
    BY <1>9, <1>10 DEF NodesNamed, Bears
  <2> QED BY <1>1, <1>7, <1>9, <1>10, <2>1 DEF ScopedUpdate, found
<1>13. LeavesImages(G, H, s, {"Workload"})
  <2> HIDE DEF gone
  <2>1. \A n : n.kind # "Workload" => (n \in H.nodes <=> n \in G.nodes)
    BY <1>1, <1>9, <1>10 DEF Bears
  <2>2. EdgesOfKinds(cleared, {"uses_image"}) = EdgesOfKinds(G, {"uses_image"})
    BY <1>1, <1>2 DEF EdgesOfKinds, Bears, ImageGraph, ImageEnds
  <2>3. EdgesOfKinds(H, {"uses_image"}) = EdgesOfKinds(cleared, {"uses_image"})
    BY <1>5, <1>6, <1>11 DEF EdgesOfKinds
  <2>4. \A e \in H.edges : e \in G.edges \/ (e.from \in Entities(s) /\ e.to \in Entities(s))
    BY <1>2, <1>5, <1>11
  <2> QED BY <2>1, <2>2, <2>3, <2>4 DEF LeavesImages
<1> QED BY <1>12, <1>13 DEF H

\* The controller rules touch no node and no image edge.
LEMMA ControllerRulesUpdate ==
    ASSUME NEW G, ImageGraph(G), NEW s, NoImages(s)
    PROVE  LET H == ApplyWorkloadControllerRules(G, s)
           IN  LeavesImages(G, H, s, {}) /\ H.nodes = G.nodes
<1> DEFINE E == InferWorkloadControllerEdges(s)
           H == ApplyWorkloadControllerRules(G, s)
<1>1. H.nodes = G.nodes /\ H.edges = (G.edges \ EdgesOfKinds(G, ControllerRuleKinds)) \cup E
  BY DEF ApplyWorkloadControllerRules, Upsert, DeleteEdges, Graph
<1>2. \A e \in E : e.kind # "uses_image" /\ e.from \in Entities(s) /\ e.to \in Entities(s)
  BY OtherJoins, EntitiesAreNotImages DEF Joins
<1> HIDE DEF E, H
<1>3. LeavesImages(G, H, s, {})
  BY <1>1, <1>2 DEF LeavesImages, EdgesOfKinds, ControllerRuleKinds
<1> QED BY <1>1, <1>3 DEF H

-----------------------------------------------------------------------------
(* The updates of a category: H has of the kinds K what the snapshot has, C. *)
CategoryUpdate(G, H, K, C) ==
    /\ \A n : n.kind \notin K => (n \in H.nodes <=> n \in G.nodes)
    /\ NodesOfKinds(H, K) = C

\* Reloading a category.
LEMMA Reload ==
    ASSUME NEW G, ImageGraph(G), NEW s, NoImages(s), NEW K, "Pod" \notin K, "Image" \notin K,
           NEW C, \A n \in C : n.kind \in K,
           NEW L, "uses_image" \notin L, NEW E, Joins(s, E)
    PROVE  LET H == Upsert(DeleteNodes(DeleteEdges(G, EdgesOfKinds(G, L)), StaleNodes(G, K, C)), C, E)
           IN  LeavesImages(G, H, s, K) /\ CategoryUpdate(G, H, K, C)
<1> DEFINE X == StaleNodes(G, K, C)
           D == DeleteEdges(G, EdgesOfKinds(G, L))
           H == Upsert(DeleteNodes(D, X), C, E)
<1>1. D.nodes = G.nodes /\ D.edges = G.edges \ EdgesOfKinds(G, L)
  BY DEF DeleteEdges, Graph
<1> HIDE DEF D
<1>2. H.nodes = (G.nodes \ X) \cup C
        /\ H.edges = {e \in D.edges : e.from \notin X /\ e.to \notin X} \cup E
  BY <1>1 DEF DeleteNodes, Upsert, Graph
<1>3. X = {n \in G.nodes : n.kind \in K /\ n \notin C}
  BY DEF StaleNodes, NodesOfKinds
<1>4. \A e \in E : e.kind # "uses_image" /\ e.from \in Entities(s) /\ e.to \in Entities(s)
  BY EntitiesAreNotImages DEF Joins
<1> HIDE DEF H, X
<1>5. CategoryUpdate(G, H, K, C)
  BY <1>2, <1>3 DEF CategoryUpdate, NodesOfKinds
<1>6. EdgesOfKinds(H, {"uses_image"}) = EdgesOfKinds(G, {"uses_image"})
  BY <1>1, <1>2, <1>3, <1>4 DEF EdgesOfKinds, ImageGraph, ImageEnds
<1>7. LeavesImages(G, H, s, K)
  BY <1>1, <1>2, <1>4, <1>5, <1>6 DEF LeavesImages, CategoryUpdate
<1> QED BY <1>5, <1>7 DEF H, D, X

\* IdentitySecurityReconciler
LEMMA IdentityUpdate ==
    ASSUME NEW G, ImageGraph(G), NEW s, NoImages(s)
    PROVE  LET H == ApplyIdentitySecurity(G, s)
           IN  LeavesImages(G, H, s, IdentityKinds) /\ CategoryUpdate(G, H, IdentityKinds, IdentityIDs(s))
<1>1. \A n \in IdentityIDs(s) : n.kind \in IdentityKinds
  BY ObjectID DEF IdentityIDs, IDs
<1>2. Joins(s, IdentityEdges(s))
  BY PodJoins, OtherJoins DEF IdentityEdges, Joins
<1>3. "Pod" \notin IdentityKinds /\ "Image" \notin IdentityKinds /\ "uses_image" \notin IdentityEdgeKinds
  BY DEF IdentityKinds, IdentityEdgeKinds
<1> QED BY <1>1, <1>2, <1>3, Reload DEF ApplyIdentitySecurity

\* StorageReconciler
LEMMA StorageUpdate ==
    ASSUME NEW G, ImageGraph(G), NEW s, NoImages(s)
    PROVE  LET H == ApplyStorage(G, s)
           IN  LeavesImages(G, H, s, StorageKinds) /\ CategoryUpdate(G, H, StorageKinds, StorageIDs(s))
<1>1. \A n \in StorageIDs(s) : n.kind \in StorageKinds
  BY ObjectID, DriverID DEF StorageIDs, StorageKinds, IDs
<1>2. "Pod" \notin StorageKinds /\ "Image" \notin StorageKinds /\ "uses_image" \notin StorageEdgeKinds
  BY DEF StorageKinds, StorageEdgeKinds
<1> QED BY <1>1, <1>2, StorageJoins, Reload DEF ApplyStorage

-----------------------------------------------------------------------------
\* Pruning takes exactly the images that no edge is left to.
LEMMA Prune ==
    ASSUME NEW G, NEW I, ImageEnds(G),
           \A n \in NodesOfKinds(G, {"Image"}) :
                n \in I \/ \E e \in EdgesOfKinds(G, {"uses_image"}) : e.to = n
    PROVE  LET H == pruneImages(G, I)
           IN  /\ ImageGraph(H) /\ H.edges = G.edges
               /\ \A n : n.kind # "Image" => (n \in H.nodes <=> n \in G.nodes)
<1> DEFINE X == {i \in I : ~nodeReferenced(G, i) /\ i.kind = "Image"}
           H == pruneImages(G, I)
<1>1. H.nodes = G.nodes \ X /\ H.edges = {e \in G.edges : e.from \notin X /\ e.to \notin X}
  BY DEF pruneImages, DeleteNodes, Graph
<1>2. \A e \in G.edges : e.from \notin X /\ e.to \notin X
  BY DEF nodeReferenced
<1>3. H.edges = G.edges
  BY <1>1, <1>2
<1>4. ImageEnds(H)
  BY <1>1, <1>2, <1>3 DEF ImageEnds
<1>5. ASSUME NEW n \in NodesOfKinds(H, {"Image"})
      PROVE  \E e \in EdgesOfKinds(H, {"uses_image"}) : e.to = n
  <2>1. n \in G.nodes /\ n.kind = "Image" /\ n \notin X
    BY <1>1 DEF NodesOfKinds
  <2>2. CASE n \in I
    <3>1. PICK e \in G.edges : e.from = n \/ e.to = n
      BY <2>1, <2>2 DEF nodeReferenced
    <3>2. e.kind = "uses_image" /\ e.to = n
      BY <2>1, <3>1 DEF ImageEnds
    <3> QED BY <1>3, <3>2 DEF EdgesOfKinds
  <2>3. CASE n \notin I
    BY <1>3, <2>1, <2>3 DEF NodesOfKinds, EdgesOfKinds
  <2> QED BY <2>2, <2>3
<1>6. \A n : n.kind # "Image" => (n \in H.nodes <=> n \in G.nodes)
  BY <1>1
<1> HIDE DEF H, X
<1> QED BY <1>3, <1>4, <1>5, <1>6 DEF ImageGraph, H

(* The update of a pod changes nodes and image edges of the pods of that name *)
(* only, and sets its image edges.                                            *)
PodOnly(G, H, s, ns, name, change) ==
    LET found == Named(s, "Pod", ns, {name})
    IN  /\ \A n : n.kind # "Image" /\ ~Bears(n, "Pod", ns, name) => (n \in H.nodes <=> n \in G.nodes)
        /\ NodesNamed(H, "Pod", ns, name) = IF change = "delete" THEN {} ELSE IDs(found)
        /\ \A e : e.kind = "uses_image" /\ ~Bears(e.from, "Pod", ns, name) =>
                    (e \in H.edges <=> e \in G.edges)
        /\ \A e \in H.edges : e \in G.edges \/ (e.from \in BuildNodes(s) /\ e.to \in BuildNodes(s))
        /\ change # "delete" => \A p \in found : UsedImages(H, {ID(p)}) = ImageIDs(p)

\* The edges a pod is given: its image edges, and edges that touch no image.
LEMMA PodEdges ==
    ASSUME NEW s, NoImages(s), NEW p \in OfKind(s, "Pod")
    PROVE  /\ PodImageEdges(p) \subseteq rebuildPodEdges(s, p)
           /\ \A e \in rebuildPodEdges(s, p) :
                \/ e \in PodImageEdges(p)
                \/ e.kind # "uses_image" /\ e.from \in Entities(s) /\ e.to \in Entities(s)
<1> DEFINE S == {[from |-> ID(v), kind |-> "selects_pod", to |-> ID(p)] : v \in SelectingServices(s, p)}
<1>1. /\ Joins(s, PodReferenceEdges(s, p) \ PodImageEdges(p))
      /\ PodImageEdges(p) \subseteq PodReferenceEdges(s, p)
      /\ Joins(s, MountEdges(s, p)) /\ Joins(s, AccountEdges(s, p)) /\ Joins(s, OwnerEdges(s, p))
      /\ Joins(s, S)
  BY PodJoins
<1>2. rebuildPodEdges(s, p) = PodReferenceEdges(s, p) \cup MountEdges(s, p) \cup AccountEdges(s, p)
                                \cup OwnerEdges(s, p) \cup S
  BY DEF rebuildPodEdges
<1> HIDE DEF S
<1>3. Joins(s, rebuildPodEdges(s, p) \ PodImageEdges(p))
  BY <1>1, <1>2 DEF Joins
<1> QED BY <1>1, <1>2, <1>3, EntitiesAreNotImages DEF Joins

\* PodReconciler
LEMMA PodUpdate ==
    ASSUME NEW G, ImageGraph(G), NEW s, NoImages(s), NEW ns, NEW name, NEW change,
           \A x, y \in Named(s, "Pod", ns, {name}) : x = y
    PROVE  LET H == ApplyPod(G, s, ns, name, change)
           IN  ImageGraph(H) /\ PodOnly(G, H, s, ns, name, change)
<1> DEFINE found == Named(s, "Pod", ns, {name})
           held == NodesNamed(G, "Pod", ns, name)
           H == ApplyPod(G, s, ns, name, change)
<1>0. \A n : n \in held <=> n \in G.nodes /\ Bears(n, "Pod", ns, name)
  BY DEF NodesNamed, Bears
<1>1. CASE change = "delete" \/ found = {}
  <2> DEFINE D == DeleteNodes(G, held)
             I == UsedImages(G, held)
  <2>1. H = pruneImages(D, I)
    BY <1>1 DEF ApplyPod
  <2>2. D.nodes = G.nodes \ held /\ D.edges = {e \in G.edges : e.from \notin held /\ e.to \notin held}
    BY DEF DeleteNodes, Graph
  <2>3. IDs(found) = {} \/ change = "delete"
    BY <1>1 DEF IDs
  <2>4. change # "delete" => found = {}
    BY <1>1
  <2> HIDE DEF H, D, held, found
  <2>5. ImageEnds(D)
    BY <1>0, <2>2 DEF ImageEnds, ImageGraph, Bears
  <2>6. ASSUME NEW n \in NodesOfKinds(D, {"Image"})
        PROVE  n \in I \/ \E e \in EdgesOfKinds(D, {"uses_image"}) : e.to = n
    <3>1. PICK e \in G.edges : e.kind = "uses_image" /\ e.to = n
      BY <2>2 DEF ImageGraph, NodesOfKinds, EdgesOfKinds
    <3>2. n \notin held
      BY <2>2 DEF NodesOfKinds
    <3> QED BY <2>2, <3>1, <3>2 DEF UsedImages, EdgesOfKinds
  <2> HIDE DEF I
  <2>7. /\ ImageGraph(H) /\ H.edges = D.edges
        /\ \A n : n.kind # "Image" => (n \in H.nodes <=> n \in D.nodes)
    BY <2>1, <2>5, <2>6, Prune
  <2>8. NodesNamed(H, "Pod", ns, name) = {}
    BY <1>0, <2>2, <2>7 DEF NodesNamed, Bears
  <2>9. \A e : e.kind = "uses_image" /\ ~Bears(e.from, "Pod", ns, name) =>
                    (e \in H.edges <=> e \in G.edges)
    <3>1. \A e \in G.edges : e.kind = "uses_image" => e.to \notin held
      BY <1>0 DEF ImageGraph, ImageEnds, Bears
    <3> QED BY <1>0, <2>2, <2>7, <3>1
  <2>10. H.edges \subseteq G.edges
    BY <2>2, <2>7
  <2>11. \A n : n.kind # "Image" /\ ~Bears(n, "Pod", ns, name) => (n \in H.nodes <=> n \in G.nodes)
    BY <1>0, <2>2, <2>7
  <2> QED BY <2>3, <2>4, <2>7, <2>8, <2>9, <2>10, <2>11 DEF PodOnly, found, H
<1>2. CASE change # "delete" /\ found # {}
  <2> DEFINE p == CHOOSE x \in found : TRUE
             B == OtherIncarnations(held, p)
             C == DeleteEdges(DeleteNodes(G, B), PodScopedEdges(G, ID(p)))
             R == rebuildPodEdges(s, p)
             U == Upsert(C, {ID(p)} \cup ImageIDs(p), R)
             I == UsedImages(G, held \cup {ID(p)})
  <2>1. p \in found
    BY <1>2
  <2>2. H = pruneImages(U, I)
    BY <1>2 DEF ApplyPod
  <2>3. U.nodes = (G.nodes \ B) \cup {ID(p)} \cup ImageIDs(p)
    BY DEF Upsert, DeleteEdges, DeleteNodes, Graph
  <2>4. U.edges = ({e \in G.edges : e.from \notin B /\ e.to \notin B} \ PodScopedEdges(G, ID(p))) \cup R
    BY DEF Upsert, DeleteEdges, DeleteNodes, Graph
  <2>5. found = {p}
    BY <2>1
  <2>6. p \in OfKind(s, "Pod")
    BY <2>1 DEF Named
  <2> HIDE DEF H, U, C, p
  <2>7. IDs(found) = {ID(p)} /\ Bears(ID(p), "Pod", ns, name)
    BY <2>1, <2>5, NamedBear DEF IDs
  <2>8. B = held \ {ID(p)}
    BY DEF OtherIncarnations
  <2>9. /\ PodImageEdges(p) \subseteq R
        /\ \A e \in R : \/ e \in PodImageEdges(p)
                        \/ e.kind # "uses_image" /\ e.from \in Entities(s) /\ e.to \in Entities(s)
    BY <2>6, PodEdges
  <2>10. \A e \in G.edges : e.kind = "uses_image" => (e \in PodScopedEdges(G, ID(p)) <=> e.from = ID(p))
    BY DEF PodScopedEdges, isPodScopedEdge, PodSourceKinds, PodTargetKinds
  <2> HIDE DEF found, held, B, R
  <2>11. \A e \in G.edges : e.kind = "uses_image" => e.to \notin B
    BY <1>0, <2>8 DEF ImageGraph, ImageEnds, Bears
  <2>12. \A e : e.kind = "uses_image" =>
            (e \in U.edges <=> \/ e \in G.edges /\ e.from \notin B /\ e.from # ID(p)
                               \/ e \in PodImageEdges(p))
    BY <2>4, <2>9, <2>10, <2>11
  <2>13. ImageEnds(U)
    <3> SUFFICES ASSUME NEW e \in U.edges
                 PROVE  IF e.kind = "uses_image"
                        THEN /\ e.from \in U.nodes /\ e.from.kind = "Pod"
                             /\ e.to \in U.nodes /\ e.to.kind = "Image"
                        ELSE e.from.kind # "Image" /\ e.to.kind # "Image"
      BY DEF ImageEnds
    <3>1. CASE e \in PodImageEdges(p)
      BY <2>3, <2>7, <3>1, PodImages DEF Bears
    <3>2. CASE e \notin PodImageEdges(p) /\ e.kind = "uses_image"
      BY <2>3, <2>11, <2>12, <3>2 DEF ImageGraph, ImageEnds
    <3>3. CASE e \notin PodImageEdges(p) /\ e.kind # "uses_image"
      BY <2>4, <2>9, <3>3, EntitiesAreNotImages DEF ImageGraph, ImageEnds
    <3> QED BY <3>1, <3>2, <3>3
  <2>14. ASSUME NEW n \in NodesOfKinds(U, {"Image"})
         PROVE  n \in I \/ \E e \in EdgesOfKinds(U, {"uses_image"}) : e.to = n
    <3>1. n \in U.nodes /\ n.kind = "Image" /\ n # ID(p)
      BY <2>7 DEF NodesOfKinds, Bears
    <3>2. CASE n \in ImageIDs(p)
      <4>1. PICK e \in PodImageEdges(p) : e.to = n
        BY <3>2, PodImages
      <4>2. e.kind = "uses_image" /\ e \in U.edges
        BY <2>12, PodImages
      <4> QED BY <4>1, <4>2 DEF EdgesOfKinds
    <3>3. CASE n \notin ImageIDs(p)
      <4>1. PICK e \in G.edges : e.kind = "uses_image" /\ e.to = n
        BY <2>3, <3>1, <3>3 DEF ImageGraph, NodesOfKinds, EdgesOfKinds
      <4>2. CASE e \in U.edges
        BY <4>1, <4>2 DEF EdgesOfKinds
      <4>3. CASE e \notin U.edges
        <5>1. e.from \in held \cup {ID(p)}
          BY <2>8, <2>12, <4>1, <4>3
        <5> QED BY <4>1, <5>1 DEF UsedImages
      <4> QED BY <4>2, <4>3
    <3> QED BY <3>2, <3>3
  <2> HIDE DEF I
  <2>15. /\ ImageGraph(H) /\ H.edges = U.edges
         /\ \A n : n.kind # "Image" => (n \in H.nodes <=> n \in U.nodes)
    BY <2>2, <2>13, <2>14, Prune
  <2>16. \A n \in ImageIDs(p) : n.kind = "Image"
    BY PodImages
  <2>17. NodesNamed(H, "Pod", ns, name) = {ID(p)}
    BY <1>0, <2>3, <2>7, <2>8, <2>15, <2>16 DEF NodesNamed, Bears
  <2>18. \A n : n.kind # "Image" /\ ~Bears(n, "Pod", ns, name) => (n \in H.nodes <=> n \in G.nodes)
    BY <1>0, <2>3, <2>7, <2>8, <2>15, <2>16
  <2>19. \A e : e.kind = "uses_image" /\ ~Bears(e.from, "Pod", ns, name) =>
                    (e \in H.edges <=> e \in G.edges)
    BY <1>0, <2>7, <2>8, <2>12, <2>15, PodImages
  <2>20. UsedImages(H, {ID(p)}) = ImageIDs(p)
    BY <2>12, <2>15, PodImages DEF UsedImages
  <2>21. \A e \in H.edges : e \in G.edges \/ (e.from \in BuildNodes(s) /\ e.to \in BuildNodes(s))
    <3>1. \A e \in PodImageEdges(p) : e.from \in BuildNodes(s) /\ e.to \in BuildNodes(s)
      <4>1. ID(p) \in BuildNodes(s)
        BY <2>6 DEF BuildNodes, IDs, OfKind
      <4>2. ImageIDs(p) \subseteq BuildNodes(s)
        BY <2>6 DEF BuildNodes
      <4> QED BY <4>1, <4>2, PodImages
    <3>2. Entities(s) \subseteq BuildNodes(s)
      BY DEF Entities, BuildNodes
    <3> QED BY <2>4, <2>9, <2>15, <3>1, <3>2
  <2> QED BY <1>2, <2>5, <2>7, <2>15, <2>17, <2>18, <2>19, <2>20, <2>21 DEF PodOnly, found, H
<1> QED BY <1>1, <1>2

-----------------------------------------------------------------------------
(* Full rebuilds. *)

\* The nodes a rebuild loads, kind by kind.
LEMMA BuildKinds ==
    ASSUME NEW s, NoImages(s)
    PROVE  /\ \A n : n.kind \notin StorageKinds \cup {"Image"} =>
                (n \in BuildNodes(s) <=> n \in IDs({o \in s : o.kind # "ReplicaSet"}))
           /\ {n \in BuildNodes(s) : n.kind \in StorageKinds} = StorageIDs(s)
           /\ {n \in BuildNodes(s) : n.kind \in IdentityKinds} = IdentityIDs(s)
           /\ {n \in BuildNodes(s) : n.kind = "Image"} = UNION {ImageIDs(p) : p \in OfKind(s, "Pod")}
<1> DEFINE O == IDs({o \in s : o.kind # "ReplicaSet"})
           I == UNION {ImageIDs(p) : p \in OfKind(s, "Pod")}
           D == SyntheticDrivers(s)
<1>1. BuildNodes(s) = O \cup I \cup D
  BY DEF BuildNodes
<1>2. \A n \in I : n.kind = "Image"
  BY PodImages
<1>3. \A n \in D : n.kind = "CSIDriver"
  BY DriverID
<1>4. \A n \in O : n.kind # "Image"
  BY ObjectID DEF NoImages, IDs
<1>5. {n \in O : n.kind \in StorageKinds} = IDs({o \in s : o.kind \in StorageKinds})
  BY ObjectID DEF IDs, StorageKinds
<1>6. {n \in O : n.kind \in IdentityKinds} = IDs({o \in s : o.kind \in IdentityKinds})
  BY ObjectID DEF IDs, IdentityKinds
<1> HIDE DEF O, I, D
<1>7. "CSIDriver" \in StorageKinds /\ "Image" \notin StorageKinds
  BY DEF StorageKinds
<1>8. "CSIDriver" \notin IdentityKinds /\ "Image" \notin IdentityKinds
  BY DEF IdentityKinds
<1>9. \A n : n.kind \notin StorageKinds \cup {"Image"} => (n \in BuildNodes(s) <=> n \in O)
  BY <1>1, <1>2, <1>3, <1>7
<1>10. {n \in BuildNodes(s) : n.kind \in StorageKinds} = StorageIDs(s)
  BY <1>1, <1>2, <1>3, <1>5, <1>7 DEF StorageIDs, D
<1>11. {n \in BuildNodes(s) : n.kind \in IdentityKinds} = IdentityIDs(s)
  BY <1>1, <1>2, <1>3, <1>6, <1>8 DEF IdentityIDs
<1>12. {n \in BuildNodes(s) : n.kind = "Image"} = I
  BY <1>1, <1>2, <1>3, <1>4
<1> QED BY <1>9, <1>10, <1>11, <1>12 DEF O, I

\* A pod of a rebuilt graph has the image edges of its object.
LEMMA BuildUsedImages ==
    ASSUME NEW s, NEW pick \in WebhookPicks(s, Webhooks(s)), NEW p \in OfKind(s, "Pod"),
           \A q \in OfKind(s, "Pod") : ID(q) = ID(p) => q = p
    PROVE  UsedImages(Build(s, pick), {ID(p)}) = ImageIDs(p)
<1> DEFINE E == BuildEdges(s, pick)
<1>1. \A e \in E : e.kind = "uses_image" => e \in ImageEdges(s)
  BY BuildJoins DEF Joins
<1>2. PodImageEdges(p) \subseteq E
  BY BuildJoins DEF ImageEdges
<1>3. \A e \in ImageEdges(s) : e.from = ID(p) => e \in PodImageEdges(p)
  BY PodImages DEF ImageEdges
<1>4. Build(s, pick).edges = E
  BY DEF Build, Graph
<1> HIDE DEF E
<1> QED BY <1>1, <1>2, <1>3, <1>4, PodImages DEF UsedImages

\* Builder.Build leaves no dangling edge: every edge a full rebuild loads ends in
\* nodes that it loads.
THEOREM BuildClosed ==
    ASSUME NEW s, NEW pick \in WebhookPicks(s, Webhooks(s))
    PROVE  \A e \in BuildEdges(s, pick) : e.from \in BuildNodes(s) /\ e.to \in BuildNodes(s)
<1>1. Entities(s) \subseteq BuildNodes(s)
  BY DEF Entities, BuildNodes
<1>2. ASSUME NEW e \in ImageEdges(s) PROVE e.from \in BuildNodes(s) /\ e.to \in BuildNodes(s)
  <2>1. PICK p \in OfKind(s, "Pod") : e \in PodImageEdges(p)
    BY DEF ImageEdges
  <2>2. e.from = ID(p) /\ e.to \in ImageIDs(p)
    BY <2>1, PodImages
  <2>3. ID(p) \in BuildNodes(s)
    BY DEF BuildNodes, IDs, OfKind
  <2>4. ImageIDs(p) \subseteq BuildNodes(s)
    BY DEF BuildNodes
  <2> QED BY <2>2, <2>3, <2>4
<1> QED BY <1>1, <1>2, BuildJoins DEF Joins

-----------------------------------------------------------------------------
(* Whatever an update adds comes from the snapshot. *)
Grows(G, H, s) ==
    /\ H.nodes \subseteq G.nodes \cup BuildNodes(s)
    /\ \A e \in H.edges : e \in G.edges \/ (e.from \in BuildNodes(s) /\ e.to \in BuildNodes(s))

\* So it is with the updates of one object that is not a pod.
LEMMA ScopedGrows ==
    ASSUME NEW G, NEW H, NEW s, NEW K, K # "ReplicaSet", NEW ns, NEW name, NEW change,
           LeavesImages(G, H, s, {K}), ScopedUpdate(G, H, s, K, ns, name, change)
    PROVE  Grows(G, H, s)
<1>1. Entities(s) \subseteq BuildNodes(s)
  BY DEF Entities, BuildNodes
<1>2. IDs(Named(s, K, ns, {name})) \subseteq Entities(s)
  BY KindEntity
<1>3. H.nodes \subseteq G.nodes \cup BuildNodes(s)
  BY <1>1, <1>2 DEF ScopedUpdate, NodesNamed, Bears
<1> QED BY <1>1, <1>3 DEF LeavesImages, Grows

\* So it is with the updates of a category.
LEMMA CategoryGrows ==
    ASSUME NEW G, NEW H, NEW s, NEW K, NEW C \in SUBSET BuildNodes(s),
           LeavesImages(G, H, s, K), CategoryUpdate(G, H, K, C)
    PROVE  Grows(G, H, s)
<1>1. Entities(s) \subseteq BuildNodes(s)
  BY DEF Entities, BuildNodes
<1>2. H.nodes \subseteq G.nodes \cup BuildNodes(s)
  BY DEF CategoryUpdate, NodesOfKinds
<1> QED BY <1>1, <1>2 DEF LeavesImages, Grows

\* So it is with the update of a pod.
LEMMA PodGrows ==
    ASSUME NEW G, ImageGraph(G), NEW H, ImageGraph(H), NEW s, NEW ns, NEW name, NEW change,
           PodOnly(G, H, s, ns, name, change)
    PROVE  Grows(G, H, s)
<1>1. \A e \in H.edges : e \in G.edges \/ (e.from \in BuildNodes(s) /\ e.to \in BuildNodes(s))
  BY DEF PodOnly
<1>2. ASSUME NEW n \in H.nodes PROVE n \in G.nodes \cup BuildNodes(s)
  <2>1. CASE n.kind = "Image"
    <3>1. PICK e \in H.edges : e.kind = "uses_image" /\ e.to = n
      BY <2>1 DEF ImageGraph, NodesOfKinds, EdgesOfKinds
    <3> QED BY <1>1, <3>1 DEF ImageGraph, ImageEnds
  <2>2. CASE Bears(n, "Pod", ns, name)
    <3>1. n \in IDs(Named(s, "Pod", ns, {name}))
      BY <2>2 DEF PodOnly, NodesNamed, Bears
    <3>2. IDs(Named(s, "Pod", ns, {name})) \subseteq Entities(s)
      BY KindEntity
    <3> QED BY <3>1, <3>2 DEF Entities, BuildNodes
  <2>3. CASE n.kind # "Image" /\ ~Bears(n, "Pod", ns, name)
    BY <2>3 DEF PodOnly
  <2> QED BY <2>1, <2>2, <2>3
<1> QED BY <1>1, <1>2 DEF Grows

\* A category depends on the objects of its kinds alone.
LEMMA SameCategories ==
    ASSUME NEW s, NEW u
    PROVE  /\ {o \in s : o.kind \in StorageKinds} = {o \in u : o.kind \in StorageKinds}
                => StorageIDs(s) = StorageIDs(u)
           /\ {o \in s : o.kind \in IdentityKinds} = {o \in u : o.kind \in IdentityKinds}
                => IdentityIDs(s) = IdentityIDs(u)
<1>1. ASSUME {o \in s : o.kind \in StorageKinds} = {o \in u : o.kind \in StorageKinds}
      PROVE  StorageIDs(s) = StorageIDs(u)
  <2>1. OfKind(s, "StorageClass") = OfKind(u, "StorageClass")
    BY <1>1 DEF OfKind, StorageKinds
  <2>2. OfKind(s, "CSIDriver") = OfKind(u, "CSIDriver")
    BY <1>1 DEF OfKind, StorageKinds
  <2>3. SyntheticDrivers(s) = SyntheticDrivers(u)
    BY <2>1, <2>2, Zenon DEF SyntheticDrivers, Named
  <2> QED BY <1>1, <2>3 DEF StorageIDs
<1> QED BY <1>1 DEF IdentityIDs

=============================================================================
