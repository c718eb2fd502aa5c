------------------------------ MODULE LiveGraph ------------------------------
(***************************************************************************)
(* The graph of a running daemon in informer mode: a cluster that changes, *)
(* the events the informers hand over (collect/k8s/stream.go), and the     *)
(* manager that takes them one by one, collects a snapshot for each, list  *)
(* by list while the cluster goes on changing, and applies it              *)
(* (runtime/manager.go).                                                   *)
(*                                                                         *)
(* The behaviours start when the bootstrap graph is in place and every     *)
(* informer has listed the same state.  An informer delivers its events in *)
(* order; all share one channel, whose order across informers is open, so  *)
(* the manager may find the next event of any of them.  When the collects  *)
(* of an event fail twice the stream ends: that path is not followed here. *)
(***************************************************************************)
EXTENDS Reconcilers

CONSTANTS
    Templates,   \* objects the cluster may hold, less their uids
    Initial,     \* objects it holds at first
    MaxChanges,  \* bound on the changes of the cluster
    MaxFailures  \* bound on the collects that fail

VARIABLES
    cluster,     \* the live objects
    changes,     \* objects at first and changes since; also the last uid given out
    pending,     \* pending[i]: events of informer i not yet taken
    current,     \* the event being applied, or NoEvent
    strategy,    \* "narrow" or "full": what the collect in progress is for
    todo,        \* positions in CollectOrder the collect has yet to list
    collected,   \* what it has listed
    failures,    \* failed collects so far
    g            \* the kernel's graph

stream == <<pending, current>>
collecting == <<strategy, todo, collected>>
vars == <<cluster, changes, stream, collecting, failures, g>>

NoEvent == [kind |-> "none", ns |-> "", name |-> "", change |-> "none"]

-----------------------------------------------------------------------------
(* The API server, from what src/ reads of it. *)

SameKey(o, t) == o.src = t.src /\ o.ns = t.ns /\ o.name = t.name

(* References by uid name the live object. *)
LiveUid(src, ns, name) ==
    LET live == {o \in cluster : o.src = src /\ o.ns = ns /\ o.name = name}
    IN  IF live = {} THEN NoUid ELSE (CHOOSE o \in live : TRUE).uid
Stamp(t, uid) ==
    [f \in DOMAIN t |->
        CASE f = "uid"      -> uid
          [] f = "owners"   -> {[r EXCEPT !.uid = LiveUid(r.kind, t.ns, r.name)] : r \in t.owners}
          [] f = "involved" -> [t.involved EXCEPT !.uid = LiveUid(t.involved.kind, t.ns, t.involved.name)]
          [] OTHER          -> t[f]]

-----------------------------------------------------------------------------
(* stream.go *)

informerChangeKind(o) ==
    CASE o.kind \in {"Workload", "ReplicaSet"} -> "workload"
      [] o.kind = "Pod"                        -> "pod"
      [] o.kind = "Service"                    -> "service"
      [] o.kind \in StorageKinds               -> "storage"
      [] o.kind = "Event"                      -> "event"
      [] o.kind \in IdentityKinds              -> "identity/security"
      [] OTHER                                 -> ""

(* A ReplicaSet's event carries the name of its controller. *)
EventName(o) ==
    IF o.kind = "ReplicaSet" /\ \E r \in o.owners : r.controller
    THEN (CHOOSE r \in o.owners : r.controller).name
    ELSE o.name

changeEventForInformerObject(o, change) ==
    [kind |-> informerChangeKind(o), ns |-> o.ns, name |-> EventName(o), change |-> change]

Informers == {t.src : t \in {x \in Templates \cup Initial : informerChangeKind(x) # ""}}

enqueueUpsertsOnly(o, change) ==
    pending' = IF o.src \in Informers /\ change = "upsert"
               THEN [pending EXCEPT ![o.src] = Append(@, changeEventForInformerObject(o, change))]
               ELSE pending
enqueueInformerEvent(o, change) ==
    pending' = IF o.src \in Informers
               THEN [pending EXCEPT ![o.src] = Append(@, changeEventForInformerObject(o, change))]
               ELSE pending

Change == changes < Cardinality(Initial) + MaxChanges /\ changes' = changes + 1

CreateObject(t) ==
    /\ Change
    /\ \A o \in cluster : ~SameKey(o, t)
    /\ LET o == Stamp(t, changes')
       IN  cluster' = cluster \cup {o} /\ enqueueInformerEvent(o, "upsert")
    /\ UNCHANGED <<current, collecting, failures, g>>

(* Fields the API server lets no update change, and fields it sets once. *)
Immutable == {"sa", "configMaps", "secrets", "pvcs", "provisioner", "driver", "involved", "failed"}
SetOnce == {"node", "volume", "sc"}
MayBecome(o, t) ==
    \A f \in DOMAIN o : /\ f \in Immutable => t[f] = o[f]
                        /\ f \in SetOnce => o[f] \in {"", t[f]}

UpdateObject(o, t) ==
    /\ Change
    /\ SameKey(o, t) /\ MayBecome(o, t) /\ Stamp(t, o.uid) # o
    /\ cluster' = (cluster \ {o}) \cup {Stamp(t, o.uid)}
    /\ enqueueInformerEvent(Stamp(t, o.uid), "upsert")
    /\ UNCHANGED <<current, collecting, failures, g>>

DeleteObject(o) ==
    /\ Change
    /\ cluster' = cluster \ {o}
    /\ enqueueInformerEvent(o, "delete")
    /\ UNCHANGED <<current, collecting, failures, g>>

-----------------------------------------------------------------------------
(* collector.go: one list call for each kind, in this order.  "Custom" and   *)
(* "ClusterCustom" are configured workload resources with and without a      *)
(* namespace.  One namespace is collected.  Kinds of no object here are      *)
(* skipped, as are those the daemon may not list (StorageClass, CSIDriver):  *)
(* what it may list does not change while it runs.                           *)

CollectOrder ==
    <<"Deployment", "StatefulSet", "DaemonSet", "Job", "ReplicaSet", "Custom", "Pod", "Service",
      "ConfigMap", "Secret", "ServiceAccount", "RoleBinding", "PersistentVolumeClaim", "Event",
      "ClusterCustom", "Node", "ClusterRoleBinding", "PersistentVolume", "StorageClass",
      "CSIDriver", "WebhookConfig">>
Lists == {i \in DOMAIN CollectOrder : \E t \in Templates \cup Initial : t.src = CollectOrder[i]}
ListedAs == {CollectOrder[i] : i \in DOMAIN CollectOrder}

(* The node kind of what a list call returns. *)
NodeKind(src) ==
    CASE src \in {"Deployment", "StatefulSet", "DaemonSet", "Job", "Custom", "ClusterCustom"} -> "Workload"
      [] src = "PersistentVolumeClaim" -> "PVC"
      [] src = "PersistentVolume"      -> "PV"
      [] OTHER                         -> src

ASSUME ObjectsAssumption ==
    /\ \A o \in Templates \cup Initial :
        /\ {"kind", "src", "ns", "name", "uid"} \subseteq DOMAIN o
        /\ o.src \in ListedAs /\ o.kind = NodeKind(o.src)
        /\ o.name \in STRING
        /\ o.kind = "Pod" =>
            {"images", "node", "pvcs"} \subseteq DOMAIN o /\ o.images \subseteq STRING
        /\ o.kind = "Event" => "involved" \in DOMAIN o /\ "kind" \in DOMAIN o.involved
        /\ o.kind = "StorageClass" => "provisioner" \in DOMAIN o /\ o.provisioner \in STRING
        /\ o.kind = "ReplicaSet" =>
            "owners" \in DOMAIN o /\ \A r \in o.owners : "name" \in DOMAIN r /\ r.name \in STRING
    /\ IsFiniteSet(Initial) /\ MaxChanges \in Nat
    /\ \A o \in Initial : o.uid \in 1..Cardinality(Initial)
    /\ \A o, x \in Initial : SameKey(o, x) => o = x
    /\ Slashed \in [DOMAIN Slashed -> STRING]

StartCollectResumes(what) == strategy' = what /\ todo' = Lists /\ UNCHANGED collected
StartCollect(what) == strategy' = what /\ todo' = Lists /\ collected' = {}

(* InformerStream.Run receives an event and calls Manager.Apply. *)
TakeEvent(i) ==
    /\ current = NoEvent /\ pending[i] # <<>>
    /\ current' = Head(pending[i])
    /\ pending' = [pending EXCEPT ![i] = Tail(@)]
    /\ StartCollect("narrow")
    /\ UNCHANGED <<cluster, changes, failures, g>>

CollectList ==
    /\ current # NoEvent /\ todo # {}
    /\ LET i == CHOOSE x \in todo : \A y \in todo : x <= y
       IN  /\ collected' = collected \cup {o \in cluster : o.src = CollectOrder[i]}
           /\ todo' = todo \ {i}
    /\ UNCHANGED <<cluster, changes, stream, strategy, failures, g>>

(* A failed list fails the collect; a failed narrow apply falls back to a    *)
(* full rebuild, which collects again.                                       *)
CollectFail ==
    /\ failures < MaxFailures
    /\ current # NoEvent /\ todo # {} /\ strategy = "narrow"
    /\ failures' = failures + 1
    /\ StartCollect("full")
    /\ UNCHANGED <<cluster, changes, stream, g>>

-----------------------------------------------------------------------------
(* manager.go: the six apply*Change functions, under Manager.mu. *)

(* Reconcilers of one object return an error when it has no namespace or name. *)
Rejected(ev) ==
    /\ ev.kind \in {"service", "event", "pod", "workload"}
    /\ ev.ns = "" \/ ev.name = ""

NarrowApply(ev, s, pick) ==
    CASE ev.kind = "service" -> ApplyService(g, s, ev.ns, ev.name, ev.change)
      [] ev.kind = "event"   -> ApplyEvent(g, s, ev.ns, ev.name, ev.change, pick)
      [] ev.kind = "storage" -> ApplyStorage(g, s)
      [] ev.kind = "identity/security" -> ApplyIdentitySecurity(g, s)
      [] ev.kind = "pod"     ->
            ApplyWorkloadControllerRules(ApplyPod(g, s, ev.ns, ev.name, ev.change), s)
      [] ev.kind = "workload" ->
            ApplyWorkloadControllerRules(ApplyWorkload(g, s, ev.ns, ev.name, ev.change, pick), s)

(* The webhooks an event may be blamed on by this apply. *)
Candidates(ev, s) == IF ev.kind = "workload" THEN KnownWebhooks(g, s) ELSE Webhooks(s)

Done ==
    /\ current' = NoEvent
    /\ strategy' = "narrow" /\ collected' = {}
    /\ UNCHANGED <<cluster, changes, pending, todo, failures>>

ApplyNarrow ==
    /\ current # NoEvent /\ todo = {} /\ strategy = "narrow"
    /\ ~Rejected(current)
    /\ \E pick \in WebhookPicks(collected, Candidates(current, collected)) :
            g' = NarrowApply(current, collected, pick)
    /\ Done

RejectNarrow ==
    /\ current # NoEvent /\ todo = {} /\ strategy = "narrow"
    /\ Rejected(current)
    /\ StartCollect("full")
    /\ UNCHANGED <<cluster, changes, stream, failures, g>>

ApplyFull ==
    /\ current # NoEvent /\ todo = {} /\ strategy = "full"
    /\ \E pick \in WebhookPicks(collected, Webhooks(collected)) : g' = Build(collected, pick)
    /\ Done

-----------------------------------------------------------------------------
Init ==
    /\ cluster = Initial
    /\ changes = Cardinality(Initial)
    /\ pending = [i \in Informers |-> <<>>]
    /\ current = NoEvent
    /\ strategy = "narrow" /\ todo = {} /\ collected = {}
    /\ failures = 0
    /\ \E pick \in WebhookPicks(Initial, Webhooks(Initial)) : g = Build(Initial, pick)

Cluster ==
    \/ \E t \in Templates : CreateObject(t)
    \/ \E o \in cluster, t \in Templates : UpdateObject(o, t)
    \/ \E o \in cluster : (\E t \in Templates : SameKey(o, t)) /\ DeleteObject(o)

Manager ==
    \/ \E i \in Informers : TakeEvent(i)
    \/ CollectList \/ CollectFail
    \/ ApplyNarrow \/ RejectNarrow \/ ApplyFull

Next == Cluster \/ Manager

Spec == Init /\ [][Next]_vars

-----------------------------------------------------------------------------
(***************************************************************************)
(* Properties                                                              *)
(***************************************************************************)

Namespaces == {o.ns : o \in Templates \cup Initial} \cup {""}
NodeID == [kind : {NodeKind(src) : src \in ListedAs} \cup {"Image"}, src : ListedAs \cup {"Image"},
           ns : Namespaces, name : STRING, uid : Nat]

\* The shapes of the state: live objects have distinct keys and uids given out, and
\* a snapshot holds only what the lists its own collect has finished returned, never
\* what is left of one that failed or was refused.
TypeOK ==
    /\ \A o \in cluster : o.uid \in 1..changes
    /\ \A o, x \in cluster : SameKey(o, x) => o = x
    /\ changes <= MaxChanges + Cardinality(Initial)
    /\ todo \subseteq Lists
    /\ current # NoEvent \/ (todo = {} /\ collected = {})
    /\ \A o \in collected : \E i \in Lists \ todo : o.src = CollectOrder[i]
    /\ strategy \in {"narrow", "full"}
    /\ \A n \in g.nodes : n \in NodeID /\ n.uid \in 0..changes
    /\ \A e \in g.edges : e.from \in NodeID /\ e.to \in NodeID

Quiescent == current = NoEvent /\ \A i \in Informers : pending[i] = <<>>

LiveEdges(G) == {e \in G.edges : e.from \in G.nodes /\ e.to \in G.nodes}

\* Once every event has been applied, the nodes are those a full rebuild would
\* load: nothing that was deleted or recreated while events were on their way is
\* left behind or lost.
NodesMatchRebuild == Quiescent => g.nodes = BuildNodes(cluster)

\* Once every event has been applied, the edges between nodes of the graph are
\* those a full rebuild would load, although the snapshots the scoped updates
\* used were collected at different times and list by list.
EdgesMatchRebuild ==
    Quiescent => \E pick \in WebhookPicks(cluster, Webhooks(cluster)) :
                    LiveEdges(g) = BuildEdges(cluster, pick)

(* Kinds of edges that every event they depend on makes the update decide    *)
(* anew.                                                                     *)
KeptKinds ==
    {"scheduled_on", "uses_image", "uses_config_map", "uses_secret", "uses_service_account",
     "mounts_pvc", "selects_pod", "bound_by_role_binding", "bound_to_pv", "uses_storage_class",
     "provisioned_by_csi_driver"} \cup ControllerRuleKinds

\* Once every event has been applied, the edges of these kinds between nodes of the
\* graph are those a full rebuild would load.
KeptEdgesMatchRebuild ==
    Quiescent => {e \in LiveEdges(g) : e.kind \in KeptKinds} =
                    {e \in PlainEdges(cluster) : e.kind \in KeptKinds}

\* At every moment there is an Image node for exactly the images that pods of the
\* graph use: pruneImages drops the last user's image and no other.
ImagesAreUsed == NodesOfKinds(g, {"Image"}) = UsedImages(g, NodesOfKinds(g, {"Pod"}))

\* A scoped update takes an image away only from the pod it is about: an image that
\* other pods share, or whose id collides with theirs, stays with them.
SharedImagesSurvive ==
    [][strategy = "narrow" =>
        \A e \in EdgesOfKinds(g, {"uses_image"}) \ g'.edges :
            current.kind = "pod" /\ e.from.ns = current.ns /\ e.from.name = current.name]_vars

\* At every moment a pod's name has at most one incarnation in the graph.
OnePodPerName ==
    \A m, n \in NodesOfKinds(g, {"Pod"}) : m.ns = n.ns /\ m.name = n.name => m = n

-----------------------------------------------------------------------------
(***************************************************************************)
(* The inductive invariants.                                               *)
(*                                                                         *)
(* First what holds whatever the cluster does: objects keep the shapes of  *)
(* their templates, a snapshot has one object of a key, and image edges    *)
(* join pods of the graph to images of the graph.                          *)
(***************************************************************************)

LikeTemplate(o) ==
    \E t \in Templates \cup Initial :
        /\ o.src = t.src /\ o.kind = t.kind /\ o.ns = t.ns /\ o.name = t.name
        /\ o.kind = "Pod" => o.images = t.images /\ o.node = t.node /\ o.pvcs = t.pvcs
        /\ o.kind = "Event" => o.involved.kind = t.involved.kind
        /\ o.kind = "StorageClass" => o.provisioner = t.provisioner
        /\ o.kind = "ReplicaSet" => \A r \in o.owners : r.name \in STRING

ChangeKinds == {"workload", "pod", "service", "storage", "event", "identity/security"}
ChangeEvent == [kind : ChangeKinds, ns : Namespaces, name : STRING, change : {"upsert", "delete"}]

ToList == {CollectOrder[i] : i \in todo}

ObjectsInv ==
    /\ changes \in Nat
    /\ pending \in [Informers -> Seq(ChangeEvent)]
    /\ current \in ChangeEvent \cup {NoEvent}
    /\ \A o \in cluster \cup collected : LikeTemplate(o) /\ o.uid \in 1..changes
    /\ \A o \in collected : o.src \notin ToList
    /\ \A o, x \in collected : SameKey(o, x) => o = x

IInv == TypeOK /\ ObjectsInv /\ ImageGraph(g) /\ OnePodPerName

(***************************************************************************)
(* Then what makes the scoped updates add up to a rebuild.  It takes a     *)
(* cluster in which all that changes is watched, no ReplicaSet comes or    *)
(* goes, and a workload that changes has its name to itself: the scoped    *)
(* update of a workload goes by namespace and name alone, and the event of *)
(* a ReplicaSet bears the name of another object.                          *)
(***************************************************************************)

ScopesDisjoint ==
    /\ \A t \in Templates : informerChangeKind(t) # "" /\ t.kind # "ReplicaSet"
    /\ \A t \in Templates, u \in Templates \cup Initial :
        t.kind = "Workload" /\ u.kind = "Workload" /\ t.ns = u.ns /\ t.name = u.name
            => t.src = u.src

(* Events about an object, or about the object a node stands for. *)
About(ev, x, change) ==
    /\ ev.kind = informerChangeKind(x) /\ ev.ns = x.ns /\ ev.name = x.name
    /\ ev.change = change
Events(i) == 1..Len(pending[i])
Waiting(x, change) == \E i \in Informers : \E j \in Events(i) : About(pending[i][j], x, change)
Outstanding(x, change) == About(current, x, change) \/ Waiting(x, change)

ScopedKinds == {"Pod", "Service", "Event", "Workload"}
WatchedKinds == ScopedKinds \cup StorageKinds \cup IdentityKinds

\* Every event waits in the informer of the object it is about.
EventsHaveSources ==
    \A i \in Informers : \A j \in Events(i) :
        \E t \in Templates : t.src = i /\ About(pending[i][j], t, pending[i][j].change)

\* A delete event of a live object has an upsert event behind it.
DeletedAndBack ==
    \A o \in cluster : o.kind \in ScopedKinds =>
        /\ \A i \in Informers : \A j \in Events(i) :
            About(pending[i][j], o, "delete") =>
                \E m \in Events(i) : m > j /\ About(pending[i][m], o, "upsert")
        /\ About(current, o, "delete") => Waiting(o, "upsert")

\* Where the lists read so far differ from the cluster, an event that says so waits.
ListsAreTold ==
    /\ \A o \in collected :
        \/ o \in cluster
        \/ Waiting(o, "delete")
        \/ ID(o) \in IDs(cluster) /\ Waiting(o, "upsert")
    /\ current # NoEvent =>
        \A o \in cluster : o.src \notin ToList => o \in collected \/ Waiting(o, "upsert")

\* Where nodes of pods, services, events and workloads differ from the cluster, an
\* event that says so is outstanding; so it is with the images of a pod.
NodesAreTold ==
    /\ \A o \in cluster : o.kind \in ScopedKinds =>
        ID(o) \in g.nodes \/ Outstanding(o, "upsert")
    /\ \A n \in NodesOfKinds(g, ScopedKinds) :
        n \in IDs(cluster) \/ Outstanding(n, "delete")
    /\ \A p \in OfKind(cluster, "Pod") :
        UsedImages(g, {ID(p)}) = ImageIDs(p) \/ Outstanding(p, "upsert")

NoneOutstanding(kind) ==
    current.kind # kind /\ \A i \in Informers : \A j \in Events(i) : pending[i][j].kind # kind

\* With none of its events outstanding, a category is what the cluster has of it.
CategoriesInStep ==
    /\ NoneOutstanding("storage") =>
            NodesOfKinds(g, StorageKinds) = StorageIDs(cluster)
    /\ NoneOutstanding("identity/security") =>
            NodesOfKinds(g, IdentityKinds) = IdentityIDs(cluster)

\* What is not watched does not change.
RestIsStatic ==
    /\ {o \in cluster : o.kind \notin WatchedKinds} = {o \in Initial : o.kind \notin WatchedKinds}
    /\ {n \in g.nodes : n.kind \notin WatchedKinds \cup {"Image"}} =
            IDs({o \in Initial : o.kind \notin WatchedKinds \cup {"ReplicaSet"}})

RebuildInv ==
    /\ EventsHaveSources /\ DeletedAndBack /\ ListsAreTold
    /\ NodesAreTold /\ CategoriesInStep /\ RestIsStatic

(***************************************************************************)
(* Last what makes the edges those of a rebuild, stated edge by edge and   *)
(* for a set K of kinds: when no event that affects an edge is             *)
(* outstanding, it is there if a rebuild would load it and only then.      *)
(* Edges to webhooks are a matter of choice, and of WebhooksInStep.        *)
(***************************************************************************)

OwnerKinds == {"managed_by", "owns_pod", "controlled_by"}
CSIKinds ==
    {"implemented_by_csi_controller", "implemented_by_csi_node_agent",
     "served_by_csi_node_agent", "managed_by_csi_controller"}

PlainKinds == KeptKinds \cup OwnerKinds \cup CSIKinds \cup {"reported_by_event"}

(* Pods by their names: those of a CSI component, and those that mount a     *)
(* claim on some node, where an agent of the volume's driver then serves it. *)
ServesCSI(ns, name) ==
    \E i \in DOMAIN CSIRules :
        Pattern(CSIRules[i].ns, ns) /\ name \in CSIRules[i].controllers \cup CSIRules[i].agents
MountsOnNode(ns, name) ==
    /\ CSIRules # <<>>
    /\ \E t \in Templates \cup Initial : /\ t.kind = "Pod" /\ t.ns = ns /\ t.name = name
                                       /\ t.pvcs # {} /\ t.node # ""

(* The event ev is about an end of the edge e, or about an object on which   *)
(* the builder's decision for e depends.                                     *)
Names(ev, n) ==
    /\ ev.kind = informerChangeKind(n)
    /\ n.kind \in ScopedKinds => ev.ns = n.ns /\ ev.name = n.name
Affects(ev, e) ==
    \/ Names(ev, e.from) \/ Names(ev, e.to)
    \/ ev.kind = "storage" /\ e.kind \in StorageEdgeKinds
    \/ ev.kind = "identity/security" /\ e.kind \in IdentityEdgeKinds
    \/ ev.kind \in {"pod", "workload"} /\ e.kind \in ControllerRuleKinds
    \/ ev.kind = "workload" /\ e.kind \in OwnerKinds \cup {"reported_by_event"}
    \/ ev.kind = "pod" /\ e.kind \in CSIKinds /\ MountsOnNode(ev.ns, ev.name)

Told(e) ==
    ~Affects(current, e) /\ \A i \in Informers : \A j \in Events(i) : ~Affects(pending[i][j], e)

(* Both ends are there, or the one that is not is an image. *)
EndsIn(G, e) == e.from \in G.nodes /\ (e.to \in G.nodes \/ e.to.kind = "Image")

EdgesInStep(K) ==
    \A e \in g.edges \cup PlainEdges(cluster) :
        e.kind \in K /\ EndsIn(g, e) /\ Told(e) => (e \in g.edges <=> e \in PlainEdges(cluster))

\* The event being applied is about an object that may change.
CurrentHasSource ==
    current # NoEvent => \E t \in Templates : About(current, t, current.change)

(* Every edge joins nodes of kinds that fit its own; one to a CSI component  *)
(* leads to a pod some rule names, and one from an event to the kind of      *)
(* object that some event is involved with.                                  *)
FitsRules(e) == e.kind \in CSIKinds => ServesCSI(e.to.ns, e.to.name)
FitsReports(e) ==
    e.kind = "reported_by_event" =>
        \E ev, x \in Templates \cup Initial :
            ev.kind = "Event" /\ x.src = ev.involved.kind /\ x.kind = e.to.kind
WellMade(e) ==
    /\ e.kind \in PlainKinds \cup {"affected_by_webhook"}
    /\ Fits(e) /\ FitsRules(e) /\ FitsReports(e)

\* Edges of events do not outlive the node of the event.
ReportsHeld == \A e \in EdgesOfKinds(g, {"reported_by_event"}) : e.from \in g.nodes

EdgesInv(K) ==
    (\A e \in g.edges : WellMade(e)) /\ ReportsHeld /\ CurrentHasSource /\ EdgesInStep(K)

(* For the other kinds it takes a cluster in which workloads stay as they    *)
(* are, as do the objects of the categories that events report on; no pod of *)
(* a CSI component comes or goes, and no pod that has a claim and a node.    *)
OwnersStay == \A t \in Templates : t.kind # "Workload"
ComponentsStay ==
    \A t \in Templates : t.kind = "Pod" => ~ServesCSI(t.ns, t.name) /\ ~MountsOnNode(t.ns, t.name)
ReportsStay ==
    \A ev, x \in Templates \cup Initial, t \in Templates :
        ev.kind = "Event" /\ x.src = ev.involved.kind
            => informerChangeKind(x) # informerChangeKind(t)
RestStays == OwnersStay /\ ComponentsStay /\ ReportsStay

\* With no event of an event outstanding, the edges to webhooks are those of some
\* rebuild.
WebhooksInStep ==
    NoneOutstanding("event") =>
        \E pick \in WebhookPicks(cluster, Webhooks(cluster)) :
            EdgesOfKinds(g, {"affected_by_webhook"}) = WebhookEvidenceEdges(cluster, pick)

=============================================================================
