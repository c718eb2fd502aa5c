---------------------------- MODULE Diagnostic ----------------------------
(***************************************************************************)
(* The diagnostic subgraph: the entry a query names (query/facade.go) and  *)
(* the breadth-first walk from it, with rules per kind of node and edge    *)
(* and budgets of nodes and edges (service/diagnostic/service.go).         *)
(*                                                                         *)
(* The walk reads one graph: its caller holds Manager.mu for reading, see  *)
(* Queries.  Every node it expands it has just found in that graph, so the *)
(* code's provisions for nodes that vanish have no counterpart here.       *)
(*                                                                         *)
(* An operator named after another with a suffix is a plausible mistake in *)
(* it, kept to show that the checked properties would notice.              *)
(***************************************************************************)
EXTENDS Subgraph, Integers, Sequences, FiniteSets

CONSTANTS Ids,      \* canonical ids
          Kind,     \* Kind[id]: the kind of its node
          Name,     \* Name[id]: namespace and name
          Host,     \* Host[id]: the nodeName of a pod, or ""
          EdgeKinds \* edge kinds that occur

NodeKinds == {"Cluster", "Namespace", "Workload", "Pod", "Container", "Node", "Service",
              "ConfigMap", "Secret", "ServiceAccount", "RoleBinding", "ClusterRoleBinding",
              "PVC", "PV", "StorageClass", "CSIDriver", "HelmRelease", "HelmChart", "Event",
              "Image", "OCIArtifactMetadata", "WebhookConfig"}
Edge == [from : Ids, kind : EdgeKinds, to : Ids]

ASSUME KindAssumption == Kind \in [Ids -> NodeKinds]

VARIABLES
    load,       \* what Apply loaded last: nodes, edges, and the pods and
                \* workloads of its snapshot (listed)
    policy,     \* the expansion policy of the query
    root,       \* its entry
    depth,      \* level of the walk
    frontier,   \* nodes of this level still to expand, in order of discovery
    nextFrontier,
    current,    \* the node being expanded
    todo,       \* its edges still to look at, a map in the code
    outN, outE, \* the result
    reasons     \* why something was left out of it

walk == <<policy, root, depth, frontier, nextFrontier, current, todo, outN, outE, reasons>>

-----------------------------------------------------------------------------
(* Options, policy and entry. *)

DefaultTerminalNodeKinds ==
    {"Service", "ConfigMap", "Secret", "ServiceAccount", "Node", "RoleBinding",
     "ClusterRoleBinding", "HelmChart", "Event", "Image", "OCIArtifactMetadata",
     "WebhookConfig"}
MaxDiagnosticDepth == 10
MaxDiagnosticNodes == 5000
MaxDiagnosticEdges == 10000

ValidateDiagnosticOptions(o) ==
    /\ o.maxDepth \in 0..MaxDiagnosticDepth /\ o.storageMaxDepth \in 0..MaxDiagnosticDepth
    /\ o.maxNodes \in 0..MaxDiagnosticNodes /\ o.maxEdges \in 0..MaxDiagnosticEdges
    /\ o.terminal \subseteq NodeKinds

(* Zero and the empty set stand for an option that was not given. *)
DiagnosticPolicy(o) ==
    [maxDepth |-> IF o.maxDepth > 0 THEN o.maxDepth ELSE 2,
     storageMaxDepth |-> IF o.storageMaxDepth > 0 THEN o.storageMaxDepth ELSE 5,
     maxNodes |-> IF o.maxNodes > 0 THEN o.maxNodes ELSE 200,
     maxEdges |-> IF o.maxEdges > 0 THEN o.maxEdges ELSE 400,
     expandTerminal |-> o.expandTerminal,
     terminal |-> IF o.expandTerminal THEN {}
                  ELSE IF o.terminal # {} THEN o.terminal ELSE DefaultTerminalNodeKinds]

(* Pods and workloads are looked up in the snapshot first, which names the    *)
(* first of a kind and name it lists; everything else, and what the snapshot  *)
(* does not have, among the nodes, where two of a name are too many.          *)
Named(S, o) == {id \in S : Kind[id] = o.kind /\ Name[id] = o.name}
Listed(o) == IF o.kind \in {"Pod", "Workload"} THEN Named(load.listed, o) ELSE {}
EntryIDs(o) == IF Listed(o) # {} THEN Listed(o) ELSE Named(load.nodes, o)
Ambiguous(o) == Listed(o) = {} /\ Cardinality(Named(load.nodes, o)) > 1

-----------------------------------------------------------------------------
(* Which nodes are expanded and which edges are followed. *)

CSIComponentKinds ==
    {"implemented_by_csi_controller", "implemented_by_csi_node_agent",
     "managed_by_csi_controller", "served_by_csi_node_agent"}
StorageKinds ==
    {"mounts_pvc", "bound_to_pv", "uses_storage_class", "provisioned_by_csi_driver"}
        \cup CSIComponentKinds

Edges(id) == {e \in load.edges : e.from = id \/ e.to = id}

shouldTraverse(kind, d) ==
    d < IF kind \in StorageKinds THEN policy.storageMaxDepth ELSE policy.maxDepth

csiAgentMatchesRootPodNode(agent) ==
    Host[root] # "" /\ agent \in load.nodes /\ Host[agent] = Host[root]

shouldTraverseDriverNodeAgents == Kind[root] \notin {"Pod", "Workload", "PVC", "PV"}

(* What a kind of node lets the walk follow, at whatever depth. *)
Permits(id, e) ==
    CASE Kind[id] = "HelmRelease" ->
            \/ e.from = id /\ e.kind = "installs_chart"
            \/ Kind[root] = "HelmRelease" /\ e.to = id /\ e.kind = "managed_by_helm_release"
      [] Kind[id] = "StorageClass" ->
            e.from = id /\ e.kind = "provisioned_by_csi_driver"
      [] Kind[id] = "PV" /\ e.kind = "served_by_csi_node_agent" /\ Kind[root] = "Pod" ->
            e.from = id /\ csiAgentMatchesRootPodNode(e.to)
      [] Kind[id] = "CSIDriver" ->
            /\ e.from = id
            /\ \/ e.kind = "implemented_by_csi_controller"
               \/ e.kind = "implemented_by_csi_node_agent" /\ shouldTraverseDriverNodeAgents
      [] OTHER -> TRUE

shouldTraverseFrom(id, e, d) == shouldTraverse(e.kind, d) /\ Permits(id, e)

isTerminalCSINode(id) ==
    Kind[id] = "Pod" /\ \E e \in Edges(id) : e.kind \in CSIComponentKinds

isTerminalNode(id) ==
    /\ ~policy.expandTerminal
    /\ \/ isTerminalCSINode(id)
       \/ id # root /\ Kind[root] = "Pod" /\ Kind[id] = "Pod"
       \/ Kind[id] \in policy.terminal

-----------------------------------------------------------------------------
(***************************************************************************)
(* The walk.  Each action is one turn of a loop of                         *)
(* GetDiagnosticSubgraphContext; Queries adds what it makes of a context   *)
(* that has ended, which it asks at the start of every turn and level.     *)
(***************************************************************************)

Levels == IF policy.storageMaxDepth > policy.maxDepth
          THEN policy.storageMaxDepth ELSE policy.maxDepth

BeginWalk(id, o) ==
    /\ policy' = DiagnosticPolicy(o)
    /\ root' = id /\ current' = id /\ depth' = 0
    /\ frontier' = <<id>> /\ nextFrontier' = <<>> /\ todo' = {}
    /\ outN' = {id} /\ outE' = {} /\ reasons' = {}

NextNode ==
    /\ depth < Levels /\ todo = {} /\ frontier # <<>>
    /\ current' = Head(frontier) /\ frontier' = Tail(frontier)
    /\ todo' = IF isTerminalNode(current') THEN {} ELSE Edges(current')
    /\ UNCHANGED <<policy, root, depth, nextFrontier, outN, outE, reasons>>

NewNodes(e) == ({e.from, e.to} \cap load.nodes) \ outN

Follows(e) == shouldTraverseFrom(current, e, depth)
OverNodes(e) == Cardinality(outN) + Cardinality(NewNodes(e)) > policy.maxNodes
OverEdges(e) == e \notin outE /\ Cardinality(outE) >= policy.maxEdges

SkipEdge(e) ==
    /\ e \in todo /\ ~Follows(e)
    /\ todo' = todo \ {e}
    /\ UNCHANGED <<policy, root, depth, frontier, nextFrontier, current, outN, outE, reasons>>

LeaveOutSilently(e) ==
    /\ e \in todo /\ Follows(e)
    /\ OverNodes(e) \/ OverEdges(e)
    /\ todo' = todo \ {e}
    /\ reasons' = IF OverNodes(e) THEN reasons ELSE reasons \cup {"maxEdges"}
    /\ UNCHANGED <<policy, root, depth, frontier, nextFrontier, current, outN, outE>>
LeaveOut(e) ==
    /\ e \in todo /\ Follows(e)
    /\ OverNodes(e) \/ OverEdges(e)
    /\ todo' = todo \ {e}
    /\ reasons' = reasons \cup {IF OverNodes(e) THEN "maxNodes" ELSE "maxEdges"}
    /\ UNCHANGED <<policy, root, depth, frontier, nextFrontier, current, outN, outE>>

(* At most one end is new: the other is the node being expanded. *)
TakeEdgeNodesFirst(e) ==
    /\ e \in todo /\ Follows(e)
    /\ ~OverNodes(e)
    /\ todo' = todo \ {e}
    /\ outE' = IF OverEdges(e) THEN outE ELSE outE \cup {e}
    /\ outN' = outN \cup NewNodes(e)
    /\ \E new \in [1..Cardinality(NewNodes(e)) -> NewNodes(e)] :
            nextFrontier' = nextFrontier \o new
    /\ reasons' = IF OverEdges(e) THEN reasons \cup {"maxEdges"} ELSE reasons
    /\ UNCHANGED <<policy, root, depth, frontier, current>>
TakeEdge(e) ==
    /\ e \in todo /\ Follows(e)
    /\ ~OverNodes(e) /\ ~OverEdges(e)
    /\ todo' = todo \ {e}
    /\ outE' = outE \cup {e}
    /\ outN' = outN \cup NewNodes(e)
    /\ \E new \in [1..Cardinality(NewNodes(e)) -> NewNodes(e)] :
            nextFrontier' = nextFrontier \o new
    /\ UNCHANGED <<policy, root, depth, frontier, current, reasons>>

LevelDone == todo = {} /\ frontier = <<>>

NextLevel ==
    /\ LevelDone /\ depth < Levels
    /\ depth' = depth + 1
    /\ frontier' = nextFrontier /\ nextFrontier' = <<>>
    /\ UNCHANGED <<policy, root, current, todo, outN, outE, reasons>>

Walked == depth = Levels

Turn ==
    \/ NextNode
    \/ \E e \in todo : SkipEdge(e) \/ LeaveOut(e) \/ TakeEdge(e)

-----------------------------------------------------------------------------
(***************************************************************************)
(* What the walk is for: everything on a walk of at most Levels steps each *)
(* of which the rules allow at its depth, however often a node is met.     *)
(***************************************************************************)

Steps(id, d) ==
    IF isTerminalNode(id) THEN {} ELSE {e \in Edges(id) : shouldTraverseFrom(id, e, d)}

WalkEnds[d \in Nat] ==
    IF d = 0 THEN {root}
    ELSE UNION {{e.from, e.to} \cap load.nodes :
                    e \in UNION {Steps(id, d - 1) : id \in WalkEnds[d - 1]}}

ReachableEdges == UNION {UNION {Steps(id, d) : id \in WalkEnds[d]} : d \in 0..(Levels - 1)}
ReachableNodes == UNION {WalkEnds[d] : d \in 0..Levels}

=============================================================================
