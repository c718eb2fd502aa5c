----------------------------- MODULE MCQueries -----------------------------
(***************************************************************************)
(* Three loads: a pod with its storage down to the CSI agents of two       *)
(* hosts; a workload with pods, a service and a Helm release; and one      *)
(* whose snapshot is ahead of the graph, with an edge to a pod that is not *)
(* there yet and a service beside its previous incarnation.                *)
(***************************************************************************)
EXTENDS Queries, TLC

MCKind ==
    [id \in {"p", "q"} |-> "Pod"] @@ [id \in {"a1", "a2"} |-> "Pod"]
    @@ [id \in {"s1", "s2"} |-> "Service"]
    @@ ("w" :> "Workload") @@ ("c" :> "PVC") @@ ("v" :> "PV") @@ ("k" :> "StorageClass")
    @@ ("d" :> "CSIDriver") @@ ("r" :> "HelmRelease") @@ ("h" :> "HelmChart")
MCIds == DOMAIN MCKind
MCName == [id \in MCIds |-> IF id \in {"s1", "s2"} THEN "s" ELSE id]
MCHost == [id \in MCIds |-> CASE id \in {"p", "a1"} -> "n1" [] id = "a2" -> "n2" [] OTHER -> ""]

E(f, k, t) == [from |-> f, kind |-> k, to |-> t]

Storage ==
    [nodes |-> {"p", "c", "v", "k", "d", "a1", "a2"},
     edges |-> {E("p", "mounts_pvc", "c"), E("c", "bound_to_pv", "v"),
                E("c", "uses_storage_class", "k"), E("k", "provisioned_by_csi_driver", "d"),
                E("v", "served_by_csi_node_agent", "a1"), E("v", "served_by_csi_node_agent", "a2"),
                E("d", "implemented_by_csi_controller", "a1"),
                E("d", "implemented_by_csi_node_agent", "a2")},
     listed |-> {"p", "a1", "a2"}]
Topology ==
    [nodes |-> {"p", "q", "w", "s1", "r", "h"},
     edges |-> {E("w", "owns_pod", "p"), E("w", "owns_pod", "q"), E("p", "managed_by", "w"),
                E("s1", "selects_pod", "p"), E("s1", "selects_pod", "q"),
                E("w", "managed_by_helm_release", "r"), E("r", "installs_chart", "h")},
     listed |-> {"p", "q", "w"}]
Behind ==
    [nodes |-> {"q", "w", "s1", "s2"},
     edges |-> {E("w", "owns_pod", "q"), E("w", "owns_pod", "p"), E("s2", "selects_pod", "q")},
     listed |-> {"p", "w"}]
MCLoads == {Storage, Topology, Behind}
MCEdgeKinds == {e.kind : e \in UNION {l.edges : l \in MCLoads}}

Ask(kind, name) ==
    [kind |-> kind, name |-> name, maxDepth |-> 0, storageMaxDepth |-> 0, maxNodes |-> 0,
     maxEdges |-> 0, terminal |-> {}, expandTerminal |-> FALSE]
MCRequests ==
    {Ask("Pod", "p"), Ask("Pod", "q"), Ask("Service", "s"), Ask("HelmRelease", "r"),
     Ask("CSIDriver", "d"), Ask("Gadget", "d"),
     [Ask("Pod", "p") EXCEPT !.maxNodes = 4],
     [Ask("Pod", "p") EXCEPT !.maxEdges = 3],
     [Ask("Pod", "p") EXCEPT !.storageMaxDepth = 2, !.terminal = {"Workload"}],
     [Ask("Workload", "w") EXCEPT !.expandTerminal = TRUE, !.maxDepth = 3],
     [Ask("Pod", "p") EXCEPT !.maxDepth = 11],
     [Ask("Pod", "p") EXCEPT !.maxEdges = -1]}
=============================================================================
