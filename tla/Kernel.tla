------------------------------- MODULE Kernel -------------------------------
(***************************************************************************)
(* The in-memory graph: internal/graph/kernel.go over                      *)
(* internal/store/memory/store.go.                                         *)
(*                                                                         *)
(* The store keeps three maps behind one RWMutex: nodes, edges (by         *)
(* From|Kind|To key) and neighbors, the index from a node id to the keys   *)
(* of the edges that touch it.  Every Store method is one critical         *)
(* section, hence one step here.  A Kernel method is SEVERAL of them       *)
(* (DeleteNode lists the edges, deletes each incident one by four store    *)
(* calls, and then deletes the node), and between two of them other        *)
(* goroutines run.  Writers are serialised by Manager.mu: there is one     *)
(* writer.  Readers that come through ontology.KernelBackend hold no       *)
(* manager lock: a Neighbors call interleaves with the writer's steps.     *)
(*                                                                         *)
(* An edge stands for its own key.  neighbors is a map: a function whose   *)
(* domain is the ids that have an entry.                                   *)
(***************************************************************************)
EXTENDS FiniteSets

CONSTANTS Ids,      \* canonical ids of nodes
          Kinds,    \* edge kinds
          None      \* no id, no edge

Edge == [from : Ids, kind : Kinds, to : Ids]

ASSUME NoneAssumption == None \notin Ids /\ None \notin Edge

Touches(e, id) == e.from = id \/ e.to = id
VARIABLES
    nodes,      \* Store.nodes: the ids present
    edges,      \* Store.edges: the edges present
    neighbors,  \* Store.neighbors
    wpc,        \* what the writer does next
    wnode,      \* the id DeleteNode is deleting, or None
    wpending,   \* incident edges DeleteNode listed and has yet to delete
    wedge,      \* the edge the current edge operation is about, or None
    rid,        \* the id the reader asked Neighbors about, or None
    rkeys,      \* keys the reader got from NeighborKeys and has yet to look up
    rgot,       \* edges the reader has collected
    rstable     \* history: edges present from the start of the read until now

store == <<nodes, edges, neighbors>>
writer == <<wpc, wnode, wpending, wedge>>
reader == <<rid, rkeys, rgot>>
vars == <<store, writer, reader, rstable>>

(* A map from some of the ids to the keys of an entry, which is never empty. *)
IsIndex(nbr) ==
    DOMAIN nbr \subseteq Ids /\ nbr \in [DOMAIN nbr -> (SUBSET Edge) \ {{}}]

WriterPC == {"idle", "addFrom", "addTo",
             "rmFrom", "rmTo", "dropEdge", "nextEdge"}

\* The shapes of the store's maps and of what the writer and the reader hold; an
\* entry of the index goes with its last key, so that nodes that come and go leave
\* no empty entries behind.
TypeOK ==
    /\ nodes \subseteq Ids
    /\ edges \subseteq Edge
    /\ IsIndex(neighbors)
    /\ wpc \in WriterPC
    /\ wnode \in Ids \cup {None}
    /\ wpending \subseteq Edge
    /\ wedge \in Edge \cup {None}
    /\ rid \in Ids \cup {None}
    /\ rkeys \subseteq Edge
    /\ rgot \subseteq Edge
    /\ rstable \subseteq Edge

Init ==
    /\ nodes = {} /\ edges = {} /\ neighbors = [i \in {} |-> {}]
    /\ wpc = "idle" /\ wnode = None /\ wpending = {} /\ wedge = None
    /\ rid = None /\ rkeys = {} /\ rgot = {} /\ rstable = {}

-----------------------------------------------------------------------------
(***************************************************************************)
(* Store.  Each of these is the body of one critical section.              *)
(***************************************************************************)

NeighborKeys(nbr, id) == IF id \in DOMAIN nbr THEN nbr[id] ELSE {}

(* The entry of an id set to keys, or taken out of the map. *)
SetEntry(nbr, id, keys) == [i \in DOMAIN nbr \cup {id} |-> IF i = id THEN keys ELSE nbr[i]]
DropEntry(nbr, id) == [i \in DOMAIN nbr \ {id} |-> nbr[i]]

AddNeighborFresh(nbr, id, e) == SetEntry(nbr, id, {e})
AddNeighbor(nbr, id, e) == SetEntry(nbr, id, NeighborKeys(nbr, id) \cup {e})

RemoveNeighborLeak(nbr, id, e) ==
    LET left == NeighborKeys(nbr, id) \ {e}
    IN  IF left = {} THEN nbr ELSE SetEntry(nbr, id, left)
RemoveNeighborKeepsEntry(nbr, id, e) ==
    IF id \in DOMAIN nbr THEN SetEntry(nbr, id, nbr[id] \ {e}) ELSE nbr
RemoveNeighbor(nbr, id, e) ==
    LET left == NeighborKeys(nbr, id) \ {e}
    IN  IF left = {} THEN DropEntry(nbr, id) ELSE SetEntry(nbr, id, left)

StoreUpsertEdge(e) ==
    /\ edges' = edges \cup {e}
    /\ neighbors' = AddNeighbor(AddNeighbor(neighbors, e.from, e), e.to, e)
    /\ UNCHANGED nodes

StoreDeleteEdge(e) ==
    /\ edges' = edges \ {e}
    /\ neighbors' = IF e \in edges
                    THEN RemoveNeighbor(RemoveNeighbor(neighbors, e.from, e), e.to, e)
                    ELSE neighbors
    /\ UNCHANGED nodes

StoreDeleteNode(id) ==
    /\ nodes' = nodes \ {id}
    /\ neighbors' = DropEntry(neighbors, id)
    /\ UNCHANGED edges

-----------------------------------------------------------------------------
(***************************************************************************)
(* The writer: a goroutine inside Manager.Apply.                           *)
(***************************************************************************)

(* Edges in the store whose deletion has not begun. *)
Settled == IF wpc \in {"rmFrom", "rmTo", "dropEdge"} THEN edges \ {wedge} ELSE edges

(* What every writer step does to the history of the read in progress. *)
WriterStep == UNCHANGED reader /\ rstable' = rstable \cap Settled'

UpsertNode(id) ==
    /\ wpc = "idle"
    /\ nodes' = nodes \cup {id}
    /\ UNCHANGED <<edges, neighbors, writer>>
    /\ WriterStep

(* Kernel.UpsertEdge: the store's section, then AddNeighbor twice more. *)
UpsertEdge(e) ==
    /\ wpc = "idle"
    /\ StoreUpsertEdge(e)
    /\ wpc' = "addFrom" /\ wedge' = e
    /\ UNCHANGED <<wnode, wpending>>
    /\ WriterStep

UpsertEdgeAddFrom ==
    /\ wpc = "addFrom"
    /\ neighbors' = AddNeighbor(neighbors, wedge.from, wedge)
    /\ wpc' = "addTo"
    /\ UNCHANGED <<nodes, edges, wnode, wpending, wedge>>
    /\ WriterStep

UpsertEdgeAddTo ==
    /\ wpc = "addTo"
    /\ neighbors' = AddNeighbor(neighbors, wedge.to, wedge)
    /\ wpc' = "idle" /\ wedge' = None
    /\ UNCHANGED <<nodes, edges, wnode, wpending>>
    /\ WriterStep

(* Kernel.DeleteEdge lists the edges first; only an edge it finds there is   *)
(* taken out of the index by hand.  Then Store.DeleteEdge.                   *)
BeginDeleteEdge(e) ==
    /\ wedge' = e
    /\ wpc' = IF e \in edges THEN "rmFrom" ELSE "dropEdge"
    /\ UNCHANGED store

DeleteEdge(e) ==
    /\ wpc = "idle"
    /\ BeginDeleteEdge(e)
    /\ UNCHANGED <<wnode, wpending>>
    /\ WriterStep

DeleteEdgeRemoveFrom ==
    /\ wpc = "rmFrom"
    /\ neighbors' = RemoveNeighbor(neighbors, wedge.from, wedge)
    /\ wpc' = "rmTo"
    /\ UNCHANGED <<nodes, edges, wnode, wpending, wedge>>
    /\ WriterStep

DeleteEdgeRemoveTo ==
    /\ wpc = "rmTo"
    /\ neighbors' = RemoveNeighbor(neighbors, wedge.to, wedge)
    /\ wpc' = "dropEdge"
    /\ UNCHANGED <<nodes, edges, wnode, wpending, wedge>>
    /\ WriterStep

DeleteEdgeDrop ==
    /\ wpc = "dropEdge"
    /\ StoreDeleteEdge(wedge)
    /\ wpc' = IF wnode = None THEN "idle" ELSE "nextEdge"
    /\ wedge' = None
    /\ UNCHANGED <<wnode, wpending>>
    /\ WriterStep

(* Kernel.DeleteNode: list, delete each incident edge, delete the node. *)
IncidentOutgoing(E, id) == {e \in E : e.from = id}
Incident(E, id) == {e \in E : Touches(e, id)}

DeleteNode(id) ==
    /\ wpc = "idle"
    /\ wnode' = id /\ wpending' = Incident(edges, id)
    /\ wpc' = "nextEdge"
    /\ UNCHANGED <<store, wedge>>
    /\ WriterStep

DeleteNodeNextEdge ==
    /\ wpc = "nextEdge"
    /\ \E e \in wpending :
        /\ wpending' = wpending \ {e}
        /\ BeginDeleteEdge(e)
    /\ UNCHANGED wnode
    /\ WriterStep

DeleteNodeDrop ==
    /\ wpc = "nextEdge" /\ wpending = {}
    /\ StoreDeleteNode(wnode)
    /\ wpc' = "idle" /\ wnode' = None
    /\ UNCHANGED <<wpending, wedge>>
    /\ WriterStep

-----------------------------------------------------------------------------
(***************************************************************************)
(* A reader: Kernel.Neighbors, called with no manager lock.  It fetches    *)
(* the keys in one section and then each edge in a section of its own.     *)
(***************************************************************************)

NeighborsStart(id) ==
    /\ rid = None
    /\ rid' = id /\ rkeys' = NeighborKeys(neighbors, id) /\ rgot' = {}
    /\ rstable' = {e \in Settled : Touches(e, id)}
    /\ UNCHANGED <<store, writer>>

NeighborsGetEdge ==
    /\ \E key \in rkeys :
        /\ rkeys' = rkeys \ {key}
        /\ rgot' = rgot \cup ({key} \cap edges)
    /\ UNCHANGED <<store, writer, rid, rstable>>

NeighborsReturn ==
    /\ rid # None /\ rkeys = {}
    /\ rid' = None /\ rgot' = {} /\ rstable' = {}
    /\ UNCHANGED <<store, writer, rkeys>>

-----------------------------------------------------------------------------
Writer ==
    \/ \E id \in Ids : UpsertNode(id) \/ DeleteNode(id)
    \/ \E e \in Edge : UpsertEdge(e) \/ DeleteEdge(e)
    \/ UpsertEdgeAddFrom \/ UpsertEdgeAddTo
    \/ DeleteEdgeRemoveFrom \/ DeleteEdgeRemoveTo \/ DeleteEdgeDrop
    \/ DeleteNodeNextEdge \/ DeleteNodeDrop

Reader ==
    \/ \E id \in Ids : NeighborsStart(id)
    \/ NeighborsGetEdge
    \/ NeighborsReturn

Next == Writer \/ Reader

Spec == Init /\ [][Next]_vars

-----------------------------------------------------------------------------
(***************************************************************************)
(* Properties                                                              *)
(***************************************************************************)

\* At every moment, inside any multi-step write, the neighbor index of a node
\* only names edges that are in the store and touch that node.
IndexSound ==
    \A id \in Ids : NeighborKeys(neighbors, id) \subseteq {e \in edges : Touches(e, id)}

\* At every moment, an edge of the store whose deletion has not begun is in the
\* index of both its ends: DeleteNode, which throws a node's whole index entry
\* away, never strands an edge that was not deleted first.
IndexComplete ==
    \A e \in Settled : e \in NeighborKeys(neighbors, e.from) /\ e \in NeighborKeys(neighbors, e.to)

\* A Neighbors call that runs against a writer returns every edge of the node
\* that stayed in the graph for the whole of the call.
NeighborsReturnsStableEdges ==
    rid # None /\ rkeys = {} => rstable \subseteq rgot

\* When DeleteNode removes the node, no edge that touches it is left in the store.
DeleteNodeLeavesNoEdge ==
    [][\A id \in Ids : id \in nodes /\ id \notin nodes' =>
            \A e \in edges' : ~Touches(e, id)]_vars

Promise == INSTANCE SharedGraph
    WITH leaving <- edges \ Settled, reading <- rid, must <- rstable, got <- rgot

\* To its users the kernel is the graph SharedGraph describes: however its store
\* calls interleave, each changes at most one node or edge as they see it, and a
\* Neighbors call collects only what is there and misses nothing that stays.
ImplementsSharedGraph == Promise!SharedSpec

-----------------------------------------------------------------------------
(***************************************************************************)
(* The inductive invariant: the parts above and what the writer and the    *)
(* reader hold between two of their steps.                                 *)
(***************************************************************************)

EdgeBeingDeleted == wpc \in {"rmFrom", "rmTo", "dropEdge"}

WriterInv ==
    /\ wpc \in {"idle", "addFrom", "addTo"} => wnode = None
    /\ wpc = "nextEdge" => wnode \in Ids
    /\ wpc \in {"addFrom", "addTo"} => wedge \in edges
    /\ EdgeBeingDeleted => wedge \in Edge

\* While DeleteNode runs, an edge that touches the node is still on its list or
\* is the one it is deleting.
DeleteNodeListsAll ==
    wnode # None =>
        \A e \in edges : Touches(e, wnode) =>
            e \in wpending \/ (EdgeBeingDeleted /\ e = wedge)

ReaderInv ==
    /\ rstable \subseteq Settled
    /\ rstable \subseteq rgot \cup rkeys
    /\ \A key \in rkeys : rid # None /\ Touches(key, rid)

IInv ==
    /\ TypeOK /\ IndexSound /\ IndexComplete
    /\ WriterInv /\ DeleteNodeListsAll /\ ReaderInv

=============================================================================
