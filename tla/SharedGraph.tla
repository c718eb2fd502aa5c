---------------------------- MODULE SharedGraph ----------------------------
(***************************************************************************)
(* What the kernel (internal/graph/kernel.go) promises to goroutines that  *)
(* share it without a lock: a graph that one of them edits while another   *)
(* reads the edges of a node.                                              *)
(*                                                                         *)
(*   - Nodes and edges come one at a time; a node goes only when no edge   *)
(*     touches it any more.                                                *)
(*   - An edge goes in two steps.  Between them, while it is leaving,      *)
(*     readers may or may not see it.                                      *)
(*   - A read collects edges of its node that are in the graph when they   *)
(*     are collected, and returns only with every edge of the node that    *)
(*     was there, and not leaving, from its first moment to its last.      *)
(*                                                                         *)
(* Kernel is shown to implement this; Expansion is built on it.            *)
(***************************************************************************)

CONSTANTS Ids,      \* canonical ids of nodes
          Kinds,    \* edge kinds
          None      \* no id

Edge == [from : Ids, kind : Kinds, to : Ids]

Touches(e, id) == e.from = id \/ e.to = id

VARIABLES
    nodes,      \* the nodes of the graph
    edges,      \* its edges
    leaving,    \* edges on their way out
    reading,    \* the node whose edges are being read, or None
    must,       \* edges of that node in the graph since the read began
    got         \* edges it has collected

graph == <<nodes, edges, leaving>>
read == <<reading, must, got>>
sharedVars == <<graph, read>>

SharedInit ==
    /\ nodes = {} /\ edges = {} /\ leaving = {}
    /\ reading = None /\ must = {} /\ got = {}

-----------------------------------------------------------------------------
(* The writer.  A read in progress need not return what is leaving. *)

Staying == edges \ leaving
Written == must' = must \cap Staying' /\ UNCHANGED <<reading, got>>

AddNode(id) ==
    /\ nodes' = nodes \cup {id}
    /\ UNCHANGED <<edges, leaving>>
    /\ Written

RemoveNode(id) ==
    /\ \A e \in edges : ~Touches(e, id)
    /\ nodes' = nodes \ {id}
    /\ UNCHANGED <<edges, leaving>>
    /\ Written

AddEdge(e) ==
    /\ e \notin leaving
    /\ edges' = edges \cup {e}
    /\ UNCHANGED <<nodes, leaving>>
    /\ Written

BeginRemoveEdge(e) ==
    /\ e \in edges
    /\ leaving' = leaving \cup {e}
    /\ UNCHANGED <<nodes, edges>>
    /\ Written

EndRemoveEdge(e) ==
    /\ e \in leaving
    /\ edges' = edges \ {e} /\ leaving' = leaving \ {e}
    /\ UNCHANGED nodes
    /\ Written

Write ==
    \/ \E id \in Ids : AddNode(id) \/ RemoveNode(id)
    \/ \E e \in Edge : AddEdge(e) \/ BeginRemoveEdge(e) \/ EndRemoveEdge(e)

-----------------------------------------------------------------------------
(* The reader. *)

BeginRead(id) ==
    /\ reading = None
    /\ reading' = id /\ got' = {}
    /\ must' = {e \in Staying : Touches(e, id)}
    /\ UNCHANGED graph

Collect ==
    /\ reading # None
    /\ \E e \in edges : Touches(e, reading) /\ got' = got \cup {e}
    /\ UNCHANGED <<graph, reading, must>>

EndRead ==
    /\ reading # None /\ must \subseteq got
    /\ reading' = None /\ must' = {} /\ got' = {}
    /\ UNCHANGED graph

Read == (\E id \in Ids : BeginRead(id)) \/ Collect \/ EndRead

SharedSpec == SharedInit /\ [][Write \/ Read]_sharedVars
=============================================================================
