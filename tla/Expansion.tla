----------------------------- MODULE Expansion -----------------------------
(***************************************************************************)
(* GET /expand: query.ExpandSubgraph (internal/query/expand.go) over       *)
(* ontology.KernelBackend (internal/ontology/backend.go).                  *)
(*                                                                         *)
(* The handler takes the kernel from Manager.Ontology() and walks it       *)
(* breadth first WITHOUT the manager's lock: every GetEntity and every     *)
(* Neighbors is a call of its own, and the writer inside Manager.Apply     *)
(* edits the graph between two of them.  The graph is the one SharedGraph  *)
(* promises and Kernel implements; after a full rebuild has replaced the   *)
(* kernel the walk goes on over the old one, which nobody edits any more.  *)
(*                                                                         *)
(* Frontiers are sorted by id and relations come in map order, neither of  *)
(* which says anything about the graph: both are sets here.                *)
(***************************************************************************)
EXTENDS SharedGraph, Subgraph, Naturals, FiniteSets

CONSTANTS Graphs,       \* what the graph may be at first: records of nodes and edges
          Requests,     \* requests: root, depth, direction, kind (None: any), limit
          ChurnNodes,   \* nodes the writer adds and removes,
          ChurnEdges,   \* edges it adds and removes,
          MaxWrites     \* and how many steps it takes (a bound on the model)

Directions == {"out", "in", "both"}

ASSUME RequestsAssumption ==
    /\ None \notin Ids
    /\ Requests \subseteq [root : Ids, depth : Nat, direction : Directions,
                           kind : Kinds \cup {None}, limit : Nat]
    /\ ChurnNodes \subseteq Ids /\ ChurnEdges \subseteq Edge
    /\ \A g \in Graphs : g.nodes \subseteq Ids /\ g.edges \subseteq Edge

VARIABLES
    pc,         \* what the handler does next, or how it answered
    req,        \* the request, its defaults filled in
    depth,      \* levels finished
    frontier,   \* nodes of this level still to expand
    nextSet,    \* nodes of the next level
    expanded,   \* nodes whose relations were asked for
    relations,  \* relations of the node being expanded, still to look at
    outN,       \* the result: nodes
    outE,       \* the result: edges
    limited,    \* history: the limit made the walk leave something out
    stableN,    \* history: nodes in the graph since the walk began
    stableE,    \* history: edges in the graph, and not leaving, since then
    writes      \* steps the writer has taken

walk == <<req, depth, frontier, nextSet, expanded, relations, outN, outE, limited>>
stable == <<stableN, stableE>>
vars == <<sharedVars, pc, walk, stable, writes>>

Walking == {"level", "reading", "relations"}
Answers == {"ok", "notFound", "invalid", "cancelled"}

DefaultExpandDepth == 1
MaxExpandDepth == 4
DefaultExpandLimit == 200
MaxExpandLimit == 2000

\* The shapes of the graph, of the walk and of its result.  A walk has a depth and a
\* limit within the server's bounds and neither is zero, which would silently cut
\* every answer down to its root.
TypeOK ==
    /\ nodes \subseteq Ids /\ edges \subseteq Edge /\ leaving \subseteq edges
    /\ reading \in Ids \cup {None} /\ must \subseteq Staying /\ got \subseteq Edge
    /\ reading # None <=> pc = "reading"
    /\ pc \in {"idle", "begin"} \cup Walking \cup Answers
    /\ req \in [root : Ids, depth : Nat, direction : Directions,
                kind : Kinds \cup {None}, limit : Nat]
    /\ pc \in {"begin", "ok"} \cup Walking =>
        req.depth \in 1..MaxExpandDepth /\ req.limit \in 1..MaxExpandLimit
    /\ depth \in Nat
    /\ frontier \subseteq Ids /\ nextSet \subseteq Ids /\ expanded \subseteq Ids
    /\ relations \subseteq Edge
    /\ outN \subseteq Ids /\ outE \subseteq Edge
    /\ limited \in BOOLEAN
    /\ stableN \subseteq Ids /\ stableE \subseteq Edge

Init ==
    /\ \E g \in Graphs : nodes = g.nodes /\ edges = g.edges
    /\ leaving = {} /\ reading = None /\ must = {} /\ got = {}
    /\ pc = "idle" /\ req \in Requests /\ depth = 0
    /\ frontier = {} /\ nextSet = {} /\ expanded = {} /\ relations = {}
    /\ outN = {} /\ outE = {} /\ limited = FALSE
    /\ stableN = {} /\ stableE = {} /\ writes = 0

-----------------------------------------------------------------------------
(***************************************************************************)
(* The request.                                                            *)
(***************************************************************************)

ValidateExpandOptions(o) == o.depth <= MaxExpandDepth /\ o.limit <= MaxExpandLimit

WithDefaultDepth(o) == [o EXCEPT !.depth = IF @ = 0 THEN DefaultExpandDepth ELSE @]
WithDefaults(o) ==
    [o EXCEPT !.depth = IF @ = 0 THEN DefaultExpandDepth ELSE @,
              !.limit = IF @ = 0 THEN DefaultExpandLimit ELSE @]

(* The handler's checks come first; then ExpandSubgraph fills the defaults in. *)
Receive(o) ==
    /\ pc = "idle"
    /\ req' = WithDefaults(o)
    /\ pc' = IF ValidateExpandOptions(o) THEN "begin" ELSE "invalid"
    /\ UNCHANGED <<sharedVars, depth, frontier, nextSet, expanded, relations,
                   outN, outE, limited, stable, writes>>

(* GetEntity of the root: not found, or the walk begins. *)
GetRoot ==
    /\ pc = "begin"
    /\ IF req.root \in nodes
       THEN /\ pc' = "level" /\ frontier' = {req.root} /\ outN' = {req.root}
            /\ stableN' = nodes /\ stableE' = Staying
       ELSE pc' = "notFound" /\ UNCHANGED <<frontier, outN, stable>>
    /\ UNCHANGED <<sharedVars, req, depth, nextSet, expanded, relations,
                   outE, limited, writes>>

-----------------------------------------------------------------------------
(***************************************************************************)
(* The walk.                                                               *)
(***************************************************************************)

Full == Cardinality(outE) >= req.limit

Touching(e, id, direction) ==
    CASE direction = "out" -> e.from = id
      [] direction = "in" -> e.to = id
      [] OTHER -> Touches(e, id)

Matches(e, kind) == kind \in {None, e.kind}

(* Where an edge of id leads: the other end, or id itself for a loop. *)
NextID(e, id) == IF e.from = id THEN e.to ELSE e.from

(* The next node of the frontier.  One that an earlier node of this level    *)
(* already expanded is passed over; for any other, Neighbors begins.         *)
NextNodeMarksLevel(id) ==
    /\ pc = "level" /\ ~Full
    /\ id \in frontier
    /\ frontier' = frontier \ {id}
    /\ IF id \in expanded
       THEN UNCHANGED <<sharedVars, pc, expanded>>
       ELSE expanded' = expanded \cup frontier /\ BeginRead(id) /\ pc' = "reading"
    /\ UNCHANGED <<req, depth, nextSet, relations, outN, outE, limited, stable, writes>>
NextNode(id) ==
    /\ pc = "level" /\ ~Full
    /\ id \in frontier
    /\ frontier' = frontier \ {id}
    /\ IF id \in expanded
       THEN UNCHANGED <<sharedVars, pc, expanded>>
       ELSE expanded' = expanded \cup {id} /\ BeginRead(id) /\ pc' = "reading"
    /\ UNCHANGED <<req, depth, nextSet, relations, outN, outE, limited, stable, writes>>

ReadEdge ==
    /\ pc = "reading"
    /\ Collect
    /\ UNCHANGED <<pc, walk, stable, writes>>

(* Neighbors returns: what matches, in any order, up to the relations the     *)
(* limit still leaves room for - which relations already in the result use up *)
(* like any other.                                                            *)
Remaining == req.limit - Cardinality(outE)

Neighbors(rels) ==
    LET matching == {e \in got : Touching(e, reading, req.direction)
                                    /\ Matches(e, req.kind)}
    IN  /\ rels \subseteq matching
        /\ \/ rels = matching /\ Cardinality(matching) <= Remaining
           \/ rels # matching /\ Cardinality(rels) = Remaining
        /\ limited' = (limited \/ rels # matching)

ReadDone ==
    /\ pc = "reading"
    /\ \E rels \in SUBSET got : Neighbors(rels) /\ relations' = rels
    /\ EndRead
    /\ pc' = "relations"
    /\ UNCHANGED <<req, depth, frontier, nextSet, expanded, outN, outE, stable, writes>>

(* One relation: the end that is not in the result yet is looked up.  The edge *)
(* is taken only when both ends are there, and leads to a node of the next    *)
(* level unless that node, as the one being expanded, was expanded already.   *)
VisitRelationDangling(e) ==
    /\ pc = "relations" /\ ~Full
    /\ e \in relations
    /\ relations' = relations \ {e}
    /\ outN' = outN \cup ({e.from, e.to} \cap nodes)
    /\ outE' = outE \cup {e}
    /\ nextSet' = nextSet \cup ({e.from, e.to} \ expanded)
    /\ UNCHANGED <<sharedVars, pc, req, depth, frontier, expanded, limited, stable, writes>>
VisitRelation(e) ==
    LET known == outN \cup ({e.from, e.to} \cap nodes)
    IN  /\ pc = "relations" /\ ~Full
        /\ e \in relations
        /\ relations' = relations \ {e}
        /\ outN' = known
        /\ IF {e.from, e.to} \subseteq known
           THEN /\ outE' = outE \cup {e}
                /\ nextSet' = nextSet \cup ({e.from, e.to} \ expanded)
           ELSE UNCHANGED <<outE, nextSet>>
        /\ UNCHANGED <<sharedVars, pc, req, depth, frontier, expanded, limited, stable, writes>>

EndNode ==
    /\ pc = "relations" /\ (Full \/ relations = {})
    /\ pc' = "level"
    /\ relations' = {}
    /\ limited' = (limited \/ relations # {})
    /\ UNCHANGED <<sharedVars, req, depth, frontier, nextSet, expanded, outN, outE, stable, writes>>

(* The level ends: with its frontier, or because the result is full. *)
EndLevelTooLate ==
    /\ pc = "level" /\ (Full \/ frontier = {})
    /\ depth' = depth + 1
    /\ frontier' = nextSet /\ nextSet' = {}
    /\ pc' = IF depth' <= req.depth /\ ~Full THEN "level" ELSE "ok"
    /\ limited' = (limited \/ (Full /\ (frontier # {} \/ depth' < req.depth)))
    /\ UNCHANGED <<sharedVars, req, expanded, relations, outN, outE, stable, writes>>
EndLevelUntilEmpty ==
    /\ pc = "level" /\ (Full \/ frontier = {})
    /\ depth' = depth
    /\ frontier' = nextSet /\ nextSet' = {}
    /\ pc' = IF depth' < req.depth /\ ~Full THEN "level" ELSE "ok"
    /\ limited' = (limited \/ Full)
    /\ UNCHANGED <<sharedVars, req, expanded, relations, outN, outE, stable, writes>>
EndLevel ==
    /\ pc = "level" /\ (Full \/ frontier = {})
    /\ depth' = depth + 1
    /\ frontier' = nextSet /\ nextSet' = {}
    /\ pc' = IF depth' < req.depth /\ ~Full THEN "level" ELSE "ok"
    /\ limited' = (limited \/ (Full /\ (frontier # {} \/ depth' < req.depth)))
    /\ UNCHANGED <<sharedVars, req, expanded, relations, outN, outE, stable, writes>>

(* Every call of the backend fails once the client has gone. *)
CallsBackend ==
    \/ pc = "begin"
    \/ pc = "level" /\ ~Full /\ frontier \ expanded # {}
    \/ pc = "relations" /\ ~Full /\ \E e \in relations : ~({e.from, e.to} \subseteq outN)

Cancel ==
    /\ CallsBackend
    /\ pc' = "cancelled"
    /\ UNCHANGED <<sharedVars, walk, stable, writes>>

(* The answer is written; the next request starts from nothing. *)
Respond ==
    /\ pc \in Answers
    /\ pc' = "idle" /\ depth' = 0
    /\ frontier' = {} /\ nextSet' = {} /\ expanded' = {} /\ relations' = {}
    /\ outN' = {} /\ outE' = {} /\ limited' = FALSE
    /\ stableN' = {} /\ stableE' = {}
    /\ UNCHANGED <<sharedVars, req, writes>>

-----------------------------------------------------------------------------
(***************************************************************************)
(* The writer: whatever Manager.Apply does to the graph, seen through the  *)
(* kernel.                                                                 *)
(***************************************************************************)

Churn ==
    /\ writes < MaxWrites
    /\ \/ \E id \in ChurnNodes : AddNode(id) \/ RemoveNode(id)
       \/ \E e \in ChurnEdges : AddEdge(e) \/ BeginRemoveEdge(e) \/ EndRemoveEdge(e)
    /\ writes' = writes + 1
    /\ stableN' = stableN \cap nodes' /\ stableE' = stableE \cap Staying'
    /\ UNCHANGED <<pc, walk>>

Walk ==
    \/ GetRoot
    \/ \E id \in Ids : NextNode(id)
    \/ ReadEdge
    \/ ReadDone
    \/ \E e \in Edge : VisitRelation(e)
    \/ EndNode
    \/ EndLevel
    \/ Respond

Next ==
    \/ \E o \in Requests : Receive(o)
    \/ Walk
    \/ Cancel
    \/ Churn

(* A handler's goroutine that can run does run; clients and the writer owe us *)
(* nothing.                                                                   *)
Spec == Init /\ [][Next]_vars /\ WF_vars(Walk)

-----------------------------------------------------------------------------
(***************************************************************************)
(* Properties                                                              *)
(***************************************************************************)

\* Whatever the writer does meanwhile and wherever the limit falls, the result
\* hangs together: its edges join nodes of the result, and no part of it is cut
\* off from the root.
ResultConnected ==
    /\ \A e \in outE : Inside(e, outN)
    /\ pc \in Walking \cup {"ok"} => Connected(outN, outE, req.root)

(* Nodes at most d steps from root, along E in the direction asked for. *)
Within(E, root, direction) ==
    LET reach[d \in Nat] ==
            IF d = 0 THEN {root}
            ELSE reach[d - 1] \cup
                 UNION {{NextID(e, id) : e \in {x \in E : Touching(x, id, direction)}} :
                            id \in reach[d - 1]}
    IN  reach

\* Every node of the result is at most depth steps from the root, over edges of
\* the result and in the direction asked for: no level too many, also when a node
\* is met on several levels.
ResultWithinDepth ==
    pc = "ok" => outN = Within(outE, req.root, req.direction)[req.depth]

(* Edges that match and stayed, with both their nodes, since the walk began. *)
Wanted == {e \in stableE : {e.from, e.to} \subseteq stableN /\ Matches(e, req.kind)}

\* An answer the limit did not touch misses nothing that stayed: every edge within
\* depth of the root that matches the request and was in the graph, with the
\* nodes on the way, from the first step of the walk to the last.
StableReachComplete ==
    pc = "ok" /\ ~limited =>
        \A e \in Wanted :
            (\E id \in Within(Wanted, req.root, req.direction)[req.depth - 1] :
                Touching(e, id, req.direction)) => e \in outE

\* Every request is answered: the walk ends however the writer interferes.
ExpansionEnds == (pc = "begin") ~> (pc \in Answers)

-----------------------------------------------------------------------------
(***************************************************************************)
(* The inductive invariant: what the walk holds is tied to its result.     *)
(***************************************************************************)

WalkInv ==
    /\ pc \in {"idle", "begin", "notFound", "invalid"} => outN = {} /\ outE = {} /\ nextSet = {}
    /\ pc \in Walking => req.root \in outN /\ frontier \subseteq outN /\ nextSet \subseteq outN
    /\ pc = "reading" => reading \in outN /\ \A e \in got : Touches(e, reading)
    /\ pc = "relations" => \A e \in relations : e.from \in outN \/ e.to \in outN

IInv == TypeOK /\ WalkInv /\ ResultConnected

(***************************************************************************)
(* Level by level: the frontier is what the result has within depth, and   *)
(* one step leads from it to all the rest.  While the walk looks at the    *)
(* relations of a node, that node is only known to be there.               *)
(***************************************************************************)

Found == Within(outE, req.root, req.direction)

LevelInv ==
    /\ pc \in {"idle", "begin"} => depth = 0
    /\ pc \in {"begin", "ok"} => req.depth > 0
    /\ pc \in Walking =>
        depth < req.depth /\ frontier \subseteq Found[depth] /\ outN \subseteq Found[depth + 1]
    /\ pc = "reading" => reading \in Found[depth]
    /\ pc = "relations" =>
        \E id \in Found[depth] : \A e \in relations : Touching(e, id, req.direction)
    /\ pc = "ok" => req.root \in outN /\ outN \subseteq Found[req.depth]

(***************************************************************************)
(* Until the limit leaves something out: the nodes that stable edges reach *)
(* within depth were expanded or wait in the frontier, and of a node that  *)
(* was expanded every stable edge is in the result and its other end met.  *)
(***************************************************************************)

Taken(e, id) == e \in outE /\ NextID(e, id) \in expanded \cup frontier \cup nextSet
Finished(ids) ==
    \A id \in ids : \A e \in Wanted : Touching(e, id, req.direction) => Taken(e, id)

StableInv ==
    /\ pc \in {"idle", "begin"} => expanded = {}
    /\ pc \in Walking => stableN \subseteq nodes /\ stableE \subseteq Staying
    /\ pc \in Walking /\ ~limited =>
        Within(Wanted, req.root, req.direction)[depth] \subseteq expanded \cup frontier
    /\ pc = "level" /\ ~limited => Finished(expanded)
    /\ pc = "reading" =>
        /\ reading \in expanded
        /\ \A e \in Wanted : Touches(e, reading) => e \in must
        /\ ~limited => Finished(expanded \ {reading})
    /\ pc = "relations" /\ ~limited =>
        \E id \in expanded :
            /\ Finished(expanded \ {id})
            /\ \A e \in Wanted : Touching(e, id, req.direction) => e \in relations \/ Taken(e, id)
    /\ StableReachComplete

=============================================================================
