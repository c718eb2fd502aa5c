--------------------------- MODULE QueriesProofs ---------------------------
(***************************************************************************)
(* Proofs about Queries, for every set of loads, requests and readers.     *)
(***************************************************************************)
EXTENDS Queries, WalkProofs, FiniteSetTheorems

\* An edge of a load joins ids, and an edge of a node touches it.
LEMMA LoadEdges ==
    ASSUME load \in Loads
    PROVE  /\ load.nodes \subseteq Ids
           /\ \A id : Edges(id) \subseteq Edge
           /\ \A id : \A e \in Edges(id) : e.from = id \/ e.to = id
           /\ \A e \in Edge : e.from \in Ids /\ e.to \in Ids
  BY LoadsAssumption DEF Edges, Edge

\* What a new edge adds to the next frontier is a sequence of the nodes it adds to
\* the result.
LEMMA NewNodesSeq ==
    ASSUME NEW e, NEW new \in [1..Cardinality(NewNodes(e)) -> NewNodes(e)]
    PROVE  new \in Seq(NewNodes(e))
<1>1. IsFiniteSet({e.from, e.to})
  <2>1. IsFiniteSet({e.from})
    BY FS_Singleton, Zenon
  <2>2. IsFiniteSet({e.from} \cup {e.to})
    BY <2>1, FS_AddElement, Zenon
  <2>3. {e.from, e.to} = {e.from} \cup {e.to}
    OBVIOUS
  <2> QED BY <2>2, <2>3, Zenon
<1>2. IsFiniteSet(NewNodes(e))
  BY <1>1, FS_Subset DEF NewNodes
<1>3. Cardinality(NewNodes(e)) \in Nat
  BY <1>2, FS_CardinalityType
<1> QED BY <1>3

-----------------------------------------------------------------------------
(* What TypeOK says of the walk. *)
WalkShape ==
    /\ root \in Ids /\ current \in Ids /\ depth \in Nat
    /\ frontier \in Seq(outN) /\ nextFrontier \in Seq(outN)
    /\ todo \subseteq Edge /\ outN \subseteq Ids /\ outE \subseteq Edge
    /\ reasons \subseteq {"maxNodes", "maxEdges"}

\* A walk that begins has the right shape.
LEMMA BeginWalkShape ==
    ASSUME NEW id \in Ids, NEW o, BeginWalk(id, o)
    PROVE  WalkShape'
  BY DEF BeginWalk, WalkShape

\* A turn of the walk keeps its shape.
LEMMA TurnShape ==
    ASSUME load \in Loads, WalkShape, Turn \/ NextLevel
    PROVE  WalkShape'
<1> USE LoadEdges DEF WalkShape
<1>1. CASE NextNode
  <2>1. Head(frontier) \in outN /\ Tail(frontier) \in Seq(outN)
    BY <1>1 DEF NextNode
  <2> QED BY <1>1, <2>1 DEF NextNode
<1>2. ASSUME NEW e \in todo, SkipEdge(e) PROVE WalkShape'
  BY <1>2 DEF SkipEdge
<1>3. ASSUME NEW e \in todo, LeaveOut(e) PROVE WalkShape'
  BY <1>3 DEF LeaveOut
<1>4. ASSUME NEW e \in todo, TakeEdge(e) PROVE WalkShape'
  <2>1. PICK new \in [1..Cardinality(NewNodes(e)) -> NewNodes(e)] :
            nextFrontier' = nextFrontier \o new
    BY <1>4 DEF TakeEdge
  <2>2. new \in Seq(NewNodes(e))
    BY <2>1, NewNodesSeq
  <2>3. outN' = outN \cup NewNodes(e) /\ frontier' = frontier
    BY <1>4 DEF TakeEdge
  <2>4. frontier' \in Seq(outN') /\ nextFrontier' \in Seq(outN')
    BY <2>1, <2>2, <2>3
  <2>5. NewNodes(e) \subseteq Ids
    BY DEF NewNodes
  <2> QED BY <1>4, <2>3, <2>4, <2>5 DEF TakeEdge
<1>5. CASE NextLevel
  BY <1>5 DEF NextLevel
<1> QED BY <1>1, <1>2, <1>3, <1>4, <1>5 DEF Turn

-----------------------------------------------------------------------------
\* The initial states satisfy the invariant.
LEMMA InitInv == Init => IInv
<1> SUFFICES ASSUME Init PROVE IInv
  OBVIOUS
<1> USE LoadsAssumption DEF Init
<1>1. WalkShape
  BY DEF WalkShape
<1> HIDE DEF Init
<1>2. others \in 0..MaxOthers
  BY DEF Init
<1>3. load \in Loads /\ pc = "idle" /\ wpc = "idle" /\ expired = FALSE
  BY DEF Init
<1>4. TypeOK
  BY <1>1, <1>2, <1>3 DEF TypeOK, WalkShape, Answers, Holding
<1>5. WalkInv /\ ResultConnected
  BY <1>3 DEF WalkInv, ResultConnected
<1> QED BY <1>4, <1>5 DEF IInv

\* Every step keeps the shapes, and keeps readers and the writer apart.
LEMMA NextTypeOK == TypeOK /\ [Next]_vars => TypeOK'
<1> SUFFICES ASSUME TypeOK, [Next]_vars PROVE TypeOK'
  OBVIOUS
<1> USE LoadsAssumption DEF Answers, Holding, ReadersMayLock
<1>0. WalkShape
  BY DEF TypeOK, WalkShape
<1>1. ASSUME NEW o \in Requests, Receive(o) PROVE TypeOK'
  BY <1>1 DEF Receive, TypeOK, walk, lock
<1>2. CASE RLockContext
  BY <1>2 DEF RLockContext, TypeOK, walk, lock
<1>3. CASE RLockTimeout
  BY <1>3 DEF RLockTimeout, TypeOK, walk, lock
<1>4. CASE FindEntry
  <2>1. ASSUME NEW id \in EntryIDs(req), id \in load.nodes, BeginWalk(id, req)
        PROVE  WalkShape'
    BY <2>1, LoadEdges, BeginWalkShape DEF TypeOK
  <2>2. UNCHANGED walk => WalkShape'
    BY <1>0 DEF WalkShape, walk
  <2>3. WalkShape'
    BY <1>4, <2>1, <2>2 DEF FindEntry
  <2>4. /\ pc' \in {"notFound", "invalid", "internal", "timeout", "walk"} /\ pc = "find"
        /\ UNCHANGED <<load, expired, req, lock>>
    BY <1>4 DEF FindEntry
  <2> QED BY <2>3, <2>4 DEF TypeOK, WalkShape, lock
<1>5. CASE Step
  <2>1. WalkShape'
    BY <1>0, <1>5, TurnShape DEF Step, TypeOK
  <2> QED BY <1>5, <2>1 DEF Step, TypeOK, WalkShape, handler, lock
<1>5a. CASE EndLevel
  <2>1. WalkShape'
    BY <1>0, <1>5a, TurnShape DEF EndLevel, TypeOK
  <2>2. pc = "walk" /\ pc' \in {"walk", "timeout"} /\ UNCHANGED <<load, expired, lock>>
    BY <1>5a DEF EndLevel
  <2> QED BY <2>1, <2>2 DEF TypeOK, WalkShape, lock
<1>6. CASE WalkTimeout
  BY <1>6 DEF WalkTimeout, TypeOK, walk, lock
<1>7. CASE RUnlock
  BY <1>7 DEF RUnlock, TypeOK, walk, lock
<1>8. CASE RuntimeStatus
  BY <1>8 DEF RuntimeStatus, TypeOK, walk, lock
<1>9. CASE Respond
  <2>1. WalkShape'
    BY <1>0, <1>9 DEF Respond, WalkShape
  <2>2. pc' = "idle" /\ expired' = FALSE /\ UNCHANGED <<load, wpc, others>>
    BY <1>9 DEF Respond, lock
  <2> QED BY <2>1, <2>2 DEF TypeOK, WalkShape
<1>10. CASE Expire
  BY <1>10 DEF Expire, TypeOK, walk, lock
<1>11. CASE Lock \/ Acquire
  BY <1>11 DEF Lock, Acquire, TypeOK, walk, handler
<1>12. CASE Write
  BY <1>12 DEF Write, TypeOK, walk, handler, lock
<1>13. CASE Unlock
  BY <1>13 DEF Unlock, TypeOK, walk
<1>14. CASE OtherLock \/ OtherUnlock
  <2>1. WalkShape' /\ UNCHANGED <<load, pc, expired, wpc>>
    BY <1>0, <1>14 DEF OtherLock, OtherUnlock, WalkShape, walk, handler
  <2>2. others' \in 0..MaxOthers /\ wpc # "writing"
    BY <1>14 DEF OtherLock, OtherUnlock, TypeOK
  <2> QED BY <2>1, <2>2 DEF TypeOK, WalkShape
<1>15. CASE UNCHANGED vars
  BY <1>15 DEF vars, TypeOK, walk, handler, lock
<1> QED
  BY <1>1, <1>2, <1>3, <1>4, <1>5, <1>6, <1>7, <1>8, <1>9, <1>10, <1>11, <1>12, <1>13,
     <1>14, <1>15, <1>5a
     DEF Next, Handle

-----------------------------------------------------------------------------
\* A turn of the walk keeps its result tied to the graph, and connected: only
\* TakeEdge adds to it.
LEMMA TurnConnected ==
    ASSUME TypeOK, WalkInv, ResultConnected, pc = "walk", load' = load, Turn \/ NextLevel
    PROVE  WalkInv' /\ ResultConnected'
<1> USE LoadEdges DEF WalkInv, ResultConnected
<1>0. load \in Loads /\ root \in outN /\ Connected(outN, outE, root)
  BY DEF TypeOK
<1>1. CASE NextNode
  <2>1. Head(frontier) \in outN
    BY <1>1 DEF NextNode, TypeOK
  <2> QED BY <1>1, <2>1 DEF NextNode, Edges
<1>2. ASSUME NEW e \in todo, SkipEdge(e) PROVE WalkInv' /\ ResultConnected'
  BY <1>2 DEF SkipEdge, Edges
<1>3. ASSUME NEW e \in todo, LeaveOut(e) PROVE WalkInv' /\ ResultConnected'
  BY <1>3 DEF LeaveOut, Edges
<1>4. ASSUME NEW e \in todo, TakeEdge(e) PROVE WalkInv' /\ ResultConnected'
  <2>1. /\ outN' = outN \cup NewNodes(e) /\ outE' = outE \cup {e}
        /\ UNCHANGED <<root, current>> /\ todo' \subseteq todo
    BY <1>4 DEF TakeEdge
  <2>2. e.from = current \/ e.to = current
    BY <1>0
  <2>3. WalkInv'
    BY <2>1 DEF NewNodes, Edges
  <2>4. \A x \in outE' : {x.from, x.to} \cap load.nodes \subseteq outN'
    BY <2>1 DEF NewNodes
  <2>5. CASE NewNodes(e) = {}
    <3>1. outN' = outN
      BY <2>1, <2>5
    <3> QED BY <1>0, <2>1, <2>3, <2>4, <3>1, EdgeKeepsConnected
  <2>6. ASSUME NEW n \in NewNodes(e) PROVE WalkInv' /\ ResultConnected'
    <3>1. (e.from = current /\ e.to = n) \/ (e.from = n /\ e.to = current)
      BY <2>2, <2>6 DEF NewNodes
    <3>2. outN' = outN \cup {n}
      BY <2>1, <3>1, <2>6 DEF NewNodes
    <3>3. Connected(outN \cup {n}, outE \cup {e}, root)
      BY <1>0, <3>1, NodeKeepsConnected
    <3> QED BY <2>1, <2>3, <2>4, <3>2, <3>3
  <2> QED BY <2>5, <2>6
<1>5. CASE NextLevel
  BY <1>5 DEF NextLevel, Edges
<1> QED BY <1>1, <1>2, <1>3, <1>4, <1>5 DEF Turn

\* Every step keeps the walk inside one graph and its result connected.
LEMMA NextWalkInv ==
    TypeOK /\ WalkInv /\ ResultConnected /\ [Next]_vars => WalkInv' /\ ResultConnected'
<1> SUFFICES ASSUME TypeOK, WalkInv, ResultConnected, [Next]_vars
             PROVE  WalkInv' /\ ResultConnected'
  OBVIOUS
<1> DEFINE Goal == WalkInv' /\ ResultConnected'
<1>a. ASSUME pc' # "walk" PROVE Goal
  BY <1>a DEF WalkInv, ResultConnected
<1>b. ASSUME pc = "walk", UNCHANGED <<load, walk, pc>> PROVE Goal
  BY <1>b DEF WalkInv, ResultConnected, walk, Edges
<1> SUFFICES Goal
  OBVIOUS
<1> HIDE DEF Goal
<1>1. ASSUME NEW o \in Requests, Receive(o) PROVE Goal
  BY <1>1, <1>a DEF Receive
<1>2. CASE RLockContext \/ RLockTimeout \/ WalkTimeout \/ RUnlock \/ RuntimeStatus \/ Respond
  <2>1. pc' # "walk"
    BY <1>2 DEF RLockContext, RLockTimeout, WalkTimeout, RUnlock, RuntimeStatus, Respond
  <2> QED BY <2>1, <1>a
<1>3. CASE FindEntry
  <2>1. CASE pc' # "walk"
    BY <2>1, <1>a
  <2>2. CASE pc' = "walk"
    <3>1. PICK id \in load.nodes : BeginWalk(id, req)
      BY <1>3, <2>2 DEF FindEntry
    <3>2. load' = load
      BY <1>3 DEF FindEntry
    <3> QED BY <3>1, <3>2, RootConnected DEF Goal, BeginWalk, WalkInv, ResultConnected
  <2> QED BY <2>1, <2>2
<1>4. CASE Step \/ EndLevel
  BY <1>4, TurnConnected DEF Step, EndLevel, Goal
<1>5. CASE Expire \/ Lock \/ Acquire \/ OtherLock \/ OtherUnlock \/ UNCHANGED vars
  <2>1. UNCHANGED <<load, walk, pc>>
    BY <1>5 DEF Expire, Lock, Acquire, OtherLock, OtherUnlock, handler, vars
  <2> QED BY <2>1, <1>a, <1>b
<1>6. CASE Write
  BY <1>6, <1>a DEF Write, TypeOK, Holding, handler
<1>7. CASE Unlock
  BY <1>7, <1>a, <1>b DEF Unlock, TypeOK, Holding
<1> QED BY <1>1, <1>2, <1>3, <1>4, <1>5, <1>6, <1>7 DEF Next, Handle

-----------------------------------------------------------------------------
\* The inductive invariant of diagnostic queries beside Apply.
THEOREM QueriesInvariant == Spec => []IInv
<1>1. IInv /\ [Next]_vars => IInv'
  BY NextTypeOK, NextWalkInv DEF IInv
<1> QED BY InitInv, <1>1, PTL DEF Spec

\* The walk keeps its shape, and no query reads while Apply writes.
THEOREM QueriesTypeCorrect == Spec => []TypeOK
<1>1. IInv => TypeOK
  BY DEF IInv
<1> QED BY QueriesInvariant, <1>1, PTL

\* The diagnostic subgraph is connected to its entry whatever the budgets leave out,
\* and lacks an end of an edge only if the graph does.
THEOREM DiagnosticConnected == Spec => []ResultConnected
<1>1. IInv => ResultConnected
  BY DEF IInv
<1> QED BY QueriesInvariant, <1>1, PTL

-----------------------------------------------------------------------------
(* Where the rules lead from a set of nodes, at a depth. *)
Ahead(S, d) ==
    UNION {{e.from, e.to} \cap load.nodes : e \in UNION {Steps(id, d) : id \in S}}

\* The rules lead along edges of the node they start from, to nodes of the graph.
LEMMA RulesInGraph ==
    ASSUME load \in Loads, NEW d
    PROVE  /\ \A id : Steps(id, d) \subseteq Edges(id)
           /\ \A S : Ahead(S, d) \subseteq load.nodes /\ Ahead(S, d) \subseteq Ids
  BY LoadEdges DEF Steps, Ahead

\* The equations of WalkEnds: the function its recursive definition speaks of exists.
LEMMA WalkEndsEquations ==
    load \in Loads /\ root \in Ids =>
        WalkEnds[0] = {root} /\ \A d \in Nat : WalkEnds[d + 1] = Ahead(WalkEnds[d], d)
<1> SUFFICES ASSUME load \in Loads, root \in Ids
             PROVE  WalkEnds[0] = {root} /\ \A d \in Nat : WalkEnds[d + 1] = Ahead(WalkEnds[d], d)
  OBVIOUS
<1> DEFINE step == [d \in Nat |-> [S \in SUBSET Ids |-> Ahead(S, d)]]
           Eq(f) == f = [d \in Nat |-> IF d = 0 THEN {root} ELSE Ahead(f[d - 1], d - 1)]
<1>1. step \in [Nat -> [SUBSET Ids -> SUBSET Ids]]
  BY RulesInGraph
<1>2. \A d \in Nat, S \in SUBSET Ids : step[d][S] = Ahead(S, d)
  OBVIOUS
<1> HIDE DEF step
<1>3. PICK g \in [Nat -> SUBSET Ids] :
            g[0] = {root} /\ \A d \in Nat : g[d + 1] = step[d][g[d]]
  <2>1. {root} \in SUBSET Ids
    OBVIOUS
  <2>2. Iterates(SUBSET Ids, {root}, step) # {}
    BY <1>1, <2>1, NaturalRecursion
  <2> QED BY <2>2 DEF Iterates
<1>4. Eq(g)
  <2>1. ASSUME NEW d \in Nat
        PROVE  g[d] = IF d = 0 THEN {root} ELSE Ahead(g[d - 1], d - 1)
    <3>1. CASE d = 0
      BY <1>3, <3>1
    <3>2. CASE d # 0
      <4>1. d - 1 \in Nat /\ (d - 1) + 1 = d
        BY <3>2
      <4>2. g[d] = step[d - 1][g[d - 1]] /\ g[d - 1] \in SUBSET Ids
        BY <1>3, <4>1
      <4> QED BY <1>2, <3>2, <4>1, <4>2
    <3> QED BY <3>1, <3>2
  <2> QED BY <1>3, <2>1
<1>5. Eq(WalkEnds)
  BY <1>4, Zenon DEF WalkEnds, Ahead
<1>6. \A d \in Nat : WalkEnds[d] = IF d = 0 THEN {root} ELSE Ahead(WalkEnds[d - 1], d - 1)
  BY <1>5, Zenon
<1>7. ASSUME NEW d \in Nat PROVE WalkEnds[d + 1] = Ahead(WalkEnds[d], d)
  <2>1. d + 1 \in Nat /\ d + 1 # 0 /\ (d + 1) - 1 = d
    OBVIOUS
  <2> QED BY <1>6, <2>1
<1> QED BY <1>6, <1>7

\* What the walk passes at each depth is among the ids.
LEMMA WalkEndsInGraph ==
    ASSUME load \in Loads, root \in Ids, NEW d \in Nat
    PROVE  WalkEnds[d] \subseteq Ids
<1>1. CASE d = 0
  BY <1>1, WalkEndsEquations
<1>2. CASE d # 0
  <2>1. d - 1 \in Nat /\ (d - 1) + 1 = d
    BY <1>2
  <2>2. WalkEnds[d] = Ahead(WalkEnds[d - 1], d - 1)
    BY <2>1, WalkEndsEquations
  <2> QED BY <2>2, RulesInGraph
<1> QED BY <1>1, <1>2

\* The rules and what they reach depend on the graph, the policy and the entry only.
LEMMA RulesStay ==
    ASSUME load \in Loads, root \in Ids, UNCHANGED <<load, policy, root>>
    PROVE  /\ Levels' = Levels
           /\ \A id, d : Steps(id, d)' = Steps(id, d)
           /\ \A id : isTerminalNode(id)' <=> isTerminalNode(id)
           /\ \A d \in Nat : WalkEnds'[d] = WalkEnds[d]
<1>1. Levels' = Levels
  BY DEF Levels
<1>2. ASSUME NEW id PROVE isTerminalNode(id)' <=> isTerminalNode(id)
  BY DEF isTerminalNode, isTerminalCSINode, Edges
<1>3. ASSUME NEW id, NEW d PROVE Steps(id, d)' = Steps(id, d)
  <2>1. Edges(id)' = Edges(id)
    BY DEF Edges
  <2>2. ASSUME NEW e PROVE Permits(id, e)' <=> Permits(id, e)
    BY Zenon DEF Permits, csiAgentMatchesRootPodNode, shouldTraverseDriverNodeAgents
  <2>3. ASSUME NEW e PROVE shouldTraverse(e.kind, d)' <=> shouldTraverse(e.kind, d)
    BY Zenon DEF shouldTraverse
  <2> QED BY <1>2, <2>1, <2>2, <2>3 DEF Steps, shouldTraverseFrom
<1> DEFINE Same == {d \in Nat : WalkEnds'[d] = WalkEnds[d]}
<1>4. WalkEnds'[0] = {root} /\ \A d \in Nat : WalkEnds'[d + 1] = Ahead(WalkEnds[d], d)'
  <2>1. (load \in Loads /\ root \in Ids =>
            WalkEnds[0] = {root} /\ \A d \in Nat : WalkEnds[d + 1] = Ahead(WalkEnds[d], d))'
    BY WalkEndsEquations, PTL
  <2> QED BY <2>1
<1>5. WalkEnds[0] = {root} /\ \A d \in Nat : WalkEnds[d + 1] = Ahead(WalkEnds[d], d)
  BY WalkEndsEquations
<1>6. 0 \in Same
  BY <1>4, <1>5
<1>7. ASSUME NEW d \in Same PROVE d + 1 \in Same
  <2>1. WalkEnds'[d] = WalkEnds[d]
    OBVIOUS
  <2>2. Ahead(WalkEnds[d], d)' = Ahead(WalkEnds[d], d)
    BY <1>3, <2>1 DEF Ahead
  <2> QED BY <1>4, <1>5, <2>2
<1>8. \A d \in Nat : d \in Same
  BY <1>6, <1>7, NaturalInduction
<1> QED BY <1>1, <1>2, <1>3, <1>8

\* What the rules allow in the next state, at the depth it has then.
LEMMA StepsNow ==
    ASSUME UNCHANGED <<load, policy, root>>, NEW id
    PROVE  Steps(id, depth)' = Steps(id, depth')
<1>1. Edges(id)' = Edges(id) /\ (isTerminalNode(id)' <=> isTerminalNode(id))
  BY DEF isTerminalNode, isTerminalCSINode, Edges
<1>2. ASSUME NEW e PROVE Permits(id, e)' <=> Permits(id, e)
  BY Zenon DEF Permits, csiAgentMatchesRootPodNode, shouldTraverseDriverNodeAgents
<1>3. ASSUME NEW e PROVE shouldTraverse(e.kind, depth)' <=> shouldTraverse(e.kind, depth')
  BY Zenon DEF shouldTraverse
<1> QED BY <1>1, <1>2, <1>3 DEF Steps, shouldTraverseFrom

\* The rules allow no more at a greater depth.
LEMMA RulesNarrow ==
    ASSUME PolicyOK, NEW d \in Nat, NEW id
    PROVE  Steps(id, d + 1) \subseteq Steps(id, d)
<1>1. ASSUME NEW e PROVE shouldTraverse(e.kind, d + 1) => shouldTraverse(e.kind, d)
  BY DEF shouldTraverse, PolicyOK
<1> QED BY <1>1 DEF Steps, shouldTraverseFrom

\* A step of the walk stays within what the rules reach.
LEMMA StepReaches ==
    ASSUME load \in Loads, root \in Ids, PolicyOK, NEW d \in Nat, d < Levels,
           NEW id \in WalkEnds[d], NEW e \in Steps(id, d)
    PROVE  /\ e \in ReachableEdges
           /\ {e.from, e.to} \cap load.nodes \subseteq WalkEnds[d + 1]
           /\ {e.from, e.to} \cap load.nodes \subseteq ReachableNodes
<1>0. Levels \in Nat
  BY DEF PolicyOK, Levels
<1>1. d \in 0..(Levels - 1) /\ d + 1 \in 0..Levels
  BY <1>0
<1>2. WalkEnds[d + 1] = Ahead(WalkEnds[d], d)
  BY WalkEndsEquations
<1>3. {e.from, e.to} \cap load.nodes \subseteq WalkEnds[d + 1]
  BY <1>2 DEF Ahead
<1>4. e \in ReachableEdges
  BY <1>1 DEF ReachableEdges
<1>5. WalkEnds[d + 1] \subseteq ReachableNodes
  BY <1>1 DEF ReachableNodes
<1> QED BY <1>3, <1>4, <1>5

-----------------------------------------------------------------------------
\* What waits in a frontier: its head and the rest.
LEMMA QueuedHead ==
    ASSUME NEW S, NEW s \in Seq(S), s # <<>>
    PROVE  Queued(s) = {Head(s)} \cup Queued(Tail(s))
<1>1. /\ Len(s) \in Nat /\ Len(s) > 0 /\ DOMAIN s = 1..Len(s) /\ Head(s) = s[1]
      /\ DOMAIN Tail(s) = 1..(Len(s) - 1) /\ \A i \in 1..(Len(s) - 1) : Tail(s)[i] = s[i + 1]
  OBVIOUS
<1>2. ASSUME NEW i \in DOMAIN s PROVE s[i] \in {Head(s)} \cup Queued(Tail(s))
  <2>1. CASE i = 1
    BY <1>1, <2>1
  <2>2. CASE i # 1
    <3>1. i - 1 \in 1..(Len(s) - 1) /\ (i - 1) + 1 = i
      BY <1>1, <2>2
    <3>2. Tail(s)[i - 1] = s[i] /\ i - 1 \in DOMAIN Tail(s)
      BY <1>1, <3>1
    <3> QED BY <3>2 DEF Queued
  <2> QED BY <2>1, <2>2
<1>3. Head(s) \in Queued(s)
  BY <1>1 DEF Queued
<1>4. ASSUME NEW i \in DOMAIN Tail(s) PROVE Tail(s)[i] \in Queued(s)
  <2>1. i + 1 \in DOMAIN s /\ Tail(s)[i] = s[i + 1]
    BY <1>1
  <2> QED BY <2>1 DEF Queued
<1> QED BY <1>2, <1>3, <1>4 DEF Queued

\* Nothing waits in an empty frontier.
LEMMA QueuedNothing == Queued(<<>>) = {}
  BY DEF Queued

\* What waits in a frontier that has grown.
LEMMA QueuedMore ==
    ASSUME NEW S, NEW s \in Seq(S), NEW t \in Seq(S)
    PROVE  Queued(s \o t) = Queued(s) \cup Queued(t)
<1>1. /\ Len(s) \in Nat /\ Len(t) \in Nat /\ DOMAIN s = 1..Len(s) /\ DOMAIN t = 1..Len(t)
      /\ DOMAIN (s \o t) = 1..(Len(s) + Len(t))
      /\ \A i \in 1..(Len(s) + Len(t)) : (s \o t)[i] = IF i <= Len(s) THEN s[i] ELSE t[i - Len(s)]
  OBVIOUS
<1> DEFINE u == s \o t
<1> HIDE DEF u
<1>2. ASSUME NEW i \in DOMAIN u PROVE u[i] \in Queued(s) \cup Queued(t)
  <2>1. i \in 1..(Len(s) + Len(t)) /\ u[i] = IF i <= Len(s) THEN s[i] ELSE t[i - Len(s)]
    BY <1>1 DEF u
  <2>2. CASE i <= Len(s)
    <3>1. i \in DOMAIN s /\ u[i] = s[i]
      BY <1>1, <2>1, <2>2
    <3> QED BY <3>1 DEF Queued
  <2>3. CASE ~(i <= Len(s))
    <3>1. i - Len(s) \in DOMAIN t /\ u[i] = t[i - Len(s)]
      BY <1>1, <2>1, <2>3
    <3> QED BY <3>1 DEF Queued
  <2> QED BY <2>2, <2>3
<1>3. ASSUME NEW i \in DOMAIN s PROVE s[i] \in Queued(u)
  <2>1. i \in DOMAIN u /\ u[i] = s[i]
    BY <1>1 DEF u
  <2> QED BY <2>1 DEF Queued
<1>4. ASSUME NEW i \in DOMAIN t PROVE t[i] \in Queued(u)
  <2>1. i + Len(s) \in 1..(Len(s) + Len(t)) /\ ~(i + Len(s) <= Len(s)) /\ (i + Len(s)) - Len(s) = i
    BY <1>1
  <2>2. i + Len(s) \in DOMAIN u /\ u[i + Len(s)] = t[i]
    BY <1>1, <2>1 DEF u
  <2> QED BY <2>2 DEF Queued
<1>5. Queued(u) = Queued(s) \cup Queued(t)
  BY <1>2, <1>3, <1>4 DEF Queued
<1> QED BY <1>5 DEF u

\* An edge of the node being expanded has at most one end that is new.
LEMMA OneNewNode ==
    ASSUME current \in outN, NEW e, e.from = current \/ e.to = current
    PROVE  \/ NewNodes(e) = {} /\ Cardinality(NewNodes(e)) = 0
           \/ \E n : NewNodes(e) = {n} /\ Cardinality(NewNodes(e)) = 1
<1>1. CASE NewNodes(e) = {}
  BY <1>1, FS_EmptySet
<1>2. ASSUME NEW n \in NewNodes(e) PROVE NewNodes(e) = {n} /\ Cardinality(NewNodes(e)) = 1
  <2>1. NewNodes(e) = {n}
    BY <1>2 DEF NewNodes
  <2> QED BY <2>1, FS_Singleton
<1> QED BY <1>1, <1>2

\* The new nodes wait for the next level, all of them.
LEMMA NewNodesQueued ==
    ASSUME current \in outN, NEW e, e.from = current \/ e.to = current,
           NEW new \in [1..Cardinality(NewNodes(e)) -> NewNodes(e)]
    PROVE  Queued(new) = NewNodes(e)
<1>1. CASE NewNodes(e) = {} /\ Cardinality(NewNodes(e)) = 0
  <2>1. DOMAIN new = {}
    BY <1>1
  <2> QED BY <1>1, <2>1 DEF Queued
<1>2. ASSUME NEW n, NewNodes(e) = {n}, Cardinality(NewNodes(e)) = 1 PROVE Queued(new) = NewNodes(e)
  <2>1. DOMAIN new = {1} /\ new[1] = n
    BY <1>2
  <2> QED BY <1>2, <2>1 DEF Queued
<1> QED BY <1>1, <1>2, OneNewNode

\* What TakeEdge does, in terms of what waits.
LEMMA TakeEdgeEffect ==
    ASSUME TypeOK, WalkInv, pc = "walk", NEW e \in todo, TakeEdge(e)
    PROVE  /\ Queued(frontier') = Queued(frontier)
           /\ Queued(nextFrontier') = Queued(nextFrontier) \cup NewNodes(e)
           /\ outN' = outN \cup NewNodes(e) /\ outE' = outE \cup {e} /\ todo' = todo \ {e}
           /\ UNCHANGED <<policy, root, depth, frontier, current, reasons>>
           /\ e \in Edges(current) /\ Follows(e)
<1>1. /\ outN' = outN \cup NewNodes(e) /\ outE' = outE \cup {e} /\ todo' = todo \ {e}
      /\ UNCHANGED <<policy, root, depth, frontier, current, reasons>> /\ Follows(e)
  BY DEF TakeEdge
<1>2. e \in Edges(current) /\ current \in outN /\ (e.from = current \/ e.to = current)
  BY DEF WalkInv, Edges
<1>3. PICK new \in [1..Cardinality(NewNodes(e)) -> NewNodes(e)] :
          nextFrontier' = nextFrontier \o new
  BY DEF TakeEdge
<1>4. Queued(new) = NewNodes(e)
  BY <1>2, NewNodesQueued
<1>5. nextFrontier \in Seq(outN \cup NewNodes(e)) /\ new \in Seq(outN \cup NewNodes(e))
  <2>1. nextFrontier \in Seq(outN) /\ new \in Seq(NewNodes(e))
    BY NewNodesSeq DEF TypeOK
  <2> QED BY <2>1
<1>6. Queued(nextFrontier \o new) = Queued(nextFrontier) \cup Queued(new)
  BY <1>5, QueuedMore
<1> QED BY <1>1, <1>2, <1>3, <1>4, <1>6

-----------------------------------------------------------------------------
\* What the rules reach in all stays too.
LEMMA ReachStays ==
    ASSUME load \in Loads, root \in Ids, PolicyOK, UNCHANGED <<load, policy, root>>
    PROVE  ReachableNodes' = ReachableNodes /\ ReachableEdges' = ReachableEdges
<1>1. /\ Levels' = Levels /\ Levels \in Nat
      /\ \A id, d : Steps(id, d)' = Steps(id, d)
      /\ \A d \in Nat : WalkEnds'[d] = WalkEnds[d]
  BY RulesStay DEF PolicyOK, Levels
<1>2. \A d \in 0..Levels : WalkEnds'[d] = WalkEnds[d]
  BY <1>1
<1>3. ReachableNodes' = ReachableNodes
  BY <1>1, <1>2 DEF ReachableNodes
<1>4. \A d \in 0..(Levels - 1) :
        UNION {Steps(id, d)' : id \in WalkEnds'[d]} = UNION {Steps(id, d) : id \in WalkEnds[d]}
  BY <1>1
<1>5. ReachableEdges' = UNION {UNION {Steps(id, d)' : id \in WalkEnds'[d]} : d \in 0..(Levels - 1)}
  BY <1>1 DEF ReachableEdges
<1>6. ReachableEdges' = ReachableEdges
  BY <1>4, <1>5 DEF ReachableEdges
<1> QED BY <1>3, <1>6

\* A turn of the walk changes neither the rules nor the entry.
LEMMA TurnKeepsRules ==
    ASSUME Turn \/ NextLevel
    PROVE  UNCHANGED <<policy, root>>
  BY DEF Turn, NextNode, SkipEdge, LeaveOut, TakeEdge, NextLevel

\* A turn of the walk stays within the rules.
LEMMA TurnWithinRules ==
    ASSUME TypeOK, WalkInv, PolicyOK, WithinRules, pc = "walk", load' = load, Turn \/ NextLevel
    PROVE  WithinRules'
<1>0. /\ load \in Loads /\ root \in Ids /\ depth \in Nat
      /\ frontier \in Seq(outN) /\ nextFrontier \in Seq(outN)
  BY DEF TypeOK
<1>1. UNCHANGED <<load, policy, root>>
  BY TurnKeepsRules
<1>2. /\ Levels' = Levels /\ \A id : isTerminalNode(id)' <=> isTerminalNode(id)
      /\ \A d \in Nat : WalkEnds'[d] = WalkEnds[d]
  BY <1>0, <1>1, RulesStay
<1>3. ReachableNodes' = ReachableNodes /\ ReachableEdges' = ReachableEdges
  BY <1>0, <1>1, ReachStays
<1>4. /\ depth <= Levels /\ Levels \in Nat
      /\ Queued(frontier) \subseteq WalkEnds[depth]
      /\ Queued(nextFrontier) \subseteq WalkEnds[depth + 1]
      /\ todo # {} => depth < Levels /\ current \in WalkEnds[depth] /\ ~isTerminalNode(current)
      /\ outN \subseteq ReachableNodes /\ outE \subseteq ReachableEdges
  BY DEF WithinRules, PolicyOK, Levels
<1> SUFFICES /\ depth' <= Levels
             /\ Queued(frontier') \subseteq WalkEnds[depth']
             /\ Queued(nextFrontier') \subseteq WalkEnds[depth' + 1]
             /\ todo' # {} =>
                  depth' < Levels /\ current' \in WalkEnds[depth'] /\ ~isTerminalNode(current')
             /\ outN' \subseteq ReachableNodes /\ outE' \subseteq ReachableEdges
  <2>1. depth' \in Nat
    BY <1>0, TurnShape DEF TypeOK, WalkShape
  <2>2. isTerminalNode(current)' <=> isTerminalNode(current')
    BY <1>1 DEF isTerminalNode, isTerminalCSINode, Edges
  <2> QED BY <1>2, <1>3, <2>1, <2>2 DEF WithinRules
<1>5. CASE NextNode
  <2>1. Queued(frontier) = {Head(frontier)} \cup Queued(Tail(frontier))
    BY <1>0, <1>5, QueuedHead DEF NextNode
  <2> QED BY <1>4, <1>5, <2>1 DEF NextNode
<1>6. ASSUME NEW e \in todo, SkipEdge(e) \/ LeaveOut(e)
      PROVE  /\ UNCHANGED <<depth, frontier, nextFrontier, current, outN, outE>>
             /\ todo' \subseteq todo
  BY <1>6 DEF SkipEdge, LeaveOut
<1>7. ASSUME NEW e \in todo, TakeEdge(e)
      PROVE  /\ UNCHANGED <<depth, current>> /\ todo' \subseteq todo
             /\ Queued(frontier') = Queued(frontier)
             /\ Queued(nextFrontier') \subseteq WalkEnds[depth + 1]
             /\ outN' \subseteq ReachableNodes /\ outE' \subseteq ReachableEdges
  <2>1. /\ Queued(frontier') = Queued(frontier)
        /\ Queued(nextFrontier') = Queued(nextFrontier) \cup NewNodes(e)
        /\ outN' = outN \cup NewNodes(e) /\ outE' = outE \cup {e} /\ todo' = todo \ {e}
        /\ UNCHANGED <<depth, current>>
        /\ e \in Edges(current) /\ Follows(e)
    BY <1>7, TakeEdgeEffect
  <2>2. e \in Steps(current, depth)
    BY <1>4, <2>1 DEF Steps, Follows
  <2>3. /\ e \in ReachableEdges
        /\ {e.from, e.to} \cap load.nodes \subseteq WalkEnds[depth + 1]
        /\ {e.from, e.to} \cap load.nodes \subseteq ReachableNodes
    BY <1>0, <1>4, <2>2, StepReaches
  <2> QED BY <1>4, <2>1, <2>3 DEF NewNodes
<1>8. CASE NextLevel
  <2>1. /\ depth' = depth + 1 /\ depth < Levels /\ frontier' = nextFrontier /\ nextFrontier' = <<>>
        /\ todo' = {} /\ UNCHANGED <<outN, outE>>
    BY <1>8 DEF NextLevel, LevelDone
  <2> QED BY <1>0, <1>4, <2>1, QueuedNothing
<1> QED BY <1>4, <1>5, <1>6, <1>7, <1>8 DEF Turn

\* A turn of the walk that leaves nothing out misses nothing: the last level and its
\* edges are in the result before the next begins, and a node met before has nothing
\* left that the rules still allow.
LEMMA TurnNothingMissed ==
    ASSUME TypeOK, WalkInv, ResultConnected, PolicyOK, NothingMissed, pc = "walk", load' = load,
           Turn \/ NextLevel
    PROVE  NothingMissed'
<1>0. /\ load \in Loads /\ root \in Ids /\ depth \in Nat
      /\ frontier \in Seq(outN) /\ nextFrontier \in Seq(outN)
  BY DEF TypeOK
<1>1. UNCHANGED <<load, policy, root>> /\ reasons \subseteq reasons'
  BY TurnKeepsRules DEF Turn, NextNode, SkipEdge, LeaveOut, TakeEdge, NextLevel
<1>2. /\ \A id, d : Steps(id, d)' = Steps(id, d)
      /\ \A d \in Nat : WalkEnds'[d] = WalkEnds[d]
  BY <1>0, <1>1, RulesStay
<1>3. depth' \in Nat
  BY <1>0, TurnShape DEF TypeOK, WalkShape
<1> DEFINE Waits == Queued(frontier) \cup Queued(nextFrontier)
           Left(id) == IF id = current THEN todo ELSE {}
           Waits2 == Queued(frontier') \cup Queued(nextFrontier')
           Left2(id) == IF id = current' THEN todo' ELSE {}
<1> SUFFICES ASSUME reasons' = {}
             PROVE  /\ \A d \in 0..depth' : WalkEnds[d] \subseteq outN'
                    /\ \A d \in 0..(depth' - 1) : \A id \in WalkEnds[d] : Steps(id, d) \subseteq outE'
                    /\ WalkEnds[depth'] \cap Queued(nextFrontier') = {}
                    /\ \A id \in outN' \ Waits2 : Steps(id, depth') \subseteq outE' \cup Left2(id)
  <2>1. \A id : Steps(id, depth)' = Steps(id, depth')
    BY <1>1, StepsNow
  <2>2. \A d \in 0..depth' : d \in Nat
    BY <1>3
  <2>3. \A d \in 0..(depth' - 1) : d \in Nat
    BY <1>3
  <2> QED BY <1>2, <1>3, <2>1, <2>2, <2>3 DEF NothingMissed
<1>4. /\ \A d \in 0..depth : WalkEnds[d] \subseteq outN
      /\ \A d \in 0..(depth - 1) : \A id \in WalkEnds[d] : Steps(id, d) \subseteq outE
      /\ WalkEnds[depth] \cap Queued(nextFrontier) = {}
      /\ \A id \in outN \ Waits : Steps(id, depth) \subseteq outE \cup Left(id)
  BY <1>1 DEF NothingMissed
<1> DEFINE Goal == /\ \A d \in 0..depth' : WalkEnds[d] \subseteq outN'
                   /\ \A d \in 0..(depth' - 1) : \A id \in WalkEnds[d] : Steps(id, d) \subseteq outE'
                   /\ WalkEnds[depth'] \cap Queued(nextFrontier') = {}
                   /\ \A id \in outN' \ Waits2 : Steps(id, depth') \subseteq outE' \cup Left2(id)
<1>5. CASE NextNode
  <2>1. Queued(frontier) = {Head(frontier)} \cup Queued(Tail(frontier))
    BY <1>0, <1>5, QueuedHead DEF NextNode
  <2>2. /\ UNCHANGED <<depth, nextFrontier, outN, outE>> /\ todo = {}
        /\ current' = Head(frontier) /\ frontier' = Tail(frontier)
        /\ todo' = IF isTerminalNode(current') THEN {} ELSE Edges(current')
    BY <1>5 DEF NextNode
  <2>3. Steps(current', depth) \subseteq todo'
    BY <2>2 DEF Steps
  <2>4. ASSUME NEW id \in outN' \ Waits2 PROVE Steps(id, depth') \subseteq outE' \cup Left2(id)
    BY <1>4, <2>1, <2>2, <2>3
  <2> QED BY <1>4, <2>2, <2>4
<1>6. ASSUME NEW e \in todo, SkipEdge(e) PROVE Goal
  <2>1. /\ UNCHANGED <<depth, frontier, nextFrontier, current, outN, outE>>
        /\ todo' = todo \ {e} /\ ~Follows(e)
    BY <1>6 DEF SkipEdge
  <2>2. e \notin Steps(current, depth)
    BY <2>1 DEF Steps, Follows
  <2> QED BY <1>4, <2>1, <2>2
<1>7. ASSUME NEW e \in todo, LeaveOut(e) PROVE FALSE
  BY <1>7 DEF LeaveOut
<1>8. ASSUME NEW e \in todo, TakeEdge(e) PROVE Goal
  <2>1. /\ Queued(frontier') = Queued(frontier)
        /\ Queued(nextFrontier') = Queued(nextFrontier) \cup NewNodes(e)
        /\ outN' = outN \cup NewNodes(e) /\ outE' = outE \cup {e} /\ todo' = todo \ {e}
        /\ UNCHANGED <<depth, current>>
    BY <1>8, TakeEdgeEffect
  <2>2. WalkEnds[depth] \subseteq outN
    BY <1>0, <1>4
  <2>3. WalkEnds[depth] \cap NewNodes(e) = {}
    BY <2>2 DEF NewNodes
  <2>4. ASSUME NEW id \in outN' \ Waits2 PROVE Steps(id, depth') \subseteq outE' \cup Left2(id)
    BY <1>4, <2>1
  <2> QED BY <1>4, <2>1, <2>3, <2>4
<1>9. CASE NextLevel
  <2>1. /\ depth' = depth + 1 /\ frontier = <<>> /\ frontier' = nextFrontier /\ nextFrontier' = <<>>
        /\ todo = {} /\ todo' = {} /\ UNCHANGED <<current, outN, outE>>
    BY <1>9 DEF NextLevel, LevelDone
  <2>2. Queued(frontier) = {} /\ Queued(nextFrontier') = {}
    BY <2>1, QueuedNothing
  <2>3. ASSUME NEW id \in outN \ Queued(nextFrontier) PROVE Steps(id, depth) \subseteq outE
    BY <1>4, <2>1, <2>2
  <2>4. ASSUME NEW id \in WalkEnds[depth] PROVE Steps(id, depth) \subseteq outE
    BY <1>0, <1>4, <2>3
  <2>5. WalkEnds[depth + 1] \subseteq outN
    <3>1. WalkEnds[depth + 1] = Ahead(WalkEnds[depth], depth)
      BY <1>0, WalkEndsEquations
    <3>2. \A e \in outE : {e.from, e.to} \cap load.nodes \subseteq outN
      BY DEF ResultConnected
    <3> QED BY <2>4, <3>1, <3>2 DEF Ahead
  <2>6. \A d \in 0..depth' : d \in 0..depth \/ d = depth + 1
    BY <1>0, <2>1
  <2>7. \A d \in 0..(depth' - 1) : d \in 0..(depth - 1) \/ d = depth
    BY <1>0, <2>1
  <2>8. ASSUME NEW id \in outN' \ Waits2 PROVE Steps(id, depth') \subseteq outE'
    <3>1. Steps(id, depth + 1) \subseteq Steps(id, depth)
      BY <1>0, RulesNarrow
    <3> QED BY <2>1, <2>3, <3>1
  <2> QED BY <1>4, <2>1, <2>2, <2>4, <2>5, <2>6, <2>7, <2>8
<1> QED BY <1>5, <1>6, <1>7, <1>8, <1>9 DEF Turn

\* A turn of the walk keeps to its budgets, and what one of them left out stays out.
LEMMA TurnBudgets ==
    ASSUME TypeOK, WalkInv, PolicyOK, WithinRules, BudgetsUsedUp, pc = "walk", load' = load,
           Turn \/ NextLevel
    PROVE  BudgetsUsedUp'
<1>0. /\ load \in Loads /\ root \in Ids /\ depth \in Nat /\ policy.maxNodes \in Nat
  BY DEF TypeOK, PolicyOK
<1>1. UNCHANGED <<load, policy, root>>
  BY TurnKeepsRules
<1>2. ReachableNodes' = ReachableNodes /\ ReachableEdges' = ReachableEdges
  BY <1>0, <1>1, ReachStays
<1>3. /\ IsFiniteSet(outN) /\ Cardinality(outN) <= policy.maxNodes
      /\ "maxNodes" \in reasons =>
            Cardinality(outN) = policy.maxNodes /\ ~(ReachableNodes \subseteq outN)
      /\ "maxEdges" \in reasons =>
            Cardinality(outE) >= policy.maxEdges /\ ~(ReachableEdges \subseteq outE)
  BY DEF BudgetsUsedUp
<1> DEFINE Goal == /\ IsFiniteSet(outN') /\ Cardinality(outN') <= policy.maxNodes
                   /\ "maxNodes" \in reasons' =>
                        Cardinality(outN') = policy.maxNodes /\ ~(ReachableNodes \subseteq outN')
                   /\ "maxEdges" \in reasons' =>
                        Cardinality(outE') >= policy.maxEdges /\ ~(ReachableEdges \subseteq outE')
<1> SUFFICES Goal
  BY <1>1, <1>2 DEF BudgetsUsedUp
<1>4. CASE UNCHANGED <<outN, outE, reasons>>
  BY <1>3, <1>4
<1>5. ASSUME NEW e \in todo
      PROVE  /\ e \in Edges(current) /\ current \in outN /\ (e.from = current \/ e.to = current)
             /\ Follows(e) =>
                    /\ e \in ReachableEdges
                    /\ NewNodes(e) \subseteq ReachableNodes
  <2>1. /\ e \in Edges(current) /\ current \in outN /\ (e.from = current \/ e.to = current)
        /\ depth < Levels /\ current \in WalkEnds[depth] /\ ~isTerminalNode(current)
    BY DEF WalkInv, Edges, WithinRules
  <2>2. ASSUME Follows(e) PROVE e \in ReachableEdges /\ NewNodes(e) \subseteq ReachableNodes
    <3>1. e \in Steps(current, depth)
      BY <2>1, <2>2 DEF Steps, Follows
    <3> QED BY <1>0, <2>1, <3>1, StepReaches DEF NewNodes
  <2> QED BY <2>1, <2>2
<1>6. Cardinality(outN) \in Nat
  BY <1>3, FS_CardinalityType
<1>7. ASSUME NEW e \in todo, LeaveOut(e) PROVE Goal
  <2>1. /\ Follows(e) /\ (OverNodes(e) \/ OverEdges(e)) /\ UNCHANGED <<outN, outE>>
        /\ reasons' = reasons \cup {IF OverNodes(e) THEN "maxNodes" ELSE "maxEdges"}
    BY <1>7 DEF LeaveOut
  <2>2. CASE OverNodes(e)
    <3>1. Cardinality(outN) + Cardinality(NewNodes(e)) > policy.maxNodes
      BY <2>2 DEF OverNodes
    <3>2. NewNodes(e) # {} /\ Cardinality(NewNodes(e)) = 1
      BY <1>0, <1>3, <1>5, <1>6, <3>1, OneNewNode
    <3>3. Cardinality(outN) = policy.maxNodes
      BY <1>0, <1>3, <1>6, <3>1, <3>2
    <3>4. ~(ReachableNodes \subseteq outN)
      BY <1>5, <2>1, <3>2 DEF NewNodes
    <3> QED BY <1>3, <2>1, <2>2, <3>3, <3>4
  <2>3. CASE ~OverNodes(e)
    <3>1. e \notin outE /\ Cardinality(outE) >= policy.maxEdges
      BY <2>1, <2>3 DEF OverEdges
    <3>2. ~(ReachableEdges \subseteq outE)
      BY <1>5, <2>1, <3>1
    <3> QED BY <1>3, <2>1, <2>3, <3>1, <3>2
  <2> QED BY <2>2, <2>3
<1>8. ASSUME NEW e \in todo, TakeEdge(e) PROVE Goal
  <2>1. /\ outN' = outN \cup NewNodes(e) /\ outE' = outE \cup {e} /\ reasons' = reasons
        /\ ~OverNodes(e) /\ ~OverEdges(e)
    BY <1>8 DEF TakeEdge
  <2>2. /\ IsFiniteSet(outN') /\ Cardinality(outN') = Cardinality(outN) + Cardinality(NewNodes(e))
        /\ Cardinality(NewNodes(e)) \in Nat
        /\ Cardinality(NewNodes(e)) = 0 => NewNodes(e) = {}
    <3>1. CASE NewNodes(e) = {} /\ Cardinality(NewNodes(e)) = 0
      BY <1>3, <1>6, <2>1, <3>1
    <3>2. ASSUME NEW n, NewNodes(e) = {n}, Cardinality(NewNodes(e)) = 1
          PROVE  IsFiniteSet(outN') /\ Cardinality(outN') = Cardinality(outN) + 1
      <4>1. n \notin outN /\ outN' = outN \cup {n}
        BY <2>1, <3>2 DEF NewNodes
      <4> QED BY <1>3, <4>1, FS_AddElement
    <3>3. \/ NewNodes(e) = {} /\ Cardinality(NewNodes(e)) = 0
          \/ \E n : NewNodes(e) = {n} /\ Cardinality(NewNodes(e)) = 1
      BY <1>5, OneNewNode
    <3>4. CASE \E n : NewNodes(e) = {n} /\ Cardinality(NewNodes(e)) = 1
      <4>1. Cardinality(NewNodes(e)) = 1
        BY <3>4
      <4>2. IsFiniteSet(outN') /\ Cardinality(outN') = Cardinality(outN) + 1
        BY <3>2, <3>4
      <4> QED BY <4>1, <4>2
    <3> QED BY <3>1, <3>3, <3>4
  <2>3. Cardinality(outN) + Cardinality(NewNodes(e)) <= policy.maxNodes
    BY <1>0, <1>6, <2>1, <2>2 DEF OverNodes
  <2>4. "maxNodes" \in reasons => NewNodes(e) = {}
    BY <1>0, <1>3, <1>6, <2>2, <2>3
  <2>5. "maxEdges" \in reasons => outE' = outE
    BY <1>3, <2>1 DEF OverEdges
  <2> QED BY <1>3, <2>1, <2>2, <2>3, <2>4, <2>5
<1>9. ASSUME NextNode \/ NextLevel \/ \E e \in todo : SkipEdge(e)
      PROVE  UNCHANGED <<outN, outE, reasons>>
  BY <1>9 DEF NextNode, NextLevel, SkipEdge
<1> QED BY <1>4, <1>7, <1>8, <1>9 DEF Turn

-----------------------------------------------------------------------------
\* A walk that begins has reached its entry and missed nothing so far.
LEMMA BeginExact ==
    ASSUME load \in Loads, load' = load, NEW id \in load.nodes, BeginWalk(id, req), PolicyOK'
    PROVE  WithinRules' /\ NothingMissed' /\ BudgetsUsedUp'
<1>1. /\ root' = id /\ depth' = 0 /\ frontier' = <<id>> /\ nextFrontier' = <<>> /\ todo' = {}
      /\ outN' = {id} /\ outE' = {} /\ reasons' = {}
  BY DEF BeginWalk
<1>2. WalkEnds'[0] = {id}
  <2>1. (load \in Loads /\ root \in Ids =>
            WalkEnds[0] = {root} /\ \A d \in Nat : WalkEnds[d + 1] = Ahead(WalkEnds[d], d))'
    BY WalkEndsEquations, PTL
  <2> QED BY <1>1, <2>1, LoadEdges
<1>3. Queued(frontier') = {id} /\ Queued(nextFrontier') = {}
  BY <1>1 DEF Queued
<1>4. Levels' \in Nat
  BY DEF PolicyOK, Levels
<1>5. id \in ReachableNodes'
  BY <1>2, <1>4 DEF ReachableNodes
<1>6. WithinRules'
  BY <1>1, <1>2, <1>3, <1>4, <1>5 DEF WithinRules
<1>7. NothingMissed'
  <2>1. 0..depth' = {0} /\ 0..(depth' - 1) = {}
    BY <1>1
  <2> QED BY <1>1, <1>2, <1>3, <2>1 DEF NothingMissed
<1>8. BudgetsUsedUp'
  <2>1. IsFiniteSet(outN') /\ Cardinality(outN') = 1
    BY <1>1, FS_Singleton
  <2> QED BY <1>1, <2>1 DEF BudgetsUsedUp, PolicyOK
<1> QED BY <1>6, <1>7, <1>8

\* Every policy has budgets of at least one, whatever the request leaves out.
LEMMA PolicyOfRequest ==
    ASSUME NEW o \in Requests
    PROVE  /\ DiagnosticPolicy(o).maxDepth \in Nat /\ DiagnosticPolicy(o).storageMaxDepth \in Nat
           /\ DiagnosticPolicy(o).maxNodes \in Nat \ {0}
  BY RequestsAssumption DEF DiagnosticPolicy

\* A request is one of the requests, and its policy has budgets.
LEMMA NextPolicy ==
    req \in Requests /\ PolicyOK /\ [Next]_vars => req' \in Requests /\ PolicyOK'
<1> SUFFICES ASSUME req \in Requests, PolicyOK, [Next]_vars PROVE req' \in Requests /\ PolicyOK'
  OBVIOUS
<1>1. ASSUME NEW o \in Requests, Receive(o) PROVE req' \in Requests /\ PolicyOK'
  BY <1>1 DEF Receive, walk, PolicyOK
<1>2. CASE FindEntry
  <2>1. req' = req /\ (UNCHANGED walk \/ policy' = DiagnosticPolicy(req))
    BY <1>2 DEF FindEntry, BeginWalk
  <2> QED BY <2>1, PolicyOfRequest DEF PolicyOK, walk
<1>3. CASE UNCHANGED <<req, policy>>
  BY <1>3 DEF PolicyOK
<1>4. CASE Step \/ EndLevel
  BY <1>3, <1>4, TurnKeepsRules DEF Step, EndLevel, handler
<1>5. CASE \/ RLockContext \/ RLockTimeout \/ WalkTimeout \/ RUnlock \/ RuntimeStatus \/ Respond
           \/ Expire \/ Lock \/ Acquire \/ Write \/ Unlock \/ OtherLock \/ OtherUnlock
           \/ UNCHANGED vars
  BY <1>3, <1>5 DEF RLockContext, RLockTimeout, WalkTimeout, RUnlock, RuntimeStatus, Respond, Expire,
     Lock, Acquire, Write, Unlock, OtherLock, OtherUnlock, vars, walk, handler
<1> QED BY <1>1, <1>2, <1>4, <1>5 DEF Next, Handle

\* Every step keeps the walk exact.
LEMMA NextExact ==
    IInv /\ req \in Requests /\ ExactInv /\ [Next]_vars => ExactInv'
<1> SUFFICES ASSUME IInv, req \in Requests, ExactInv, [Next]_vars PROVE ExactInv'
  OBVIOUS
<1> USE DEF IInv, ExactInv
<1>0. PolicyOK'
  BY NextPolicy
<1> DEFINE Goal == WithinRules' /\ NothingMissed' /\ BudgetsUsedUp'
<1>a. ASSUME pc' # "walk" PROVE Goal
  BY <1>a DEF WithinRules, NothingMissed, BudgetsUsedUp
<1>b. ASSUME pc = "walk", UNCHANGED <<load, walk, pc>> PROVE Goal
  <2>1. /\ UNCHANGED <<policy, root, depth, frontier, nextFrontier, current, todo>>
        /\ UNCHANGED <<load, outN, outE, reasons, pc>>
    BY <1>b DEF walk
  <2>2. load \in Loads /\ root \in Ids /\ depth \in Nat
    BY DEF TypeOK
  <2>3. /\ Levels' = Levels /\ \A id : isTerminalNode(id)' <=> isTerminalNode(id)
        /\ \A id, d : Steps(id, d)' = Steps(id, d)
        /\ \A d \in Nat : WalkEnds'[d] = WalkEnds[d]
        /\ ReachableNodes' = ReachableNodes /\ ReachableEdges' = ReachableEdges
    BY <2>1, <2>2, RulesStay, ReachStays
  <2>4. depth + 1 \in Nat /\ \A d \in 0..depth : d \in Nat
    BY <2>2
  <2>5. \A d \in 0..(depth - 1) : d \in Nat
    BY <2>2
  <2>6. isTerminalNode(current)' <=> isTerminalNode(current)
    BY <2>1 DEF isTerminalNode, isTerminalCSINode, Edges
  <2>7. \A id : Steps(id, depth)' = Steps(id, depth)
    BY <2>1, StepsNow
  <2>8. WithinRules'
    BY <1>b, <2>1, <2>2, <2>3, <2>4, <2>6 DEF WithinRules
  <2>9. NothingMissed'
    BY <1>b, <2>1, <2>2, <2>3, <2>4, <2>5, <2>7 DEF NothingMissed
  <2>10. BudgetsUsedUp'
    BY <1>b, <2>1, <2>3 DEF BudgetsUsedUp
  <2> QED BY <2>8, <2>9, <2>10
<1> SUFFICES Goal
  BY <1>0
<1> HIDE DEF Goal
<1>1. ASSUME NEW o \in Requests, Receive(o) PROVE Goal
  BY <1>1, <1>a DEF Receive
<1>2. CASE RLockContext \/ RLockTimeout \/ WalkTimeout \/ RUnlock \/ RuntimeStatus \/ Respond
  <2>1. pc' # "walk"
    BY <1>2 DEF RLockContext, RLockTimeout, WalkTimeout, RUnlock, RuntimeStatus, Respond
  <2> QED BY <2>1, <1>a
<1>3. CASE FindEntry
  <2>1. CASE pc' # "walk"
    BY <2>1, <1>a
  <2>2. CASE pc' = "walk"
    <3>1. PICK id \in load.nodes : BeginWalk(id, req)
      BY <1>3, <2>2 DEF FindEntry
    <3>2. load' = load /\ load \in Loads
      BY <1>3 DEF FindEntry, TypeOK
    <3> QED BY <1>0, <3>1, <3>2, BeginExact DEF Goal
  <2> QED BY <2>1, <2>2
<1>4. CASE Step \/ EndLevel
  <2>1. pc = "walk" /\ load' = load /\ (Turn \/ NextLevel)
    BY <1>4 DEF Step, EndLevel
  <2> QED BY <2>1, TurnWithinRules, TurnNothingMissed, TurnBudgets DEF Goal
<1>5. CASE Expire \/ Lock \/ Acquire \/ OtherLock \/ OtherUnlock \/ UNCHANGED vars
  <2>1. UNCHANGED <<load, walk, pc>>
    BY <1>5 DEF Expire, Lock, Acquire, OtherLock, OtherUnlock, handler, vars
  <2> QED BY <2>1, <1>a, <1>b
<1>6. CASE Write
  BY <1>6, <1>a DEF Write, TypeOK, Holding, handler
<1>7. CASE Unlock
  BY <1>7, <1>a, <1>b DEF Unlock, TypeOK, Holding
<1> QED BY <1>1, <1>2, <1>3, <1>4, <1>5, <1>6, <1>7 DEF Next, Handle

\* A diagnostic answer is partial exactly when it says so: a walk that gives no reason
\* has every node and edge the rules reach, and one that does lacks something of them,
\* for every graph, policy and order in which the edges of a node are looked at.
THEOREM DiagnosticExact == Spec => []PartialExactly
<1> DEFINE Inv == IInv /\ req \in Requests /\ ExactInv
<1>1. Init => Inv
  <2> SUFFICES ASSUME Init PROVE Inv
    OBVIOUS
  <2>1. req \in Requests /\ policy = DiagnosticPolicy(req) /\ pc = "idle"
    BY DEF Init
  <2>2. PolicyOK
    BY <2>1, PolicyOfRequest DEF PolicyOK
  <2> QED BY <2>1, <2>2, InitInv DEF ExactInv, WithinRules, NothingMissed, BudgetsUsedUp
<1>2. Inv /\ [Next]_vars => Inv'
  <2> SUFFICES ASSUME Inv, [Next]_vars PROVE Inv'
    OBVIOUS
  <2>1. IInv'
    BY NextTypeOK, NextWalkInv DEF IInv
  <2>2. req' \in Requests
    BY NextPolicy DEF ExactInv
  <2> QED BY <2>1, <2>2, NextExact
<1>3. Inv => PartialExactly
  <2> SUFFICES ASSUME Inv, pc = "walk", depth = Levels
               PROVE  /\ outN \subseteq ReachableNodes /\ outE \subseteq ReachableEdges
                      /\ (reasons = {}) <=> (outN = ReachableNodes /\ outE = ReachableEdges)
    BY DEF PartialExactly, Walked
  <2>1. outN \subseteq ReachableNodes /\ outE \subseteq ReachableEdges
    BY DEF ExactInv, WithinRules
  <2>2. ASSUME reasons = {} PROVE ReachableNodes \subseteq outN /\ ReachableEdges \subseteq outE
    BY <2>2 DEF ExactInv, NothingMissed, ReachableNodes, ReachableEdges
  <2>3. ASSUME reasons # {}
        PROVE  ~(ReachableNodes \subseteq outN) \/ ~(ReachableEdges \subseteq outE)
    <3>1. "maxNodes" \in reasons \/ "maxEdges" \in reasons
      BY <2>3 DEF IInv, TypeOK
    <3> QED BY <3>1 DEF ExactInv, BudgetsUsedUp
  <2> QED BY <2>1, <2>2, <2>3
<1> HIDE DEF Inv
<1> QED BY <1>1, <1>2, <1>3, PTL DEF Spec

=============================================================================
