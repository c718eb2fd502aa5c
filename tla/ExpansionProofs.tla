-------------------------- MODULE ExpansionProofs --------------------------
(***************************************************************************)
(* Proofs about Expansion, for every graph, request and number of writes.  *)
(***************************************************************************)
EXTENDS Expansion, WalkProofs

\* The initial states satisfy the invariant.
LEMMA InitInv == Init => IInv
<1> SUFFICES ASSUME Init PROVE IInv
  OBVIOUS
<1>1. TypeOK
  BY RequestsAssumption DEF Init, TypeOK, Staying, Walking, Answers
<1>2. WalkInv
  BY DEF Init, WalkInv, Walking
<1>3. ResultConnected
  BY DEF Init, ResultConnected, Walking
<1> QED BY <1>1, <1>2, <1>3 DEF IInv

-----------------------------------------------------------------------------
(* What the graph's own actions do to the shapes of its variables. *)

GraphShape ==
    /\ nodes \subseteq Ids /\ edges \subseteq Edge /\ leaving \subseteq edges
    /\ reading \in Ids \cup {None} /\ must \subseteq Staying /\ got \subseteq Edge

\* A step of the writer keeps the shapes and the read's progress.
LEMMA ChurnShape ==
    ASSUME GraphShape, Churn
    PROVE  GraphShape' /\ UNCHANGED <<reading, got>>
<1>1. CASE \E id \in ChurnNodes : AddNode(id) \/ RemoveNode(id)
  BY <1>1, RequestsAssumption DEF GraphShape, AddNode, RemoveNode, Written, Staying
<1>2. CASE \E e \in ChurnEdges : AddEdge(e) \/ BeginRemoveEdge(e) \/ EndRemoveEdge(e)
  BY <1>2, RequestsAssumption DEF GraphShape, AddEdge, BeginRemoveEdge, EndRemoveEdge, Written, Staying
<1> QED BY <1>1, <1>2 DEF Churn

\* Filling the defaults in leaves a request a request.
LEMMA WithDefaultsShape ==
    ASSUME NEW K, NEW o \in [root : Ids, depth : Nat, direction : Directions,
                             kind : K, limit : Nat]
    PROVE  WithDefaults(o) \in [root : Ids, depth : Nat, direction : Directions,
                               kind : K, limit : Nat]
<1>1. /\ (IF o.depth = 0 THEN DefaultExpandDepth ELSE o.depth) \in Nat
      /\ (IF o.limit = 0 THEN DefaultExpandLimit ELSE o.limit) \in Nat
  BY DEF DefaultExpandDepth, DefaultExpandLimit
<1> QED BY <1>1 DEF WithDefaults

\* A request that passes the handler's checks is within the bounds once its
\* defaults are filled in.
LEMMA WithDefaultsBounds ==
    ASSUME NEW o \in Requests, ValidateExpandOptions(o)
    PROVE  WithDefaults(o).depth \in 1..MaxExpandDepth /\ WithDefaults(o).limit \in 1..MaxExpandLimit
<1>1. /\ WithDefaults(o).depth = IF o.depth = 0 THEN DefaultExpandDepth ELSE o.depth
      /\ WithDefaults(o).limit = IF o.limit = 0 THEN DefaultExpandLimit ELSE o.limit
      /\ o.depth \in Nat /\ o.limit \in Nat
  BY RequestsAssumption DEF WithDefaults
<1>2. o.depth <= MaxExpandDepth /\ o.limit <= MaxExpandLimit
  BY DEF ValidateExpandOptions
<1>3. \A n, d, m \in Nat : n <= m /\ d \in 1..m => (IF n = 0 THEN d ELSE n) \in 1..m
  OBVIOUS
<1>4. /\ MaxExpandDepth \in Nat /\ DefaultExpandDepth \in Nat /\ DefaultExpandDepth \in 1..MaxExpandDepth
      /\ MaxExpandLimit \in Nat /\ DefaultExpandLimit \in Nat /\ DefaultExpandLimit \in 1..MaxExpandLimit
  BY DEF DefaultExpandDepth, MaxExpandDepth, DefaultExpandLimit, MaxExpandLimit
<1>5. WithDefaults(o).depth \in 1..MaxExpandDepth
  BY <1>1, <1>2, <1>3, <1>4, Zenon
<1>6. WithDefaults(o).limit \in 1..MaxExpandLimit
  BY <1>1, <1>2, <1>3, <1>4, Zenon
<1> QED BY <1>5, <1>6

\* Every step of the specification keeps the shapes of the variables.
LEMMA NextTypeOK == TypeOK /\ [Next]_vars => TypeOK'
<1> SUFFICES ASSUME TypeOK, [Next]_vars PROVE TypeOK'
  OBVIOUS
<1> USE RequestsAssumption DEF Walking, Answers
<1>1. ASSUME NEW o \in Requests, Receive(o) PROVE TypeOK'
  <2>1. req' \in [root : Ids, depth : Nat, direction : Directions,
                  kind : Kinds \cup {None}, limit : Nat]
    BY <1>1, WithDefaultsShape DEF Receive
  <2>2. pc' = "begin" =>
            req'.depth \in 1..MaxExpandDepth /\ req'.limit \in 1..MaxExpandLimit
    BY <1>1, WithDefaultsBounds DEF Receive
  <2>3. pc' \in {"begin", "invalid"}
    BY <1>1 DEF Receive
  <2> QED BY <1>1, <2>1, <2>2, <2>3 DEF TypeOK, Receive, sharedVars, graph, read, stable, Staying
<1>2. CASE GetRoot
  BY <1>2 DEF TypeOK, GetRoot, sharedVars, graph, read, stable, Staying
<1>3. ASSUME NEW id \in Ids, NextNode(id) PROVE TypeOK'
  BY <1>3 DEF TypeOK, NextNode, BeginRead, sharedVars, graph, read, stable, Staying
<1>4. CASE ReadEdge
  BY <1>4 DEF TypeOK, ReadEdge, Collect, graph, walk, stable, Staying
<1>5. CASE ReadDone
  BY <1>5 DEF TypeOK, ReadDone, Neighbors, EndRead, graph, stable, Staying
<1>6. ASSUME NEW e \in Edge, VisitRelation(e) PROVE TypeOK'
  <2>1. e.from \in Ids /\ e.to \in Ids
    BY DEF Edge
  <2> QED BY <1>6, <2>1 DEF TypeOK, VisitRelation, sharedVars, graph, read, stable, Staying
<1>7. CASE EndNode
  BY <1>7 DEF TypeOK, EndNode, sharedVars, graph, read, stable, Staying
<1>8. CASE EndLevel
  BY <1>8 DEF TypeOK, EndLevel, sharedVars, graph, read, stable, Staying
<1>9. CASE Respond
  BY <1>9 DEF TypeOK, Respond, sharedVars, graph, read, Staying
<1>10. CASE Cancel
  BY <1>10 DEF TypeOK, Cancel, CallsBackend, sharedVars, graph, read, walk, stable, Staying
<1>11. CASE Churn
  <2>1. GraphShape
    BY DEF TypeOK, GraphShape
  <2>2. GraphShape' /\ UNCHANGED <<reading, got>>
    BY <1>11, <2>1, ChurnShape
  <2>3. UNCHANGED <<pc, walk>> /\ stableN' \subseteq stableN /\ stableE' \subseteq stableE
    BY <1>11 DEF Churn
  <2> QED BY <2>2, <2>3 DEF TypeOK, GraphShape, walk
<1>12. CASE UNCHANGED vars
  BY <1>12 DEF TypeOK, vars, sharedVars, graph, read, walk, stable, Staying
<1> QED
  BY <1>1, <1>2, <1>3, <1>4, <1>5, <1>6, <1>7, <1>8, <1>9, <1>10, <1>11, <1>12
     DEF Next, Walk

-----------------------------------------------------------------------------
\* Every step ties what the walk holds to its result.
LEMMA NextWalkInv == TypeOK /\ WalkInv /\ [Next]_vars => WalkInv'
<1> SUFFICES ASSUME TypeOK, WalkInv, [Next]_vars PROVE WalkInv'
  OBVIOUS
<1> USE DEF Walking, Answers, WalkInv
<1>1. ASSUME NEW o \in Requests, Receive(o) PROVE WalkInv'
  BY <1>1 DEF Receive
<1>2. CASE GetRoot
  BY <1>2 DEF GetRoot, TypeOK
<1>3. ASSUME NEW id \in Ids, NextNode(id) PROVE WalkInv'
  BY <1>3 DEF NextNode, BeginRead, TypeOK, sharedVars, graph, read
<1>4. CASE ReadEdge
  BY <1>4 DEF ReadEdge, Collect, walk
<1>5. CASE ReadDone
  BY <1>5 DEF ReadDone, Neighbors, Touches
<1>6. ASSUME NEW e \in Edge, VisitRelation(e) PROVE WalkInv'
  BY <1>6 DEF VisitRelation
<1>7. CASE EndNode
  BY <1>7 DEF EndNode
<1>8. CASE EndLevel
  BY <1>8 DEF EndLevel
<1>9. CASE Respond
  BY <1>9 DEF Respond
<1>10. CASE Cancel
  BY <1>10 DEF Cancel, walk
<1>11. CASE Churn
  <2>1. UNCHANGED <<reading, got>>
    BY <1>11, ChurnShape DEF TypeOK, GraphShape
  <2> QED BY <1>11, <2>1 DEF Churn, walk
<1>12. CASE UNCHANGED vars
  BY <1>12 DEF vars, sharedVars, read, walk
<1> QED
  BY <1>1, <1>2, <1>3, <1>4, <1>5, <1>6, <1>7, <1>8, <1>9, <1>10, <1>11, <1>12
     DEF Next, Walk

\* Every step keeps the result connected: only VisitRelation adds to it.
LEMMA NextConnected ==
    TypeOK /\ WalkInv /\ ResultConnected /\ [Next]_vars => ResultConnected'
<1> SUFFICES ASSUME TypeOK, WalkInv, ResultConnected, [Next]_vars PROVE ResultConnected'
  OBVIOUS
<1> USE DEF Walking, Answers, ResultConnected
<1>1. ASSUME NEW o \in Requests, Receive(o) PROVE ResultConnected'
  BY <1>1 DEF Receive
<1>2. CASE GetRoot
  <2>1. outE' = {}
    BY <1>2 DEF GetRoot, WalkInv
  <2>2. CASE req.root \in nodes
    BY <1>2, <2>1, <2>2, RootConnected DEF GetRoot
  <2>3. CASE req.root \notin nodes
    BY <1>2, <2>1, <2>3 DEF GetRoot
  <2> QED BY <2>2, <2>3
<1>3. ASSUME NEW id \in Ids, NextNode(id) PROVE ResultConnected'
  BY <1>3 DEF NextNode
<1>4. CASE ReadEdge
  BY <1>4 DEF ReadEdge, walk
<1>5. CASE ReadDone
  BY <1>5 DEF ReadDone
<1>6. ASSUME NEW e \in Edge, VisitRelation(e) PROVE ResultConnected'
  <2> DEFINE new == ({e.from, e.to} \cap nodes) \ outN
  <2>1. /\ pc = "relations" /\ pc' = pc /\ req' = req
        /\ req.root \in outN
        /\ e.from \in outN \/ e.to \in outN
        /\ outN' = outN \cup new
    BY <1>6 DEF VisitRelation, WalkInv
  <2>2. Connected(outN, outE, req.root)
    BY <2>1
  <2>3. CASE {e.from, e.to} \subseteq outN'
    <3>1. outE' = outE \cup {e}
      BY <1>6, <2>3 DEF VisitRelation
    <3>2. \A x \in outE' : Inside(x, outN')
      BY <2>1, <2>3, <3>1 DEF Inside
    <3>3. CASE e.from \in outN /\ e.to \in outN
      <4>1. outN' = outN
        BY <2>1, <3>3
      <4> QED BY <2>1, <2>2, <3>1, <3>2, <4>1, EdgeKeepsConnected
    <3>4. ASSUME NEW m \in outN, NEW n, n \notin outN,
                 (e.from = m /\ e.to = n) \/ (e.from = n /\ e.to = m)
          PROVE  ResultConnected'
      <4>1. outN' = outN \cup {n}
        BY <2>1, <2>3, <3>4
      <4>2. Connected(outN \cup {n}, outE \cup {e}, req.root)
        BY <2>1, <2>2, <3>4, NodeKeepsConnected
      <4> QED BY <2>1, <3>1, <3>2, <4>1, <4>2
    <3> QED BY <2>1, <3>3, <3>4
  <2>4. CASE ~({e.from, e.to} \subseteq outN')
    <3>1. outE' = outE /\ outN' = outN
      BY <1>6, <2>1, <2>4 DEF VisitRelation
    <3> QED BY <2>1, <3>1
  <2> QED BY <2>3, <2>4
<1>7. CASE EndNode
  BY <1>7 DEF EndNode
<1>8. CASE EndLevel
  BY <1>8 DEF EndLevel
<1>9. CASE Respond
  BY <1>9 DEF Respond
<1>10. CASE Cancel
  BY <1>10 DEF Cancel, walk
<1>11. CASE Churn
  BY <1>11 DEF Churn, walk
<1>12. CASE UNCHANGED vars
  BY <1>12 DEF vars, walk
<1> QED
  BY <1>1, <1>2, <1>3, <1>4, <1>5, <1>6, <1>7, <1>8, <1>9, <1>10, <1>11, <1>12
     DEF Next, Walk

-----------------------------------------------------------------------------
\* The inductive invariant of the expansion beside a writer.
THEOREM ExpansionInvariant == Spec => []IInv
<1>1. IInv /\ [Next]_vars => IInv'
  BY NextTypeOK, NextWalkInv, NextConnected DEF IInv
<1> QED BY InitInv, <1>1, PTL DEF Spec

\* The graph, the walk and its result keep their shapes; a read is open exactly
\* while the walk is inside Neighbors.
THEOREM ExpansionTypeCorrect == Spec => []TypeOK
<1>1. IInv => TypeOK
  BY DEF IInv
<1> QED BY ExpansionInvariant, <1>1, PTL

\* ExpandSubgraph returns a connected subgraph of nodes and edges whose ends it has,
\* whatever Apply does to the graph between its calls and wherever the limit falls.
THEOREM ExpansionConnected == Spec => []ResultConnected
<1>1. IInv => ResultConnected
  BY DEF IInv
<1> QED BY ExpansionInvariant, <1>1, PTL

-----------------------------------------------------------------------------
(* Within, whose definition is recursive.  Paths from the root show that the  *)
(* function it defines exists; from then on its equations are used.           *)

Leads(E, direction, m, n) ==
    n = m \/ \E e \in E : Touching(e, m, direction) /\ n = NextID(e, m)
Paths(E, root, direction, d) ==
    {f \in [0..d -> Ids] : f[0] = root /\ \A i \in 1..d : Leads(E, direction, f[i - 1], f[i])}
Ends(E, root, direction, d) == {n \in Ids : \E f \in Paths(E, root, direction, d) : f[d] = n}

(* One step further. *)
Further(E, direction, S) ==
    S \cup UNION {{NextID(e, id) : e \in {x \in E : Touching(x, id, direction)}} : id \in S}

\* The ends of an edge are the node it is followed from and the one it leads to.
LEMMA EndsOfEdge ==
    ASSUME NEW e, NEW id, NEW direction, Touching(e, id, direction)
    PROVE  Touches(e, id) /\ {e.from, e.to} = {id, NextID(e, id)}
<1>1. Touches(e, id)
  BY Zenon DEF Touching, Touches
<1> QED BY <1>1 DEF Touches, NextID

\* Paths of one step more end one step further.
LEMMA PathsStep ==
    ASSUME NEW E \in SUBSET Edge, NEW root \in Ids, NEW direction, NEW d \in Nat \ {0}
    PROVE  Ends(E, root, direction, d) = Further(E, direction, Ends(E, root, direction, d - 1))
<1> DEFINE A == Ends(E, root, direction, d - 1)
           B == Ends(E, root, direction, d)
<1>1. ASSUME NEW n \in B PROVE n \in Further(E, direction, A)
  <2>1. PICK f \in Paths(E, root, direction, d) : f[d] = n
    BY DEF Ends
  <2>2. /\ f \in [0..d -> Ids] /\ f[0] = root
        /\ \A i \in 1..d : Leads(E, direction, f[i - 1], f[i])
    BY DEF Paths
  <2> DEFINE h == [i \in 0..(d - 1) |-> f[i]]
  <2>3. h \in Paths(E, root, direction, d - 1)
    <3>1. h \in [0..(d - 1) -> Ids] /\ h[0] = root
      BY <2>2
    <3>2. ASSUME NEW i \in 1..(d - 1) PROVE Leads(E, direction, h[i - 1], h[i])
      <4>1. i \in 1..d /\ h[i - 1] = f[i - 1] /\ h[i] = f[i]
        OBVIOUS
      <4> QED BY <2>2, <4>1
    <3> HIDE DEF h
    <3> QED BY <3>1, <3>2 DEF Paths
  <2>4. h[d - 1] = f[d - 1] /\ f[d - 1] \in Ids
    BY <2>2
  <2> HIDE DEF h
  <2>5. f[d - 1] \in A
    BY <2>3, <2>4 DEF Ends
  <2>6. Leads(E, direction, f[d - 1], n)
    BY <2>1, <2>2
  <2> HIDE DEF A
  <2> QED BY <2>5, <2>6 DEF Leads, Further
<1>2. ASSUME NEW n \in Further(E, direction, A) PROVE n \in B
  <2>1. PICK m \in A : Leads(E, direction, m, n)
    BY DEF Further, Leads
  <2>2. n \in Ids
    <3>1. \A e \in E : e.from \in Ids /\ e.to \in Ids
      BY DEF Edge
    <3> QED BY <2>1, <3>1 DEF Leads, NextID, Ends
  <2>3. PICK h \in Paths(E, root, direction, d - 1) : h[d - 1] = m
    BY DEF Ends
  <2>4. /\ h \in [0..(d - 1) -> Ids] /\ h[0] = root
        /\ \A i \in 1..(d - 1) : Leads(E, direction, h[i - 1], h[i])
    BY DEF Paths
  <2> DEFINE f == [i \in 0..d |-> IF i = d THEN n ELSE h[i]]
  <2>5. f \in [0..d -> Ids] /\ f[0] = root /\ f[d] = n
    BY <2>2, <2>4
  <2>6. ASSUME NEW i \in 1..d PROVE Leads(E, direction, f[i - 1], f[i])
    <3>1. CASE i = d
      <4>1. f[i - 1] = m /\ f[i] = n
        BY <2>3, <3>1
      <4> QED BY <2>1, <4>1
    <3>2. CASE i # d
      <4>1. i \in 1..(d - 1) /\ f[i - 1] = h[i - 1] /\ f[i] = h[i]
        BY <3>2
      <4> QED BY <2>4, <4>1
    <3> QED BY <3>1, <3>2
  <2> HIDE DEF f
  <2>7. f \in Paths(E, root, direction, d)
    BY <2>5, <2>6 DEF Paths
  <2> QED BY <2>2, <2>5, <2>7 DEF Ends
<1> QED BY <1>1, <1>2

\* The equations of Within.
LEMMA WithinEquations ==
    ASSUME NEW E \in SUBSET Edge, NEW root \in Ids, NEW direction
    PROVE  LET W == Within(E, root, direction)
           IN  /\ W[0] = {root}
               /\ \A d \in Nat : W[d + 1] = Further(E, direction, W[d])
<1> DEFINE W == Within(E, root, direction)
           Eq(f) == f = [d \in Nat |-> IF d = 0 THEN {root} ELSE Further(E, direction, f[d - 1])]
           g == [d \in Nat |-> Ends(E, root, direction, d)]
<1>1. Ends(E, root, direction, 0) = {root}
  <2>1. Paths(E, root, direction, 0) \subseteq [0..0 -> Ids]
    BY DEF Paths
  <2>2. [i \in 0..0 |-> root] \in Paths(E, root, direction, 0)
    BY DEF Paths
  <2>3. \A f \in Paths(E, root, direction, 0) : f[0] = root
    BY DEF Paths
  <2> QED BY <2>2, <2>3 DEF Ends
<1>2. Eq(g)
  <2>1. \A d \in Nat : g[d] = Ends(E, root, direction, d)
    OBVIOUS
  <2>2. \A d \in Nat \ {0} : g[d] = Further(E, direction, g[d - 1])
    BY <2>1, PathsStep
  <2>3. \A d \in Nat : g[d] = IF d = 0 THEN {root} ELSE Further(E, direction, g[d - 1])
    BY <1>1, <2>1, <2>2
  <2> QED BY <2>3
<1> HIDE DEF g
<1>3. Eq(W)
  BY <1>2, Zenon DEF Within, Further
<1> HIDE DEF W
<1>4. \A d \in Nat : W[d] = IF d = 0 THEN {root} ELSE Further(E, direction, W[d - 1])
  BY <1>3
<1>5. ASSUME NEW d \in Nat PROVE W[d + 1] = Further(E, direction, W[d])
  <2>1. d + 1 \in Nat /\ d + 1 # 0 /\ (d + 1) - 1 = d
    OBVIOUS
  <2> QED BY <1>4, <2>1
<1> QED BY <1>4, <1>5 DEF W

\* No step leads nowhere but to the root.
LEMMA WithinZero ==
    ASSUME NEW E \in SUBSET Edge, NEW root \in Ids, NEW direction
    PROVE  Within(E, root, direction)[0] = {root}
<1> DEFINE W == Within(E, root, direction)
<1>1. W[0] = {root} /\ \A n \in Nat : W[n + 1] = Further(E, direction, W[n])
  BY WithinEquations
<1> HIDE DEF W
<1> QED BY <1>1 DEF W

\* One step more.
LEMMA WithinStep ==
    ASSUME NEW E \in SUBSET Edge, NEW root \in Ids, NEW direction, NEW d \in Nat
    PROVE  Within(E, root, direction)[d + 1] = Further(E, direction, Within(E, root, direction)[d])
<1> DEFINE W == Within(E, root, direction)
<1>1. W[0] = {root} /\ \A n \in Nat : W[n + 1] = Further(E, direction, W[n])
  BY WithinEquations
<1> HIDE DEF W
<1>2. W[d + 1] = Further(E, direction, W[d])
  BY <1>1
<1> QED BY <1>2 DEF W

\* Within by induction: a bound that has the root and takes every step has it all.
LEMMA WithinInduction ==
    ASSUME NEW E \in SUBSET Edge, NEW root \in Ids, NEW direction, NEW B, root \in B[0],
           \A d \in Nat :
             Further(E, direction, Within(E, root, direction)[d] \cap B[d]) \subseteq B[d + 1]
    PROVE  \A d \in Nat : Within(E, root, direction)[d] \subseteq B[d]
<1> DEFINE W == Within(E, root, direction)
           T == {d \in Nat : W[d] \subseteq B[d]}
<1>1. W[0] = {root} /\ \A d \in Nat : W[d + 1] = Further(E, direction, W[d])
  BY WithinEquations
<1> HIDE DEF W
<1>2. 0 \in T
  BY <1>1
<1>3. ASSUME NEW d \in T PROVE d + 1 \in T
  <2>1. W[d] \cap B[d] = W[d]
    OBVIOUS
  <2>2. Further(E, direction, W[d]) \subseteq B[d + 1]
    BY <2>1 DEF W
  <2> QED BY <1>1, <2>2
<1>4. \A d \in Nat : d \in T
  BY <1>2, <1>3, NaturalInduction
<1> QED BY <1>4 DEF W

\* More edges reach more.
LEMMA WithinMore ==
    ASSUME NEW F \in SUBSET Edge, NEW E \in SUBSET F, NEW root \in Ids, NEW direction
    PROVE  \A d \in Nat : Within(E, root, direction)[d] \subseteq Within(F, root, direction)[d]
<1> DEFINE B == Within(F, root, direction)
<1>1. B[0] = {root} /\ \A d \in Nat : B[d + 1] = Further(F, direction, B[d])
  BY WithinEquations
<1> HIDE DEF B
<1>2. E \in SUBSET Edge
  OBVIOUS
<1>3. ASSUME NEW d \in Nat
      PROVE  Further(E, direction, Within(E, root, direction)[d] \cap B[d]) \subseteq B[d + 1]
  <2> DEFINE S == Within(E, root, direction)[d]
  <2> HIDE DEF S
  <2>1. Further(E, direction, S \cap B[d]) \subseteq Further(F, direction, B[d])
    BY DEF Further
  <2> QED BY <1>1, <2>1 DEF S
<1>4. \A d \in Nat : Within(E, root, direction)[d] \subseteq B[d]
  BY <1>1, <1>2, <1>3, WithinInduction
<1> QED BY <1>4 DEF B

\* More steps reach more.
LEMMA WithinDeeper ==
    ASSUME NEW E \in SUBSET Edge, NEW root \in Ids, NEW direction, NEW d \in Nat
    PROVE  \A k \in Nat : Within(E, root, direction)[d] \subseteq Within(E, root, direction)[d + k]
<1> DEFINE W == Within(E, root, direction)
           T == {k \in Nat : W[d] \subseteq W[d + k]}
<1>1. W[0] = {root} /\ \A n \in Nat : W[n + 1] = Further(E, direction, W[n])
  BY WithinEquations
<1> HIDE DEF W
<1>2. \A n \in Nat : W[n] \subseteq W[n + 1]
  BY <1>1 DEF Further
<1>3. 0 \in T
  OBVIOUS
<1>4. ASSUME NEW k \in T PROVE k + 1 \in T
  <2>1. d + k \in Nat /\ (d + k) + 1 = d + (k + 1)
    OBVIOUS
  <2>2. W[d + k] \subseteq W[d + (k + 1)]
    BY <1>2, <2>1
  <2> QED BY <2>2
<1>5. \A k \in Nat : k \in T
  BY <1>3, <1>4, NaturalInduction
<1> QED BY <1>5 DEF W

\* What the edges cannot leave, no number of steps leaves.
LEMMA WithinInside ==
    ASSUME NEW E \in SUBSET Edge, NEW root \in Ids, NEW direction, NEW N, root \in N,
           \A e \in E : Inside(e, N)
    PROVE  \A d \in Nat : Within(E, root, direction)[d] \subseteq N
<1> DEFINE B == [d \in Nat |-> N]
<1>1. root \in B[0] /\ \A d \in Nat : B[d] = N /\ B[d + 1] = N
  OBVIOUS
<1> HIDE DEF B
<1>2. \A S : Further(E, direction, S \cap N) \subseteq N
  BY DEF Further, Inside, NextID
<1>3. \A d \in Nat : Further(E, direction, Within(E, root, direction)[d] \cap B[d]) \subseteq B[d + 1]
  BY <1>1, <1>2
<1>4. \A d \in Nat : Within(E, root, direction)[d] \subseteq B[d]
  BY <1>1, <1>3, WithinInduction
<1> QED BY <1>1, <1>4

-----------------------------------------------------------------------------
\* Every step keeps the levels: a relation leads from a node of this level to one of
\* the next.
LEMMA NextLevels ==
    ASSUME IInv, IInv', LevelInv, [Next]_vars
    PROVE  LevelInv'
<1> USE DEF Walking, Answers
<1>0. /\ outE \in SUBSET Edge /\ req.root \in Ids /\ depth \in Nat /\ req.depth \in Nat
      /\ outE' \in SUBSET Edge /\ req'.root \in Ids /\ req'.depth \in Nat
  BY DEF IInv, TypeOK
<1>1. ASSUME NEW o \in Requests, Receive(o) PROVE LevelInv'
  <2>1. pc' \in {"begin", "invalid"} /\ depth' = 0
    BY <1>1 DEF Receive, LevelInv
  <2>2. req'.depth > 0
    <3>1. o.depth \in Nat
      BY RequestsAssumption
    <3>2. {"depth", "limit"} \subseteq DOMAIN o
      BY RequestsAssumption
    <3>3. req'.depth = IF o.depth = 0 THEN DefaultExpandDepth ELSE o.depth
      BY <1>1, <3>2, RequestsAssumption DEF Receive, WithDefaults
    <3> QED BY <3>1, <3>3 DEF DefaultExpandDepth
  <2> QED BY <2>1, <2>2 DEF LevelInv
<1>2. CASE GetRoot
  <2>1. CASE req.root \notin nodes
    BY <1>2, <2>1 DEF GetRoot, LevelInv
  <2>2. CASE req.root \in nodes
    <3>1. /\ pc' = "level" /\ frontier' = {req.root} /\ outN' = {req.root}
          /\ UNCHANGED <<req, depth, outE>> /\ depth = 0 /\ req.depth > 0
      BY <1>2, <2>2 DEF GetRoot, LevelInv
    <3>2. Found[0] = {req.root} /\ Found[0] \subseteq Found[0 + 1]
      <4>1. Found[0] = {req.root}
        BY <1>0, WithinEquations DEF Found
      <4>2. Found[0] \subseteq Found[0 + 1]
        BY <1>0, WithinDeeper DEF Found
      <4> QED BY <4>1, <4>2
    <3>3. Found' = Found
      BY <3>1 DEF Found
    <3> QED BY <3>1, <3>2, <3>3 DEF LevelInv
  <2> QED BY <2>1, <2>2
<1>3. ASSUME NEW id \in Ids, NextNode(id) PROVE LevelInv'
  <2>1. /\ UNCHANGED <<req, depth, outN, outE>> /\ frontier' = frontier \ {id} /\ id \in frontier
        /\ pc = "level"
    BY <1>3 DEF NextNode
  <2>2. Found' = Found
    BY <2>1 DEF Found
  <2>3. CASE id \in expanded
    <3>1. pc' = pc
      BY <1>3, <2>3 DEF NextNode
    <3> QED BY <2>1, <2>2, <3>1 DEF LevelInv
  <2>4. CASE id \notin expanded
    <3>1. pc' = "reading" /\ reading' = id
      BY <1>3, <2>4 DEF NextNode, BeginRead
    <3> QED BY <2>1, <2>2, <3>1 DEF LevelInv
  <2> QED BY <2>3, <2>4
<1>4. CASE ReadEdge
  <2>1. UNCHANGED <<pc, req, depth, frontier, outN, outE, reading, relations>>
    BY <1>4 DEF ReadEdge, Collect, walk
  <2>2. Found' = Found
    BY <2>1 DEF Found
  <2> QED BY <2>1, <2>2 DEF LevelInv
<1>5. CASE ReadDone
  <2>1. /\ pc = "reading" /\ pc' = "relations" /\ UNCHANGED <<req, depth, frontier, outN, outE>>
        /\ \A e \in relations' : Touching(e, reading, req.direction)
    BY <1>5 DEF ReadDone, Neighbors
  <2>2. Found' = Found
    BY <2>1 DEF Found
  <2> QED BY <2>1, <2>2 DEF LevelInv
<1>6. ASSUME NEW e \in Edge, VisitRelation(e) PROVE LevelInv'
  <2>1. /\ pc = "relations" /\ UNCHANGED <<pc, req, depth, frontier>>
        /\ e \in relations /\ relations' \subseteq relations /\ outE \subseteq outE'
        /\ outN \subseteq outN'
    BY <1>6 DEF VisitRelation
  <2>2. PICK id \in Found[depth] : \A x \in relations : Touching(x, id, req.direction)
    BY <2>1 DEF LevelInv
  <2>3. \A d \in Nat : Found[d] \subseteq Found'[d]
    BY <1>0, <2>1, WithinMore DEF Found
  <2>4. id \in outN
    <3>1. \A d \in Nat : Found[d] \subseteq outN
      BY <1>0, <2>1, WithinInside DEF IInv, ResultConnected, WalkInv, Found
    <3> QED BY <1>0, <2>2, <3>1
  <2>5. outN' \subseteq Found'[depth + 1]
    <3>1. outN \subseteq Found[depth + 1] /\ depth + 1 \in Nat
      BY <1>0, <2>1 DEF LevelInv
    <3>2. CASE outN' = outN
      BY <2>3, <3>1, <3>2
    <3>3. CASE outN' # outN
      <4>1. {e.from, e.to} = {id, NextID(e, id)} /\ Touching(e, id, req.direction)
        BY <2>1, <2>2, EndsOfEdge
      <4>2. outN' = outN \cup {NextID(e, id)} /\ outE' = outE \cup {e}
        BY <1>6, <2>4, <3>3, <4>1 DEF VisitRelation
      <4>3. Found'[depth + 1] = Further(outE', req.direction, Found'[depth])
        <5>1. Found' = Within(outE', req.root, req.direction)
          BY <2>1 DEF Found
        <5>2. Within(outE', req.root, req.direction)[depth + 1] =
                Further(outE', req.direction, Within(outE', req.root, req.direction)[depth])
          BY <1>0, WithinStep
        <5> QED BY <1>0, <5>1, <5>2
      <4>4. NextID(e, id) \in Further(outE', req.direction, Found'[depth])
        BY <1>0, <2>2, <2>3, <4>1, <4>2 DEF Further
      <4> QED BY <2>3, <3>1, <4>2, <4>3, <4>4
    <3> QED BY <3>2, <3>3
  <2> QED BY <1>0, <2>1, <2>2, <2>3, <2>5 DEF LevelInv
<1>7. CASE EndNode
  <2>1. /\ pc = "relations" /\ pc' = "level" /\ UNCHANGED <<req, depth, frontier, outN, outE>>
    BY <1>7 DEF EndNode
  <2>2. Found' = Found
    BY <2>1 DEF Found
  <2> QED BY <2>1, <2>2 DEF LevelInv
<1>8. CASE EndLevel
  <2>1. /\ pc = "level" /\ depth' = depth + 1 /\ frontier' = nextSet /\ UNCHANGED <<req, outN, outE>>
        /\ (pc' = "level" /\ depth' < req.depth) \/ pc' = "ok"
    BY <1>8 DEF EndLevel
  <2>2. Found' = Found
    BY <2>1 DEF Found
  <2>3. /\ depth < req.depth /\ outN \subseteq Found[depth + 1]
        /\ nextSet \subseteq outN /\ req.root \in outN
    BY <2>1 DEF LevelInv, IInv, WalkInv
  <2>4. Found[depth + 1] \subseteq Found[(depth + 1) + 1]
    <3> DEFINE d == depth + 1
    <3>1. d \in Nat /\ 1 \in Nat
      BY <1>0
    <3> HIDE DEF d
    <3>2. \A k \in Nat : Found[d] \subseteq Found[d + k]
      BY <1>0, <3>1, WithinDeeper DEF Found
    <3>3. Found[d] \subseteq Found[d + 1]
      BY <3>1, <3>2
    <3> QED BY <3>3 DEF d
  <2>5. Found[depth + 1] \subseteq Found[req.depth]
    <3> DEFINE k == req.depth - (depth + 1)
    <3>1. k \in Nat /\ (depth + 1) + k = req.depth /\ depth + 1 \in Nat
      BY <1>0, <2>3
    <3> HIDE DEF k
    <3>2. Found[depth + 1] \subseteq Found[(depth + 1) + k]
      BY <1>0, <3>1, WithinDeeper DEF Found
    <3> QED BY <3>1, <3>2
  <2> QED BY <1>0, <2>1, <2>2, <2>3, <2>4, <2>5 DEF LevelInv
<1>9. CASE Respond
  BY <1>9 DEF Respond, LevelInv
<1>10. CASE Cancel
  BY <1>10 DEF Cancel, LevelInv
<1>11. CASE Churn
  <2>1. UNCHANGED <<reading, got>>
    BY <1>11, ChurnShape DEF IInv, TypeOK, GraphShape
  <2>2. UNCHANGED <<pc, req, depth, frontier, outN, outE, reading, relations>>
    BY <1>11, <2>1 DEF Churn, walk
  <2>3. Found' = Found
    BY <2>2 DEF Found
  <2> QED BY <2>2, <2>3 DEF LevelInv
<1>12. CASE UNCHANGED vars
  <2>1. UNCHANGED <<pc, req, depth, frontier, outN, outE, reading, relations>>
    BY <1>12 DEF vars, walk, sharedVars, read
  <2>2. Found' = Found
    BY <2>1 DEF Found
  <2> QED BY <2>1, <2>2 DEF LevelInv
<1> QED
  BY <1>1, <1>2, <1>3, <1>4, <1>5, <1>6, <1>7, <1>8, <1>9, <1>10, <1>11, <1>12
     DEF Next, Walk

\* ExpandSubgraph goes to the depth asked for and no further: the nodes of an answer
\* are those within depth of the root over the edges of the answer.
THEOREM ExpansionWithinDepth == Spec => []ResultWithinDepth
<1>1. Init => LevelInv
  BY DEF Init, LevelInv, Walking
<1>2. IInv /\ IInv' /\ LevelInv /\ [Next]_vars => LevelInv'
  BY NextLevels
<1>3. ASSUME IInv, LevelInv PROVE ResultWithinDepth
  <2>1. SUFFICES ASSUME pc = "ok" PROVE outN = Found[req.depth]
    BY DEF ResultWithinDepth, Found
  <2>2. outE \in SUBSET Edge /\ req.root \in Ids /\ req.depth \in Nat
    BY <1>3 DEF IInv, TypeOK
  <2>3. req.root \in outN
    BY <1>3, <2>1 DEF LevelInv
  <2>4. Found[req.depth] \subseteq outN
    BY <1>3, <2>2, <2>3, WithinInside DEF IInv, ResultConnected, Found
  <2> QED BY <1>3, <2>1, <2>4 DEF LevelInv
<1> QED BY <1>1, <1>2, <1>3, ExpansionInvariant, PTL DEF Spec

-----------------------------------------------------------------------------
\* With fewer stable edges there is less to reach and less to take.
LEMMA FewerWanted ==
    ASSUME TypeOK, Wanted' \subseteq Wanted, UNCHANGED <<req, expanded, frontier, nextSet, outE>>
    PROVE  /\ \A d \in Nat : Within(Wanted', req.root, req.direction)[d] \subseteq
                               Within(Wanted, req.root, req.direction)[d]
           /\ \A ids : Finished(ids) => Finished(ids)'
           /\ \A e, id : Taken(e, id)' <=> Taken(e, id)
<1>1. Wanted \in SUBSET Edge /\ req.root \in Ids
  BY DEF TypeOK, Wanted
<1>2. \A d \in Nat : Within(Wanted', req.root, req.direction)[d] \subseteq
                       Within(Wanted, req.root, req.direction)[d]
  BY <1>1, WithinMore
<1>3. \A e, id : Taken(e, id)' <=> Taken(e, id)
  BY DEF Taken
<1>4. \A ids : Finished(ids) => Finished(ids)'
  BY <1>3 DEF Finished
<1> QED BY <1>2, <1>3, <1>4

\* Every step keeps StableInv.
LEMMA NextStable ==
    ASSUME IInv, IInv', LevelInv, StableInv, [Next]_vars
    PROVE  StableInv'
<1> USE DEF Walking, Answers
<1> DEFINE Reach == Within(Wanted, req.root, req.direction)
<1>0. /\ Wanted \in SUBSET Edge /\ req.root \in Ids /\ depth \in Nat /\ req.depth \in Nat
      /\ frontier \subseteq Ids /\ expanded \subseteq Ids
  BY DEF IInv, TypeOK, Wanted
<1>a. pc' # "ok" => StableReachComplete'
  BY DEF StableReachComplete
<1>1. ASSUME NEW o \in Requests, Receive(o) PROVE StableInv'
  <2>1. pc = "idle" /\ pc' \in {"begin", "invalid"} /\ expanded' = expanded
    BY <1>1 DEF Receive
  <2> QED BY <1>a, <2>1 DEF StableInv
<1>2. CASE GetRoot
  <2>1. CASE req.root \notin nodes
    BY <1>2, <1>a, <2>1 DEF GetRoot, StableInv
  <2>2. CASE req.root \in nodes
    <3>1. /\ pc' = "level" /\ frontier' = {req.root} /\ stableN' = nodes /\ stableE' = Staying
          /\ UNCHANGED <<nodes, edges, leaving, req, depth, expanded>> /\ depth = 0 /\ expanded = {}
      BY <1>2, <2>2 DEF GetRoot, LevelInv, StableInv, sharedVars, graph
    <3>2. Wanted' \in SUBSET Edge
      BY DEF IInv, TypeOK, Wanted
    <3>3. Within(Wanted', req.root, req.direction)[0] = {req.root}
      BY <1>0, <3>2, WithinZero
    <3>4. Staying' = Staying
      BY <3>1 DEF Staying
    <3> QED BY <1>a, <3>1, <3>3, <3>4 DEF StableInv, Finished
  <2> QED BY <2>1, <2>2
<1>3. ASSUME NEW id \in Ids, NextNode(id) PROVE StableInv'
  <2>1. /\ UNCHANGED <<nodes, edges, leaving, req, depth, nextSet, outE, limited, stableN, stableE>>
        /\ frontier' = frontier \ {id} /\ id \in frontier /\ pc = "level"
    BY <1>3 DEF NextNode, BeginRead, sharedVars, graph, stable
  <2>2. Wanted' = Wanted /\ Staying' = Staying
    BY <2>1 DEF Wanted, Staying
  <2>3. expanded' = expanded \cup {id}
    BY <1>3 DEF NextNode
  <2>4. \A e, x : Taken(e, x) => Taken(e, x)'
    BY <2>1, <2>3 DEF Taken
  <2>5. \A ids : Finished(ids) => Finished(ids)'
    BY <2>1, <2>2, <2>4 DEF Finished
  <2>6. stableN' \subseteq nodes' /\ stableE' \subseteq Staying'
    BY <2>1, <2>2 DEF StableInv
  <2>7. ~limited => Within(Wanted', req'.root, req'.direction)[depth'] \subseteq expanded' \cup frontier'
    BY <2>1, <2>2, <2>3 DEF StableInv
  <2>8. CASE id \in expanded
    <3>1. pc' = "level" /\ expanded' = expanded
      BY <1>3, <2>1, <2>8 DEF NextNode
    <3>2. PICK ids : ids = expanded /\ ids = expanded'
      BY <3>1
    <3>3. ~limited' => Finished(expanded)'
      BY <2>1, <2>5, <3>2 DEF StableInv, Finished
    <3> QED BY <1>a, <2>1, <2>6, <2>7, <3>1, <3>3 DEF StableInv
  <2>9. CASE id \notin expanded
    <3>1. pc' = "reading" /\ reading' = id /\ must' = {e \in Staying : Touches(e, id)}
      BY <1>3, <2>9 DEF NextNode, BeginRead
    <3>2. \A e \in Wanted' : Touches(e, reading') => e \in must'
      BY <2>1, <2>2, <2>6, <3>1 DEF Wanted
    <3>3. PICK ids : ids = expanded /\ ids = expanded' \ {reading'}
      BY <2>3, <2>9, <3>1
    <3>4. ~limited' => Finished(ids)'
      BY <2>1, <2>5, <3>3 DEF StableInv
    <3>5. ~limited' => Finished(expanded \ {reading})'
      BY <3>3, <3>4 DEF Finished
    <3>6. reading' \in expanded'
      BY <2>3, <3>1
    <3> QED BY <1>a, <2>1, <2>6, <2>7, <3>1, <3>2, <3>5, <3>6 DEF StableInv
  <2> QED BY <2>8, <2>9
<1>4. CASE ReadEdge
  <2>1. UNCHANGED <<pc, req, depth, frontier, nextSet, expanded, relations, outE, limited, stableN, stableE,
                    nodes, edges, leaving, reading, must>>
    BY <1>4 DEF ReadEdge, Collect, walk, stable, graph
  <2>2. Wanted' = Wanted /\ Staying' = Staying
    BY <2>1 DEF Wanted, Staying
  <2>3. \A e, id : Taken(e, id)' <=> Taken(e, id)
    BY <2>1 DEF Taken
  <2>4. pc = "reading" /\ (Finished(expanded \ {reading})' <=> Finished(expanded \ {reading}))
    BY <1>4, <2>1, <2>2, <2>3 DEF ReadEdge, Finished
  <2> QED BY <1>a, <2>1, <2>2, <2>4 DEF StableInv
<1>5. CASE ReadDone
  <2>1. /\ pc = "reading" /\ pc' = "relations" /\ must \subseteq got
        /\ UNCHANGED <<nodes, edges, leaving, req, depth, frontier, nextSet, expanded, outE, stableN, stableE>>
    BY <1>5 DEF ReadDone, EndRead, stable, graph
  <2>2. Wanted' = Wanted /\ Staying' = Staying
    BY <2>1 DEF Wanted, Staying
  <2>3. /\ limited => limited'
        /\ ~limited' => relations' = {e \in got : Touching(e, reading, req.direction) /\ Matches(e, req.kind)}
    BY <1>5 DEF ReadDone, Neighbors, IInv, TypeOK
  <2>4. \A ids : Finished(ids) => Finished(ids)'
    BY <2>1, <2>2 DEF Finished, Taken
  <2>5. ASSUME ~limited', NEW e \in Wanted, Touching(e, reading, req.direction) PROVE e \in relations'
    <3>1. e \in got
      BY <2>1, <2>5, EndsOfEdge DEF StableInv
    <3> QED BY <2>3, <2>5, <3>1 DEF Wanted
  <2>6. reading \in expanded
    BY <2>1 DEF StableInv
  <2>7. PICK id : id = reading
    OBVIOUS
  <2>8. PICK ids : ids = expanded \ {id}
    OBVIOUS
  <2>9. ~limited' => Finished(ids)'
    BY <2>1, <2>3, <2>4, <2>7, <2>8 DEF StableInv
  <2>10. ~limited' => Finished(expanded \ {id})'
    BY <2>1, <2>8, <2>9 DEF Finished
  <2>11. stableN' \subseteq nodes' /\ stableE' \subseteq Staying'
    BY <2>1, <2>2 DEF StableInv
  <2>12. ~limited' => Within(Wanted', req'.root, req'.direction)[depth'] \subseteq expanded' \cup frontier'
    BY <2>1, <2>2, <2>3 DEF StableInv
  <2>13. ~limited' => \A e \in Wanted' : Touching(e, id, req'.direction) => e \in relations'
    BY <2>1, <2>2, <2>5, <2>7
  <2>14. id \in expanded'
    BY <2>1, <2>6, <2>7
  <2> QED BY <1>a, <2>1, <2>10, <2>11, <2>12, <2>13, <2>14 DEF StableInv
<1>6. ASSUME NEW e \in Edge, VisitRelation(e) PROVE StableInv'
  <2>1. /\ pc = "relations" /\ pc' = "relations" /\ e \in relations /\ relations' = relations \ {e}
        /\ UNCHANGED <<nodes, edges, leaving, req, depth, frontier, expanded, limited, stableN, stableE>>
    BY <1>6 DEF VisitRelation, sharedVars, graph, stable
  <2>2. Wanted' = Wanted /\ Staying' = Staying
    BY <2>1 DEF Wanted, Staying
  <2>3. outE \subseteq outE' /\ nextSet \subseteq nextSet'
    BY <1>6 DEF VisitRelation
  <2>4. \A x, id : Taken(x, id) => Taken(x, id)'
    BY <2>1, <2>3 DEF Taken
  <2>5. \A ids : Finished(ids) => Finished(ids)'
    BY <2>1, <2>2, <2>4 DEF Finished
  <2>6. stableN' \subseteq nodes' /\ stableE' \subseteq Staying'
    BY <2>1, <2>2 DEF StableInv
  <2>7. ~limited => Within(Wanted', req'.root, req'.direction)[depth'] \subseteq expanded' \cup frontier'
    BY <2>1, <2>2 DEF StableInv
  <2>8. ASSUME ~limited
        PROVE  \E id \in expanded' :
                 /\ Finished(expanded \ {id})'
                 /\ \A x \in Wanted' : Touching(x, id, req'.direction) => x \in relations' \/ Taken(x, id)'
    <3>1. PICK id \in expanded :
            /\ Finished(expanded \ {id})
            /\ \A x \in Wanted : Touching(x, id, req.direction) => x \in relations \/ Taken(x, id)
      BY <2>1, <2>8 DEF StableInv
    <3>2. Finished(expanded \ {id})'
      BY <2>1, <2>2, <2>4, <3>1 DEF Finished
    <3>3. ASSUME e \in Wanted, Touching(e, id, req.direction) PROVE Taken(e, id)'
      <4>1. {e.from, e.to} \subseteq nodes
        BY <2>1, <3>3 DEF Wanted, StableInv
      <4>2. outE' = outE \cup {e} /\ nextSet' = nextSet \cup ({e.from, e.to} \ expanded)
        BY <1>6, <4>1 DEF VisitRelation
      <4>3. NextID(e, id) \in {e.from, e.to}
        BY DEF NextID
      <4> QED BY <2>1, <4>2, <4>3 DEF Taken
    <3>4. \A x \in Wanted' : Touching(x, id, req'.direction) => x \in relations' \/ Taken(x, id)'
      BY <2>1, <2>2, <2>4, <3>1, <3>3
    <3> QED BY <2>1, <3>2, <3>4
  <2> QED BY <1>a, <2>1, <2>6, <2>7, <2>8 DEF StableInv
<1>7. CASE EndNode
  <2>1. /\ pc = "relations" /\ pc' = "level" /\ limited' = (limited \/ relations # {})
        /\ UNCHANGED <<nodes, edges, leaving, req, depth, frontier, nextSet, expanded, outE, stableN, stableE>>
    BY <1>7 DEF EndNode, sharedVars, graph, stable
  <2>2. Wanted' = Wanted /\ Staying' = Staying
    BY <2>1 DEF Wanted, Staying
  <2>3. ASSUME ~limited' PROVE Finished(expanded)'
    <3>1. ~limited /\ relations = {}
      BY <2>1, <2>3 DEF IInv, TypeOK
    <3>2. PICK id \in expanded :
            /\ Finished(expanded \ {id})
            /\ \A x \in Wanted : Touching(x, id, req.direction) => Taken(x, id)
      BY <2>1, <3>1 DEF StableInv
    <3>3. Finished(expanded)
      BY <3>2 DEF Finished
    <3> QED BY <2>1, <2>2, <3>3 DEF Finished, Taken
  <2>4. limited => limited'
    BY <2>1 DEF IInv, TypeOK
  <2> QED BY <1>a, <2>1, <2>2, <2>3, <2>4 DEF StableInv
<1>8. CASE EndLevel
  <2>1. /\ pc = "level" /\ pc' \in {"level", "ok"} /\ depth' = depth + 1
        /\ frontier' = nextSet /\ nextSet' = {}
        /\ UNCHANGED <<nodes, edges, leaving, req, expanded, outE, stableN, stableE>>
    BY <1>8 DEF EndLevel, sharedVars, graph, stable
  <2>2. Wanted' = Wanted /\ Staying' = Staying
    BY <2>1 DEF Wanted, Staying
  <2>3. ~limited' => ~limited /\ frontier = {}
    BY <1>8 DEF EndLevel, IInv, TypeOK
  <2>4. ASSUME ~limited' PROVE Reach[depth] \subseteq expanded /\ Finished(expanded)
    BY <2>1, <2>3, <2>4 DEF StableInv
  <2>5. ASSUME ~limited' PROVE Finished(expanded)'
    BY <2>1, <2>2, <2>3, <2>4, <2>5 DEF Finished, Taken
  <2>6. ASSUME ~limited' PROVE Reach[depth + 1] \subseteq expanded \cup nextSet
    <3>1. Reach[depth + 1] = Further(Wanted, req.direction, Reach[depth])
      BY <1>0, WithinStep
    <3>2. \A id \in expanded : \A e \in Wanted :
            Touching(e, id, req.direction) => NextID(e, id) \in expanded \cup nextSet
      BY <2>3, <2>4, <2>6 DEF Finished, Taken
    <3> HIDE DEF Reach
    <3> QED BY <2>4, <2>6, <3>1, <3>2 DEF Further
  <2>7. pc' = "ok" /\ ~limited' => depth = req.depth - 1
    <3>1. depth < req.depth
      BY <2>1 DEF LevelInv
    <3>2. pc' = "ok" => ~(depth + 1 < req.depth /\ ~Full)
      BY <1>8 DEF EndLevel
    <3>3. ~limited' => ~(Full /\ depth + 1 < req.depth)
      BY <1>8 DEF EndLevel, IInv, TypeOK
    <3> QED BY <1>0, <3>1, <3>2, <3>3
  <2>8. stableN' \subseteq nodes' /\ stableE' \subseteq Staying'
    BY <2>1, <2>2 DEF StableInv
  <2>9. ASSUME pc' = "ok", ~limited' PROVE StableReachComplete'
    BY <2>1, <2>2, <2>4, <2>7, <2>9 DEF StableReachComplete, Finished, Taken
  <2> QED BY <2>1, <2>2, <2>5, <2>6, <2>8, <2>9 DEF StableInv, StableReachComplete
<1>9. CASE Respond
  BY <1>9, <1>a DEF Respond, StableInv
<1>10. CASE Cancel
  BY <1>10, <1>a DEF Cancel, StableInv
<1>11. CASE Churn
  <2>1. UNCHANGED <<reading, got>>
    BY <1>11, ChurnShape DEF IInv, TypeOK, GraphShape
  <2>2. /\ UNCHANGED <<pc, req, depth, frontier, nextSet, expanded, relations, outE, limited, reading>>
        /\ stableN' = stableN \cap nodes' /\ stableE' = stableE \cap Staying'
    BY <1>11, <2>1 DEF Churn, walk
  <2>3. must' = must \cap Staying'
    BY <1>11 DEF Churn, AddNode, RemoveNode, AddEdge, BeginRemoveEdge, EndRemoveEdge, Written
  <2>4. Wanted' \subseteq Wanted
    BY <2>2 DEF Wanted
  <2>5. /\ \A d \in Nat : Within(Wanted', req.root, req.direction)[d] \subseteq Reach[d]
        /\ \A ids : Finished(ids) => Finished(ids)'
        /\ \A e, id : Taken(e, id)' <=> Taken(e, id)
    BY <2>2, <2>4, FewerWanted DEF IInv
  <2>6. pc = "reading" => \A e \in Wanted' : Touches(e, reading') => e \in must'
    BY <2>2, <2>3, <2>4 DEF StableInv, Wanted
  <2>7. /\ Finished(expanded) => Finished(expanded)'
        /\ \A id : Finished(expanded \ {id}) => Finished(expanded \ {id})'
    BY <2>2, <2>4, <2>5 DEF Finished
  <2>8. StableReachComplete'
    <3> SUFFICES ASSUME pc = "ok", ~limited, NEW e \in Wanted', NEW id,
                        id \in Within(Wanted', req.root, req.direction)[req.depth - 1],
                        Touching(e, id, req.direction)
                 PROVE  e \in outE
      BY <2>2 DEF StableReachComplete
    <3>1. req.depth - 1 \in Nat
      BY <1>0 DEF LevelInv
    <3>2. id \in Reach[req.depth - 1]
      BY <2>5, <3>1
    <3> QED BY <2>4, <3>2 DEF StableInv, StableReachComplete
  <2>9. pc \in Walking => stableN' \subseteq nodes' /\ stableE' \subseteq Staying'
    BY <2>2 DEF StableInv
  <2>10. Within(Wanted', req'.root, req'.direction)[depth'] \subseteq Reach[depth]
    BY <1>0, <2>2, <2>5
  <2>11. (pc = "level" /\ ~limited => Finished(expanded)')
          /\ (pc = "reading" /\ ~limited => Finished(expanded \ {reading})')
    BY <2>2, <2>7 DEF StableInv, Finished
  <2>12. ASSUME pc = "relations", ~limited
         PROVE  \E id \in expanded' :
                  /\ Finished(expanded \ {id})'
                  /\ \A e \in Wanted' : Touching(e, id, req'.direction) => e \in relations' \/ Taken(e, id)'
    BY <2>2, <2>4, <2>5, <2>7, <2>12 DEF StableInv
  <2> HIDE DEF Reach
  <2> QED BY <2>2, <2>6, <2>8, <2>9, <2>10, <2>11, <2>12 DEF StableInv, Reach
<1>12. CASE UNCHANGED vars
  <2>1. UNCHANGED <<pc, req, depth, frontier, nextSet, expanded, relations, outE, limited, stableN, stableE,
                    nodes, edges, leaving, reading, must>>
    BY <1>12 DEF vars, walk, stable, sharedVars, graph, read
  <2>2. Wanted' = Wanted /\ Staying' = Staying
    BY <2>1 DEF Wanted, Staying
  <2>3. \A e, id : Taken(e, id)' <=> Taken(e, id)
    BY <2>1 DEF Taken
  <2>4. /\ Finished(expanded)' <=> Finished(expanded)
        /\ \A id : Finished(expanded \ {id})' <=> Finished(expanded \ {id})
    BY <2>1, <2>2, <2>3 DEF Finished
  <2>5. StableReachComplete'
    BY <2>1, <2>2 DEF StableInv, StableReachComplete
  <2> QED BY <2>1, <2>2, <2>3, <2>4, <2>5 DEF StableInv
<1> QED
  BY <1>1, <1>2, <1>3, <1>4, <1>5, <1>6, <1>7, <1>8, <1>9, <1>10, <1>11, <1>12
     DEF Next, Walk

\* An answer the limit did not touch misses nothing that stayed in the graph from the
\* first step of the walk to the last, whatever Apply did meanwhile.
THEOREM ExpansionComplete == Spec => []StableReachComplete
<1>1. Init => LevelInv /\ StableInv
  BY DEF Init, LevelInv, StableInv, StableReachComplete, Walking
<1>2. IInv /\ IInv' /\ LevelInv /\ StableInv /\ [Next]_vars => LevelInv' /\ StableInv'
  BY NextLevels, NextStable
<1>3. StableInv => StableReachComplete
  BY DEF StableInv
<1> QED BY <1>1, <1>2, <1>3, ExpansionInvariant, PTL DEF Spec

=============================================================================
