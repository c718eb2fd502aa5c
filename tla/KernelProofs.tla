---------------------------- MODULE KernelProofs ----------------------------
(***************************************************************************)
(* Proofs about Kernel, for every set of ids and kinds.                    *)
(***************************************************************************)
EXTENDS Kernel, TLAPS

\* The empty store with an idle writer and reader satisfies the inductive invariant.
LEMMA InitIInv == Init => IInv
  BY NoneAssumption
     DEF Init, IInv, TypeOK, IndexSound, IndexComplete, WriterInv, DeleteNodeListsAll,
         ReaderInv, EdgeBeingDeleted, Settled, WriterPC, IsIndex, NeighborKeys

\* An edge's ends are ids.
LEMMA EdgeEnds == \A e \in Edge : e.from \in Ids /\ e.to \in Ids
  BY DEF Edge

\* AddNeighbor adds the key to the keys of one id.
LEMMA AddNeighborKeys ==
    ASSUME NEW nbr, IsIndex(nbr), NEW id \in Ids, NEW e \in Edge
    PROVE  /\ IsIndex(AddNeighbor(nbr, id, e))
           /\ \A i : NeighborKeys(AddNeighbor(nbr, id, e), i) =
                      IF i = id THEN NeighborKeys(nbr, i) \cup {e} ELSE NeighborKeys(nbr, i)
<1> DEFINE keys == NeighborKeys(nbr, id) \cup {e}
           new == AddNeighbor(nbr, id, e)
<1>1. keys \in (SUBSET Edge) \ {{}}
  BY DEF IsIndex, NeighborKeys
<1>2. DOMAIN new = DOMAIN nbr \cup {id} /\ new = [i \in DOMAIN new |-> IF i = id THEN keys ELSE nbr[i]]
  BY DEF AddNeighbor, SetEntry
<1> HIDE DEF keys, new
<1>3. IsIndex(new)
  BY <1>1, <1>2 DEF IsIndex
<1>4. \A i : NeighborKeys(new, i) = IF i = id THEN keys ELSE NeighborKeys(nbr, i)
  BY <1>2 DEF NeighborKeys
<1> QED  BY <1>3, <1>4 DEF keys, new

\* RemoveNeighbor takes the key from the keys of one id, and the entry with its
\* last key.
LEMMA RemoveNeighborKeys ==
    ASSUME NEW nbr, IsIndex(nbr), NEW id \in Ids, NEW e \in Edge
    PROVE  /\ IsIndex(RemoveNeighbor(nbr, id, e))
           /\ \A i : NeighborKeys(RemoveNeighbor(nbr, id, e), i) =
                      IF i = id THEN NeighborKeys(nbr, i) \ {e} ELSE NeighborKeys(nbr, i)
<1> DEFINE left == NeighborKeys(nbr, id) \ {e}
           new == RemoveNeighbor(nbr, id, e)
<1>1. left \in SUBSET Edge
  BY DEF IsIndex, NeighborKeys
<1>2. CASE left = {}
  <2>1. DOMAIN new = DOMAIN nbr \ {id} /\ new = [i \in DOMAIN new |-> nbr[i]]
    BY <1>2 DEF RemoveNeighbor, DropEntry
  <2> HIDE DEF new
  <2>2. IsIndex(new)
    BY <2>1 DEF IsIndex
  <2>3. \A i : NeighborKeys(new, i) = IF i = id THEN {} ELSE NeighborKeys(nbr, i)
    BY <2>1 DEF NeighborKeys
  <2> QED  BY <1>2, <2>2, <2>3 DEF new
<1>3. CASE left # {}
  <2>1. /\ DOMAIN new = DOMAIN nbr \cup {id}
        /\ new = [i \in DOMAIN new |-> IF i = id THEN left ELSE nbr[i]]
    BY <1>3 DEF RemoveNeighbor, SetEntry
  <2> HIDE DEF left, new
  <2>2. IsIndex(new)
    BY <1>1, <1>3, <2>1 DEF IsIndex
  <2>3. \A i : NeighborKeys(new, i) = IF i = id THEN left ELSE NeighborKeys(nbr, i)
    BY <2>1 DEF NeighborKeys
  <2> QED  BY <2>2, <2>3 DEF left, new
<1> QED  BY <1>2, <1>3

\* DropEntry leaves the id no key and the others theirs.
LEMMA DropEntryKeys ==
    ASSUME NEW nbr, IsIndex(nbr), NEW id
    PROVE  /\ IsIndex(DropEntry(nbr, id))
           /\ \A i : NeighborKeys(DropEntry(nbr, id), i) = IF i = id THEN {} ELSE NeighborKeys(nbr, i)
<1> DEFINE new == DropEntry(nbr, id)
<1>1. DOMAIN new = DOMAIN nbr \ {id} /\ new = [i \in DOMAIN new |-> nbr[i]]
  BY DEF DropEntry
<1> HIDE DEF new
<1>2. IsIndex(new) /\ \A i : NeighborKeys(new, i) = IF i = id THEN {} ELSE NeighborKeys(nbr, i)
  BY <1>1 DEF IsIndex, NeighborKeys
<1> QED  BY <1>2 DEF new

\* The keys of an index are edges.
LEMMA KeysAreEdges == ASSUME NEW nbr, IsIndex(nbr), NEW id PROVE NeighborKeys(nbr, id) \subseteq Edge
  BY DEF IsIndex, NeighborKeys

\* Every step of the writer or of the reader preserves the inductive invariant.
LEMMA NextIInv == IInv /\ [Next]_vars => IInv'
<1> SUFFICES ASSUME IInv, [Next]_vars PROVE IInv'
  OBVIOUS
<1> USE NoneAssumption, EdgeEnds DEF IInv
<1>1. ASSUME NEW id \in Ids, UpsertNode(id) PROVE IInv'
  BY <1>1 DEF UpsertNode, WriterStep, writer, reader, TypeOK, IndexSound, IndexComplete,
     WriterInv, DeleteNodeListsAll, ReaderInv, Settled, EdgeBeingDeleted
<1>2. ASSUME NEW id \in Ids, DeleteNode(id) PROVE IInv'
  <2> USE <1>2 DEF DeleteNode, WriterStep, store, reader, TypeOK, EdgeBeingDeleted
  <2>1. TypeOK'
    BY DEF Incident, WriterPC
  <2>2. Settled' = Settled
    BY DEF Settled
  <2>3. IndexSound' /\ IndexComplete'
    BY <2>2 DEF IndexSound, IndexComplete
  <2>4. WriterInv' /\ DeleteNodeListsAll'
    BY DEF WriterInv, DeleteNodeListsAll, Incident
  <2>5. ReaderInv'
    BY <2>2 DEF ReaderInv
  <2> QED  BY <2>1, <2>3, <2>4, <2>5
<1>3. ASSUME NEW e \in Edge, UpsertEdge(e) PROVE IInv'
  <2> USE <1>3 DEF UpsertEdge, StoreUpsertEdge, WriterStep, reader, TypeOK, EdgeBeingDeleted
  <2>1. e.from \in Ids /\ e.to \in Ids /\ IsIndex(neighbors)
    OBVIOUS
  <2>2. neighbors' = AddNeighbor(AddNeighbor(neighbors, e.from, e), e.to, e)
    OBVIOUS
  <2>3. /\ IsIndex(neighbors')
        /\ \A i \in Ids : NeighborKeys(neighbors', i) = IF i \in {e.from, e.to} THEN NeighborKeys(neighbors, i) \cup {e}
                                          ELSE NeighborKeys(neighbors, i)
    <3> DEFINE mid == AddNeighbor(neighbors, e.from, e)
    <3>1. /\ IsIndex(mid)
          /\ \A i : NeighborKeys(mid, i) = IF i = e.from THEN NeighborKeys(neighbors, i) \cup {e}
                                           ELSE NeighborKeys(neighbors, i)
      BY ONLY e \in Edge, <2>1, AddNeighborKeys
    <3> HIDE DEF mid
    <3>2. /\ IsIndex(AddNeighbor(mid, e.to, e))
          /\ \A i : NeighborKeys(AddNeighbor(mid, e.to, e), i) =
                        IF i = e.to THEN NeighborKeys(mid, i) \cup {e} ELSE NeighborKeys(mid, i)
      BY ONLY e \in Edge, <2>1, <3>1, AddNeighborKeys
    <3>3. neighbors' = AddNeighbor(mid, e.to, e)
      BY ONLY <2>2 DEF mid
    <3> QED  BY ONLY <3>1, <3>2, <3>3
  <2>4. TypeOK'
    BY <2>3 DEF WriterPC
  <2>5. Settled' = Settled \cup {e}
    BY DEF Settled
  <2>6. IndexSound'
    <3> SUFFICES ASSUME NEW i \in Ids, NEW x \in NeighborKeys(neighbors', i)
                 PROVE  x \in edges' /\ Touches(x, i)
      BY DEF IndexSound
    <3>1. x \in NeighborKeys(neighbors, i) \/ (x = e /\ i \in {e.from, e.to})
      BY ONLY <2>3, i \in Ids, x \in NeighborKeys(neighbors', i)
    <3>2. CASE x \in NeighborKeys(neighbors, i)
      BY <3>2 DEF IndexSound
    <3>3. CASE x = e /\ i \in {e.from, e.to}
      BY <3>3 DEF Touches
    <3> QED  BY <3>1, <3>2, <3>3
  <2>7. IndexComplete'
    <3> SUFFICES ASSUME NEW x \in Settled \cup {e}
                 PROVE  x \in NeighborKeys(neighbors', x.from) /\ x \in NeighborKeys(neighbors', x.to)
      BY <2>5 DEF IndexComplete
    <3>1. x \in Edge
      BY DEF Settled
    <3> QED  BY <2>3, <3>1 DEF IndexComplete
  <2>8. WriterInv' /\ DeleteNodeListsAll' /\ ReaderInv'
    BY <2>5 DEF WriterInv, DeleteNodeListsAll, ReaderInv
  <2> QED  BY <2>4, <2>6, <2>7, <2>8
<1>4. ASSUME NEW e \in Edge, DeleteEdge(e) PROVE IInv'
  <2> USE <1>4 DEF DeleteEdge, BeginDeleteEdge, WriterStep, store, reader, TypeOK,
                   EdgeBeingDeleted
  <2>1. TypeOK' /\ WriterInv' /\ DeleteNodeListsAll'
    BY DEF WriterPC, WriterInv, DeleteNodeListsAll
  <2>2. Settled' = Settled \ {e}
    BY DEF Settled
  <2>3. IndexSound' /\ IndexComplete' /\ ReaderInv'
    BY <2>2 DEF IndexSound, IndexComplete, ReaderInv
  <2> QED  BY <2>1, <2>3
<1>5. ASSUME UpsertEdgeAddFrom PROVE IInv'
  <2> USE <1>5 DEF UpsertEdgeAddFrom, WriterStep, reader, TypeOK, EdgeBeingDeleted
  <2>1. wedge \in Edge /\ wedge \in edges /\ wedge.from \in Ids /\ wedge.to \in Ids
    BY DEF WriterInv
  <2>a. IsIndex(neighbors) /\ neighbors' = AddNeighbor(neighbors, wedge.from, wedge)
    OBVIOUS
  <2>2. /\ IsIndex(neighbors')
        /\ \A i \in Ids : NeighborKeys(neighbors', i) =
              IF i = wedge.from THEN NeighborKeys(neighbors, i) \cup {wedge} ELSE NeighborKeys(neighbors, i)
    <3>1. LET new == AddNeighbor(neighbors, wedge.from, wedge)
          IN  /\ IsIndex(new)
              /\ \A i : NeighborKeys(new, i) =
                    IF i = wedge.from THEN NeighborKeys(neighbors, i) \cup {wedge} ELSE NeighborKeys(neighbors, i)
      BY ONLY <2>1, <2>a, AddNeighborKeys
    <3> QED  BY ONLY <2>a, <3>1
  <2>3. TypeOK' /\ WriterInv' /\ DeleteNodeListsAll'
    BY <2>2 DEF WriterPC, WriterInv, DeleteNodeListsAll
  <2>4. Settled' = Settled
    BY DEF Settled
  <2>5. IndexSound'
    <3> SUFFICES ASSUME NEW i \in Ids, NEW x \in NeighborKeys(neighbors', i)
                 PROVE  x \in edges' /\ Touches(x, i)
      BY DEF IndexSound
    <3>1. x \in NeighborKeys(neighbors, i) \/ (x = wedge /\ i = wedge.from)
      BY ONLY <2>2, i \in Ids, x \in NeighborKeys(neighbors', i)
    <3>2. CASE x \in NeighborKeys(neighbors, i)
      BY <3>2 DEF IndexSound
    <3>3. CASE x = wedge /\ i = wedge.from
      BY <2>1, <3>3 DEF Touches
    <3> QED  BY <3>1, <3>2, <3>3
  <2>6. IndexComplete' /\ ReaderInv'
    BY <2>1, <2>2, <2>4 DEF IndexComplete, ReaderInv, Settled
  <2> QED  BY <2>3, <2>5, <2>6
<1>6. ASSUME UpsertEdgeAddTo PROVE IInv'
  <2> USE <1>6 DEF UpsertEdgeAddTo, WriterStep, reader, TypeOK, EdgeBeingDeleted
  <2>1. wedge \in Edge /\ wedge \in edges /\ wedge.from \in Ids /\ wedge.to \in Ids
    BY DEF WriterInv
  <2>a. IsIndex(neighbors) /\ neighbors' = AddNeighbor(neighbors, wedge.to, wedge)
    OBVIOUS
  <2>2. /\ IsIndex(neighbors')
        /\ \A i \in Ids : NeighborKeys(neighbors', i) =
              IF i = wedge.to THEN NeighborKeys(neighbors, i) \cup {wedge} ELSE NeighborKeys(neighbors, i)
    <3>1. LET new == AddNeighbor(neighbors, wedge.to, wedge)
          IN  /\ IsIndex(new)
              /\ \A i : NeighborKeys(new, i) =
                    IF i = wedge.to THEN NeighborKeys(neighbors, i) \cup {wedge} ELSE NeighborKeys(neighbors, i)
      BY ONLY <2>1, <2>a, AddNeighborKeys
    <3> QED  BY ONLY <2>a, <3>1
  <2>3. TypeOK' /\ WriterInv' /\ DeleteNodeListsAll'
    BY <2>2 DEF WriterPC, WriterInv, DeleteNodeListsAll
  <2>4. Settled' = Settled
    BY DEF Settled
  <2>5. IndexSound'
    <3> SUFFICES ASSUME NEW i \in Ids, NEW x \in NeighborKeys(neighbors', i)
                 PROVE  x \in edges' /\ Touches(x, i)
      BY DEF IndexSound
    <3>1. x \in NeighborKeys(neighbors, i) \/ (x = wedge /\ i = wedge.to)
      BY ONLY <2>2, i \in Ids, x \in NeighborKeys(neighbors', i)
    <3>2. CASE x \in NeighborKeys(neighbors, i)
      BY <3>2 DEF IndexSound
    <3>3. CASE x = wedge /\ i = wedge.to
      BY <2>1, <3>3 DEF Touches
    <3> QED  BY <3>1, <3>2, <3>3
  <2>6. IndexComplete' /\ ReaderInv'
    BY <2>1, <2>2, <2>4 DEF IndexComplete, ReaderInv, Settled
  <2> QED  BY <2>3, <2>5, <2>6
<1>7. ASSUME DeleteEdgeRemoveFrom PROVE IInv'
  <2> USE <1>7 DEF DeleteEdgeRemoveFrom, WriterStep, reader, TypeOK, EdgeBeingDeleted
  <2>1. wedge \in Edge /\ wedge.from \in Ids /\ wedge.to \in Ids
    BY DEF WriterInv
  <2>a. IsIndex(neighbors) /\ neighbors' = RemoveNeighbor(neighbors, wedge.from, wedge)
    OBVIOUS
  <2>2. /\ IsIndex(neighbors')
        /\ \A i \in Ids : NeighborKeys(neighbors', i) =
              IF i = wedge.from THEN NeighborKeys(neighbors, i) \ {wedge} ELSE NeighborKeys(neighbors, i)
    <3>1. LET new == RemoveNeighbor(neighbors, wedge.from, wedge)
          IN  /\ IsIndex(new)
              /\ \A i : NeighborKeys(new, i) =
                    IF i = wedge.from THEN NeighborKeys(neighbors, i) \ {wedge} ELSE NeighborKeys(neighbors, i)
      BY ONLY <2>1, <2>a, RemoveNeighborKeys
    <3> QED  BY ONLY <2>a, <3>1
  <2>3. TypeOK' /\ WriterInv' /\ DeleteNodeListsAll'
    BY <2>2 DEF WriterPC, WriterInv, DeleteNodeListsAll
  <2>4. Settled' = Settled /\ wedge \notin Settled
    BY DEF Settled
  <2>5. IndexSound'
    BY <2>1, <2>2 DEF IndexSound
  <2>6. IndexComplete'
    BY <2>1, <2>2, <2>4 DEF IndexComplete, Settled
  <2>7. ReaderInv'
    BY <2>4 DEF ReaderInv
  <2> QED  BY <2>3, <2>5, <2>6, <2>7
<1>8. ASSUME DeleteEdgeRemoveTo PROVE IInv'
  <2> USE <1>8 DEF DeleteEdgeRemoveTo, WriterStep, reader, TypeOK, EdgeBeingDeleted
  <2>1. wedge \in Edge /\ wedge.from \in Ids /\ wedge.to \in Ids
    BY DEF WriterInv
  <2>a. IsIndex(neighbors) /\ neighbors' = RemoveNeighbor(neighbors, wedge.to, wedge)
    OBVIOUS
  <2>2. /\ IsIndex(neighbors')
        /\ \A i \in Ids : NeighborKeys(neighbors', i) =
              IF i = wedge.to THEN NeighborKeys(neighbors, i) \ {wedge} ELSE NeighborKeys(neighbors, i)
    <3>1. LET new == RemoveNeighbor(neighbors, wedge.to, wedge)
          IN  /\ IsIndex(new)
              /\ \A i : NeighborKeys(new, i) =
                    IF i = wedge.to THEN NeighborKeys(neighbors, i) \ {wedge} ELSE NeighborKeys(neighbors, i)
      BY ONLY <2>1, <2>a, RemoveNeighborKeys
    <3> QED  BY ONLY <2>a, <3>1
  <2>3. TypeOK' /\ WriterInv' /\ DeleteNodeListsAll'
    BY <2>2 DEF WriterPC, WriterInv, DeleteNodeListsAll
  <2>4. Settled' = Settled /\ wedge \notin Settled
    BY DEF Settled
  <2>5. IndexSound'
    BY <2>1, <2>2 DEF IndexSound
  <2>6. IndexComplete'
    BY <2>1, <2>2, <2>4 DEF IndexComplete, Settled
  <2>7. ReaderInv'
    BY <2>4 DEF ReaderInv
  <2> QED  BY <2>3, <2>5, <2>6, <2>7
<1>9. ASSUME DeleteEdgeDrop PROVE IInv'
  <2> USE <1>9 DEF DeleteEdgeDrop, StoreDeleteEdge, WriterStep, reader, TypeOK, EdgeBeingDeleted
  <2>1. wedge \in Edge /\ wedge.from \in Ids /\ wedge.to \in Ids
    BY DEF WriterInv
  <2>2. neighbors' = IF wedge \in edges
                     THEN RemoveNeighbor(RemoveNeighbor(neighbors, wedge.from, wedge), wedge.to, wedge)
                     ELSE neighbors
    OBVIOUS
  <2>3. \A i \in Ids : wedge \in NeighborKeys(neighbors, i) => wedge \in edges /\ i \in {wedge.from, wedge.to}
    BY DEF IndexSound, Touches
  <2>4. /\ IsIndex(neighbors')
        /\ \A i \in Ids : NeighborKeys(neighbors', i) = NeighborKeys(neighbors, i) \ {wedge}
    <3>1. IsIndex(neighbors)
      OBVIOUS
    <3>2. CASE wedge \in edges
      <4>1. neighbors' = RemoveNeighbor(RemoveNeighbor(neighbors, wedge.from, wedge), wedge.to, wedge)
        BY <2>2, <3>2
      <4>2. /\ IsIndex(neighbors')
            /\ \A i \in Ids : NeighborKeys(neighbors', i) = IF i \in {wedge.from, wedge.to}
                                              THEN NeighborKeys(neighbors, i) \ {wedge} ELSE NeighborKeys(neighbors, i)
        <5> DEFINE mid == RemoveNeighbor(neighbors, wedge.from, wedge)
        <5>1. /\ IsIndex(mid)
              /\ \A i : NeighborKeys(mid, i) = IF i = wedge.from THEN NeighborKeys(neighbors, i) \ {wedge}
                                               ELSE NeighborKeys(neighbors, i)
          BY ONLY <2>1, <3>1, RemoveNeighborKeys
        <5> HIDE DEF mid
        <5>2. /\ IsIndex(RemoveNeighbor(mid, wedge.to, wedge))
              /\ \A i : NeighborKeys(RemoveNeighbor(mid, wedge.to, wedge), i) =
                        IF i = wedge.to THEN NeighborKeys(mid, i) \ {wedge} ELSE NeighborKeys(mid, i)
          BY ONLY <2>1, <5>1, RemoveNeighborKeys
        <5>3. neighbors' = RemoveNeighbor(mid, wedge.to, wedge)
          BY ONLY <4>1 DEF mid
        <5> QED  BY ONLY <5>1, <5>2, <5>3
      <4> SUFFICES ASSUME NEW i \in Ids PROVE NeighborKeys(neighbors', i) = NeighborKeys(neighbors, i) \ {wedge}
        BY <4>2
      <4>3. i \notin {wedge.from, wedge.to} => wedge \notin NeighborKeys(neighbors, i)
        BY <2>3
      <4> QED  BY ONLY <4>2, <4>3, i \in Ids
    <3>3. CASE wedge \notin edges
      BY <2>2, <2>3, <3>1, <3>3
    <3> QED  BY <3>2, <3>3
  <2>5. TypeOK' /\ WriterInv' /\ DeleteNodeListsAll'
    BY <2>4 DEF WriterPC, WriterInv, DeleteNodeListsAll
  <2>6. Settled' = Settled /\ wedge \notin Settled
    BY DEF Settled
  <2>7. IndexSound' /\ IndexComplete' /\ ReaderInv'
    BY <2>1, <2>4, <2>6 DEF IndexSound, IndexComplete, ReaderInv, Settled
  <2> QED  BY <2>5, <2>7
<1>10. ASSUME DeleteNodeNextEdge PROVE IInv'
  <2> USE <1>10 DEF DeleteNodeNextEdge, BeginDeleteEdge, WriterStep, store, reader, TypeOK,
                    EdgeBeingDeleted
  <2>1. PICK e \in wpending : wpending' = wpending \ {e} /\ BeginDeleteEdge(e)
    OBVIOUS
  <2>2. TypeOK' /\ WriterInv' /\ DeleteNodeListsAll'
    BY <2>1 DEF WriterPC, WriterInv, DeleteNodeListsAll
  <2>3. Settled' = Settled \ {e}
    BY <2>1 DEF Settled
  <2>4. IndexSound' /\ IndexComplete' /\ ReaderInv'
    BY <2>1, <2>3 DEF IndexSound, IndexComplete, ReaderInv
  <2> QED  BY <2>2, <2>4
<1>11. ASSUME DeleteNodeDrop PROVE IInv'
  <2> USE <1>11 DEF DeleteNodeDrop, StoreDeleteNode, WriterStep, reader, TypeOK, EdgeBeingDeleted
  <2>1. wnode \in Ids
    BY DEF WriterInv
  <2>2. \A e \in edges : ~Touches(e, wnode)
    BY <2>1 DEF DeleteNodeListsAll
  <2>a. /\ IsIndex(neighbors')
        /\ \A i \in Ids : NeighborKeys(neighbors', i) = IF i = wnode THEN {} ELSE NeighborKeys(neighbors, i)
    <3>1. IsIndex(neighbors) /\ neighbors' = DropEntry(neighbors, wnode)
      OBVIOUS
    <3> QED  BY ONLY <3>1, DropEntryKeys
  <2>3. TypeOK' /\ WriterInv' /\ DeleteNodeListsAll'
    BY <2>1, <2>a DEF WriterPC, WriterInv, DeleteNodeListsAll
  <2>4. Settled' = Settled
    BY DEF Settled
  <2>5. IndexSound' /\ IndexComplete' /\ ReaderInv'
    BY <2>1, <2>2, <2>4, <2>a DEF IndexSound, IndexComplete, ReaderInv, Touches, Settled
  <2> QED  BY <2>3, <2>5
<1>12. ASSUME NEW id \in Ids, NeighborsStart(id) PROVE IInv'
  <2> USE <1>12 DEF NeighborsStart, store, writer, TypeOK
  <2>1. Settled' = Settled /\ Settled \subseteq Edge
    BY DEF Settled
  <2>2. \A e \in Settled : Touches(e, id) => e \in NeighborKeys(neighbors, id)
    BY DEF IndexComplete, Touches
  <2>3. TypeOK' /\ IndexSound' /\ IndexComplete'
    BY <2>1, KeysAreEdges DEF IndexSound, IndexComplete
  <2>4. WriterInv' /\ DeleteNodeListsAll'
    BY DEF WriterInv, DeleteNodeListsAll, EdgeBeingDeleted
  <2>5. \A e \in NeighborKeys(neighbors, id) : Touches(e, id)
    BY DEF IndexSound
  <2>6. ReaderInv'
    BY <2>1, <2>2, <2>5 DEF ReaderInv
  <2> QED  BY <2>3, <2>4, <2>6
<1>13. ASSUME NeighborsGetEdge PROVE IInv'
  <2> USE <1>13 DEF NeighborsGetEdge, store, writer, TypeOK
  <2>1. Settled' = Settled /\ Settled \subseteq edges
    BY DEF Settled
  <2>2. TypeOK' /\ IndexSound' /\ IndexComplete' /\ ReaderInv'
    BY <2>1 DEF IndexSound, IndexComplete, ReaderInv
  <2>3. WriterInv' /\ DeleteNodeListsAll'
    BY DEF WriterInv, DeleteNodeListsAll, EdgeBeingDeleted
  <2> QED  BY <2>2, <2>3
<1>14. ASSUME NeighborsReturn PROVE IInv'
  BY <1>14 DEF NeighborsReturn, store, writer, TypeOK, IndexSound, IndexComplete, WriterInv,
     DeleteNodeListsAll, ReaderInv, Settled, EdgeBeingDeleted
<1>15. ASSUME UNCHANGED vars PROVE IInv'
  BY <1>15 DEF vars, store, writer, reader, TypeOK, IndexSound, IndexComplete, WriterInv,
     DeleteNodeListsAll, ReaderInv, Settled, EdgeBeingDeleted
<1> QED
  BY <1>1, <1>2, <1>3, <1>4, <1>5, <1>6, <1>7, <1>8, <1>9, <1>10, <1>11, <1>12, <1>13,
     <1>14, <1>15 DEF Next, Writer, Reader

\* Every reachable state of the kernel satisfies the inductive invariant.
THEOREM KernelInvariant == Spec => []IInv
  BY InitIInv, NextIInv, PTL DEF Spec

\* The maps of the store and the local state of the writer and the reader have
\* their types.
THEOREM KernelTypeCorrect == Spec => []TypeOK
<1>1. IInv => TypeOK
  BY DEF IInv
<1> QED  BY <1>1, KernelInvariant, PTL

\* Kernel's index names only edges of the store that touch the node, at every
\* step of every write.
THEOREM KernelIndexSound == Spec => []IndexSound
<1>1. IInv => IndexSound
  BY DEF IInv
<1> QED  BY <1>1, KernelInvariant, PTL

\* Kernel's index misses no edge of the store whose deletion has not begun.
THEOREM KernelIndexComplete == Spec => []IndexComplete
<1>1. IInv => IndexComplete
  BY DEF IInv
<1> QED  BY <1>1, KernelInvariant, PTL

\* Kernel.Neighbors, run with no lock against a writer, misses no edge that stays.
THEOREM NeighborsComplete == Spec => []NeighborsReturnsStableEdges
<1>1. IInv => NeighborsReturnsStableEdges
  BY DEF IInv, ReaderInv, NeighborsReturnsStableEdges
<1> QED  BY <1>1, KernelInvariant, PTL

\* The step of Kernel.DeleteNode that removes the node leaves no edge touching it.
THEOREM DeleteNodeClean == Spec => DeleteNodeLeavesNoEdge
<1> DEFINE Clean == \A id \in Ids : id \in nodes /\ id \notin nodes' =>
                        \A e \in edges' : ~Touches(e, id)
<1>1. IInv /\ [Next]_vars => [Clean]_vars
  <2> SUFFICES ASSUME IInv, Next, NEW id \in Ids, id \in nodes, id \notin nodes',
                      NEW e \in edges'
               PROVE  ~Touches(e, id)
    BY DEF Clean
  <2>1. DeleteNodeDrop
    BY DEF Next, Writer, Reader, UpsertNode, DeleteNode, UpsertEdge, DeleteEdge,
           UpsertEdgeAddFrom, UpsertEdgeAddTo, DeleteEdgeRemoveFrom, DeleteEdgeRemoveTo,
           DeleteEdgeDrop, DeleteNodeNextEdge, BeginDeleteEdge, StoreUpsertEdge,
           StoreDeleteEdge, NeighborsStart, NeighborsGetEdge, NeighborsReturn, store
  <2>2. id = wnode /\ wpending = {} /\ wpc = "nextEdge" /\ e \in edges
    BY <2>1 DEF DeleteNodeDrop, StoreDeleteNode
  <2> QED  BY <2>2, NoneAssumption DEF IInv, DeleteNodeListsAll, EdgeBeingDeleted
<1> QED  BY <1>1, KernelInvariant, PTL DEF Spec, DeleteNodeLeavesNoEdge

-----------------------------------------------------------------------------
\* Every step of the kernel's writer or reader is a step of SharedGraph, or
\* changes nothing of what SharedGraph shows.
LEMMA NextPromise == IInv /\ [Next]_vars => [Promise!Write \/ Promise!Read]_Promise!sharedVars
<1> SUFFICES ASSUME IInv, [Next]_vars PROVE [Promise!Write \/ Promise!Read]_Promise!sharedVars
  OBVIOUS
<1> USE NoneAssumption DEF IInv, TypeOK
<1> DEFINE Leaving == edges \ Settled
           Same == UNCHANGED <<nodes, edges, Leaving, rid, rstable, rgot>>
           Some == Promise!Write \/ Promise!Read
<1>a. Same => UNCHANGED Promise!sharedVars
  BY DEF Promise!sharedVars, Promise!graph, Promise!read
<1>b. Settled \subseteq edges /\ edges \ Leaving = Settled /\ edges' \ Leaving' = Settled'
  BY DEF Settled
<1>c. WriterStep => Promise!Written
  BY <1>b DEF WriterStep, reader, Promise!Written, Promise!Staying
<1>d. WriterStep /\ Settled' = Settled => UNCHANGED <<rid, rstable, rgot>>
  BY DEF WriterStep, reader, ReaderInv
<1>1. ASSUME NEW id \in Ids, UpsertNode(id) PROVE Some
  <2>1. Leaving' = Leaving
    BY <1>1 DEF UpsertNode, writer, Settled
  <2>2. Promise!AddNode(id)
    BY <1>1, <1>c, <2>1 DEF UpsertNode, Promise!AddNode
  <2> QED  BY <2>2 DEF Promise!Write
<1>2. ASSUME NEW id \in Ids, DeleteNode(id) PROVE Same
  <2>1. Settled' = Settled
    BY <1>2 DEF DeleteNode, store, Settled
  <2> QED  BY <1>2, <1>d, <2>1 DEF DeleteNode, store
<1>3. ASSUME NEW e \in Edge, UpsertEdge(e) PROVE Some
  <2>1. Leaving = {} /\ Leaving' = {}
    BY <1>3 DEF UpsertEdge, Settled
  <2>2. Promise!AddEdge(e)
    BY <1>3, <1>c, <2>1 DEF UpsertEdge, StoreUpsertEdge, Promise!AddEdge
  <2> QED  BY <2>2 DEF Promise!Write, Promise!Edge, Edge
<1>4. ASSUME NEW e \in Edge, BeginDeleteEdge(e), WriterStep, wpc \in {"idle", "nextEdge"}
      PROVE  Some \/ Same
  <2>1. Settled = edges /\ Settled' = edges \ {e} /\ edges' = edges /\ nodes' = nodes
    BY <1>4 DEF BeginDeleteEdge, store, Settled
  <2>2. CASE e \in edges
    <3>1. Leaving = {} /\ Leaving' = {e}
      BY <2>1, <2>2
    <3>2. Promise!BeginRemoveEdge(e)
      BY <1>4, <1>c, <2>1, <2>2, <3>1 DEF Promise!BeginRemoveEdge
    <3> QED  BY <3>2 DEF Promise!Write, Promise!Edge, Edge
  <2>3. CASE e \notin edges
    <3>1. Settled' = Settled
      BY <2>1, <2>3
    <3> QED  BY <1>4, <1>d, <2>1, <3>1
  <2> QED  BY <2>2, <2>3
<1>5. ASSUME UpsertEdgeAddFrom \/ UpsertEdgeAddTo PROVE Same
  <2>1. Settled' = Settled /\ WriterStep /\ UNCHANGED <<nodes, edges>>
    BY <1>5 DEF UpsertEdgeAddFrom, UpsertEdgeAddTo, Settled
  <2> QED  BY <1>d, <2>1
<1>6. ASSUME DeleteEdgeRemoveFrom \/ DeleteEdgeRemoveTo PROVE Same
  <2>1. Settled' = Settled /\ WriterStep /\ UNCHANGED <<nodes, edges>>
    BY <1>6 DEF DeleteEdgeRemoveFrom, DeleteEdgeRemoveTo, Settled
  <2> QED  BY <1>d, <2>1
<1>7. ASSUME DeleteEdgeDrop PROVE Some \/ Same
  <2>1. wedge \in Edge /\ Settled = edges \ {wedge} /\ Settled' = edges \ {wedge}
        /\ edges' = edges \ {wedge} /\ nodes' = nodes /\ WriterStep
    BY <1>7 DEF DeleteEdgeDrop, StoreDeleteEdge, Settled, WriterInv, EdgeBeingDeleted
  <2>2. CASE wedge \in edges
    <3>1. Leaving = {wedge} /\ Leaving' = {}
      BY <2>1, <2>2
    <3>2. Promise!EndRemoveEdge(wedge)
      BY <1>c, <2>1, <2>2, <3>1 DEF Promise!EndRemoveEdge
    <3> QED  BY <2>1, <3>2 DEF Promise!Write, Promise!Edge, Edge
  <2>3. CASE wedge \notin edges
    <3>1. Settled' = Settled /\ edges' = edges
      BY <2>1, <2>3
    <3> QED  BY <1>d, <2>1, <3>1
  <2> QED  BY <2>2, <2>3
<1>8. ASSUME DeleteNodeNextEdge PROVE Some \/ Same
  <2>1. PICK e \in wpending : BeginDeleteEdge(e)
    BY <1>8 DEF DeleteNodeNextEdge
  <2>2. e \in Edge /\ WriterStep /\ wpc = "nextEdge"
    BY <1>8 DEF DeleteNodeNextEdge
  <2> QED  BY <1>4, <2>1, <2>2
<1>9. ASSUME DeleteNodeDrop PROVE Some
  <2>1. wnode \in Ids /\ \A e \in edges : ~Touches(e, wnode)
    BY <1>9 DEF DeleteNodeDrop, WriterInv, DeleteNodeListsAll, EdgeBeingDeleted
  <2>2. Leaving' = Leaving
    BY <1>9 DEF DeleteNodeDrop, StoreDeleteNode, Settled
  <2>3. Promise!RemoveNode(wnode)
    BY <1>9, <1>c, <2>1, <2>2
       DEF DeleteNodeDrop, StoreDeleteNode, Promise!RemoveNode, Promise!Touches, Touches
  <2> QED  BY <2>1, <2>3 DEF Promise!Write
<1>10. ASSUME NEW id \in Ids, NeighborsStart(id) PROVE Some
  <2>1. Leaving' = Leaving
    BY <1>10 DEF NeighborsStart, store, writer, Settled
  <2>2. Promise!BeginRead(id)
    BY <1>10, <1>b, <2>1 DEF NeighborsStart, store, Promise!BeginRead, Promise!Staying,
       Promise!graph, Promise!Touches, Touches
  <2> QED  BY <2>2 DEF Promise!Read
<1>11. ASSUME NeighborsGetEdge PROVE Some \/ Same
  <2>1. PICK key \in rkeys : rgot' = rgot \cup ({key} \cap edges)
    BY <1>11 DEF NeighborsGetEdge
  <2>2. UNCHANGED <<nodes, edges, Leaving, rid, rstable>>
    BY <1>11 DEF NeighborsGetEdge, store, writer, Settled
  <2>3. CASE key \in edges
    <3>1. Promise!Collect
      BY <2>1, <2>2, <2>3 DEF Promise!Collect, Promise!graph, ReaderInv, Promise!Touches, Touches
    <3> QED  BY <3>1 DEF Promise!Read
  <2>4. CASE key \notin edges
    BY <2>1, <2>2, <2>4
  <2> QED  BY <2>3, <2>4
<1>12. ASSUME NeighborsReturn PROVE Some
  <2>1. Leaving' = Leaving
    BY <1>12 DEF NeighborsReturn, store, writer, Settled
  <2>2. Promise!EndRead
    BY <1>12, <2>1 DEF NeighborsReturn, store, ReaderInv, Promise!EndRead, Promise!graph
  <2> QED  BY <2>2 DEF Promise!Read
<1>13. ASSUME UNCHANGED vars PROVE Same
  BY <1>13 DEF vars, store, writer, reader, Settled
<1>14. ASSUME NEW e \in Edge, DeleteEdge(e) PROVE Some \/ Same
  BY <1>4, <1>14 DEF DeleteEdge
<1> QED
  <2>1. Some \/ Same
    BY <1>1, <1>2, <1>3, <1>5, <1>6, <1>7, <1>8, <1>9, <1>10, <1>11, <1>12, <1>13, <1>14
       DEF Next, Writer, Reader
  <2> HIDE DEF Same
  <2> QED  BY <1>a, <2>1

\* To goroutines that share it without a lock the kernel is the graph SharedGraph
\* describes, for any ids and kinds and any interleaving of its store calls.
THEOREM KernelImplementsSharedGraph == Spec => ImplementsSharedGraph
<1>1. Init => Promise!SharedInit
  BY DEF Init, Promise!SharedInit, Settled
<1> QED
  BY <1>1, NextPromise, KernelInvariant, PTL DEF Spec, ImplementsSharedGraph, Promise!SharedSpec

=============================================================================
