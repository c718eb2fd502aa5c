--------------------------- MODULE LiveGraphProofs ---------------------------
(***************************************************************************)
(* LiveGraph for every cluster: the graph's images and pods are in order   *)
(* at every moment, and in clusters whose scoped updates do not overlap    *)
(* its nodes are those of a rebuild once every event has been applied.     *)
(***************************************************************************)
EXTENDS LiveGraph, ReconcilersProofs, WalkProofs, FiniteSetTheorems

-----------------------------------------------------------------------------
(* The objects of the cluster *)

\* What the collector lists, by its position.
LEMMA ListsByPosition ==
    /\ DOMAIN CollectOrder = 1..21
    /\ \A i, k \in DOMAIN CollectOrder : CollectOrder[i] = CollectOrder[k] => i = k
<1>1. DOMAIN CollectOrder = 1..21
  BY DEF CollectOrder
<1>2. ASSUME NEW i \in 1..21, NEW k \in 1..21, CollectOrder[i] = CollectOrder[k]
      PROVE  i = k
  BY <1>2 DEF CollectOrder
<1> QED BY <1>1, <1>2

\* No list call returns images.
LEMMA KindsListed ==
    ASSUME NEW src \in ListedAs
    PROVE  /\ NodeKind(src) # "Image"
           /\ NodeKind(src) \in {"Pod", "Service", "Event"} => src = NodeKind(src)
<1>1. src # "Image"
  BY DEF ListedAs, CollectOrder
<1>2. NodeKind(src) \in {"Workload", "PVC", "PV", src}
  BY Zenon DEF NodeKind
<1> QED BY <1>1, <1>2

\* Objects like those of the templates.
LEMMA Shapes ==
    ASSUME NEW o, LikeTemplate(o)
    PROVE  /\ o.src \in ListedAs /\ o.kind = NodeKind(o.src)
           /\ o.ns \in Namespaces /\ o.name \in STRING
           /\ o.kind = "Pod" => o.images \subseteq STRING
           /\ o.kind = "StorageClass" => o.provisioner \in STRING
BY ObjectsAssumption DEF LikeTemplate, Namespaces

\* An object made of a template is like it.
LEMMA StampShape ==
    ASSUME NEW t \in Templates, NEW uid
    PROVE  LET o == Stamp(t, uid)
           IN  LikeTemplate(o) /\ o.uid = uid /\ SameKey(o, t) /\ o.kind = t.kind
<1> DEFINE o == Stamp(t, uid)
<1>0. {"kind", "src", "ns", "name", "uid"} \subseteq DOMAIN t
  BY ObjectsAssumption
<1>1. o.kind = t.kind /\ o.src = t.src /\ o.ns = t.ns /\ o.name = t.name /\ o.uid = uid
  <2>1. o.kind = t.kind
    BY <1>0, Zenon DEF Stamp
  <2>2. o.src = t.src
    BY <1>0, Zenon DEF Stamp
  <2>3. o.ns = t.ns
    BY <1>0, Zenon DEF Stamp
  <2>4. o.name = t.name
    BY <1>0, Zenon DEF Stamp
  <2>5. o.uid = uid
    BY <1>0, Zenon DEF Stamp
  <2> QED BY <2>1, <2>2, <2>3, <2>4, <2>5
<1>2. /\ "images" \in DOMAIN t => o.images = t.images
      /\ "node" \in DOMAIN t => o.node = t.node
      /\ "pvcs" \in DOMAIN t => o.pvcs = t.pvcs
  <2>1. "images" \in DOMAIN t => o.images = t.images
    BY Zenon DEF Stamp
  <2>2. "node" \in DOMAIN t => o.node = t.node
    BY Zenon DEF Stamp
  <2>3. "pvcs" \in DOMAIN t => o.pvcs = t.pvcs
    BY Zenon DEF Stamp
  <2> QED BY <2>1, <2>2, <2>3
<1>3. "provisioner" \in DOMAIN t => o.provisioner = t.provisioner
  BY Zenon DEF Stamp
<1>4. ASSUME t.kind = "ReplicaSet", NEW r \in o.owners PROVE r.name \in STRING
  <2>1. "owners" \in DOMAIN t /\ \A x \in t.owners : "name" \in DOMAIN x /\ x.name \in STRING
    BY <1>4, ObjectsAssumption
  <2>2. o.owners = {[x EXCEPT !.uid = LiveUid(x.kind, t.ns, x.name)] : x \in t.owners}
    BY <2>1, Zenon DEF Stamp
  <2>3. PICK x \in t.owners : r = [x EXCEPT !.uid = LiveUid(x.kind, t.ns, x.name)]
    BY <2>2, <1>4, Zenon
  <2>4. r.name = x.name
    BY <2>1, <2>3, Zenon
  <2> QED BY <2>1, <2>4
<1>5. ASSUME t.kind = "Event" PROVE o.involved.kind = t.involved.kind
  <2>1. "involved" \in DOMAIN t /\ "kind" \in DOMAIN t.involved
    BY <1>5, ObjectsAssumption
  <2>2. o.involved = [t.involved EXCEPT !.uid = LiveUid(t.involved.kind, t.ns, t.involved.name)]
    BY <2>1, Zenon DEF Stamp
  <2> QED BY <2>1, <2>2, Zenon
<1> HIDE DEF o
<1>6. LikeTemplate(o)
  BY <1>1, <1>2, <1>3, <1>4, <1>5, ObjectsAssumption DEF LikeTemplate
<1> QED BY <1>1, <1>6 DEF o, SameKey

\* A canonical id of parts of the right types.
LEMMA IDTyped ==
    ASSUME NEW kind \in {NodeKind(src) : src \in ListedAs} \cup {"Image"},
           NEW src \in ListedAs \cup {"Image"}, NEW ns \in Namespaces, NEW name \in STRING,
           NEW m \in Nat, NEW uid \in 0..m
    PROVE  CanonicalID(kind, src, ns, name, uid) \in NodeID
             /\ CanonicalID(kind, src, ns, name, uid).uid \in 0..m
<1> DEFINE KindsOf == {NodeKind(x) : x \in ListedAs} \cup {"Image"}
<1>0. NodeID = [kind : KindsOf, src : ListedAs \cup {"Image"}, ns : Namespaces, name : STRING, uid : Nat]
  BY DEF NodeID
<1>1. kind \in KindsOf
  OBVIOUS
<1> HIDE DEF KindsOf
<1> QED BY <1>0, <1>1 DEF CanonicalID

\* The nodes of a rebuild are ids with uids that were given out.
LEMMA BuildTyped ==
    ASSUME NEW s, NEW m \in Nat, \A o \in s : LikeTemplate(o) /\ o.uid \in 1..m
    PROVE  /\ NoImages(s)
           /\ \A n \in BuildNodes(s) : n \in NodeID /\ n.uid \in 0..m
<1> DEFINE KindsOf == {NodeKind(src) : src \in ListedAs} \cup {"Image"}
<1>1. ASSUME NEW o \in s PROVE o.kind # "Image" /\ ID(o) \in NodeID /\ ID(o).uid \in 0..m
  <2>1. /\ o.src \in ListedAs /\ o.kind = NodeKind(o.src) /\ o.kind # "Image"
        /\ o.ns \in Namespaces /\ o.name \in STRING /\ o.uid \in 1..m
    BY Shapes, KindsListed
  <2>2. o.kind \in KindsOf
    BY <2>1
  <2>3. o.uid \in 0..m /\ o.src \in ListedAs \cup {"Image"}
    BY <2>1
  <2>4. ID(o) \in NodeID /\ ID(o).uid \in 0..m
    BY <2>1, <2>2, <2>3, IDTyped, Zenon DEF ID
  <2> QED BY <2>1, <2>4
<1>2. ASSUME NEW p \in OfKind(s, "Pod"), NEW n \in ImageIDs(p)
      PROVE  n \in NodeID /\ n.uid \in 0..m
  <2>1. PICK i \in p.images : n = CanonicalID("Image", "Image", "", normalize(i), NoUid)
    BY Zenon DEF ImageIDs
  <2>2. i \in STRING
    BY <2>1, Shapes DEF OfKind
  <2>3. normalize(i) \in STRING
    BY <2>2, ObjectsAssumption DEF normalize
  <2>4. "" \in Namespaces /\ "Image" \in KindsOf
    BY DEF Namespaces
  <2>5. NoUid \in 0..m /\ "Image" \in ListedAs \cup {"Image"}
    BY DEF NoUid
  <2> QED BY <2>1, <2>3, <2>4, <2>5, IDTyped, Zenon
<1>3. ASSUME NEW n \in SyntheticDrivers(s) PROVE n \in NodeID /\ n.uid \in 0..m
  <2>1. PICK c \in OfKind(s, "StorageClass") :
            n = CanonicalID("CSIDriver", "CSIDriver", "", c.provisioner, NoUid)
    BY Zenon DEF SyntheticDrivers, csiDriverID
  <2>2. c.provisioner \in STRING
    BY Shapes DEF OfKind
  <2>3. "" \in Namespaces
    BY DEF Namespaces
  <2>4. "CSIDriver" \in ListedAs
    <3>1. CollectOrder[20] = "CSIDriver" /\ 20 \in DOMAIN CollectOrder
      BY DEF CollectOrder
    <3> QED BY <3>1 DEF ListedAs
  <2>5. NodeKind("CSIDriver") = "CSIDriver"
    BY Zenon DEF NodeKind
  <2>6. "CSIDriver" \in KindsOf
    BY <2>4, <2>5
  <2>7. NoUid \in 0..m /\ "CSIDriver" \in ListedAs \cup {"Image"}
    BY <2>4 DEF NoUid
  <2> QED BY <2>1, <2>2, <2>3, <2>6, <2>7, IDTyped, Zenon
<1>4. \A n \in BuildNodes(s) : n \in NodeID /\ n.uid \in 0..m
  BY <1>1, <1>2, <1>3 DEF BuildNodes, IDs
<1> QED BY <1>1, <1>4 DEF NoImages

-----------------------------------------------------------------------------
(* IInv: the first states *)

\* The first states: a bootstrapped graph, no event and no collect.
LEMMA InitIInv ==
    Init => IInv
<1> SUFFICES ASSUME Init PROVE IInv
  OBVIOUS
<1>1. Cardinality(Initial) \in Nat
  BY ObjectsAssumption, FS_CardinalityType
<1>2. \A o \in Initial : LikeTemplate(o)
  BY ObjectsAssumption DEF LikeTemplate
<1>3. \A o \in cluster : LikeTemplate(o) /\ o.uid \in 1..changes
  BY <1>2, ObjectsAssumption DEF Init
<1>4. PICK pick \in WebhookPicks(Initial, Webhooks(Initial)) : g = Build(Initial, pick)
  BY DEF Init
<1>5. g.nodes = BuildNodes(cluster) /\ g.edges = BuildEdges(cluster, pick)
  BY <1>4 DEF Build, Graph, Init
<1>6. NoImages(cluster) /\ \A n \in BuildNodes(cluster) : n \in NodeID /\ n.uid \in 0..changes
  BY <1>1, <1>3, BuildTyped DEF Init
<1>7. ImageGraph(g)
  BY <1>4, <1>6, BuildImageGraph DEF Init
<1>8. OnePodPerName
  <2> SUFFICES ASSUME NEW m \in g.nodes, NEW n \in g.nodes, m.kind = "Pod", n.kind = "Pod",
                      m.ns = n.ns, m.name = n.name
               PROVE  m = n
    BY DEF OnePodPerName, NodesOfKinds
  <2>1. "Pod" \notin StorageKinds \cup {"Image"}
    BY DEF StorageKinds
  <2>2. PICK o \in cluster : m = ID(o)
    BY <1>5, <1>6, <2>1, BuildKinds DEF IDs
  <2>3. PICK x \in cluster : n = ID(x)
    BY <1>5, <1>6, <2>1, BuildKinds DEF IDs
  <2>4. o.kind = "Pod" /\ x.kind = "Pod" /\ o.ns = x.ns /\ o.name = x.name
    BY <2>2, <2>3, ObjectID
  <2>5. o.src = "Pod" /\ x.src = "Pod"
    BY <1>3, <2>4, Shapes, KindsListed
  <2>6. o = x
    BY <2>4, <2>5, ObjectsAssumption DEF SameKey, Init
  <2> QED BY <2>2, <2>3, <2>6
<1>9. TypeOK
  <2>1. changes <= MaxChanges + Cardinality(Initial)
    BY <1>1, ObjectsAssumption DEF Init
  <2>2. \A e \in g.edges : e.from \in NodeID /\ e.to \in NodeID
    BY <1>4, <1>5, <1>6, BuildClosed DEF Init
  <2>3. \A o, x \in cluster : SameKey(o, x) => o = x
    BY ObjectsAssumption DEF Init
  <2> QED BY <1>3, <1>5, <1>6, <2>1, <2>2, <2>3 DEF TypeOK, Init
<1>10. ObjectsInv
  <2>1. pending \in [Informers -> Seq(ChangeEvent)]
    BY DEF Init
  <2>2. changes \in Nat /\ current \in ChangeEvent \cup {NoEvent} /\ collected = {}
    BY <1>1 DEF Init
  <2> QED BY <1>3, <2>1, <2>2 DEF ObjectsInv
<1> QED BY <1>7, <1>8, <1>9, <1>10 DEF IInv

-----------------------------------------------------------------------------
(* IInv: steps of the cluster *)

\* Objects of one source are of one kind and have events of one kind.
LEMMA KindOfSource ==
    ASSUME NEW o, NEW x, LikeTemplate(o), LikeTemplate(x), o.src = x.src
    PROVE  o.kind = x.kind /\ informerChangeKind(o) = informerChangeKind(x)
<1>1. o.kind = x.kind
  BY Shapes
<1> QED BY <1>1, Zenon DEF informerChangeKind

\* What an informer hands over is a change event.
LEMMA EventTyped ==
    ASSUME NEW o, LikeTemplate(o), o.src \in Informers, NEW change \in {"upsert", "delete"}
    PROVE  changeEventForInformerObject(o, change) \in ChangeEvent
<1>1. PICK t \in Templates \cup Initial : t.src = o.src /\ informerChangeKind(t) # ""
  BY DEF Informers
<1>2. LikeTemplate(t)
  BY ObjectsAssumption DEF LikeTemplate
<1>3. informerChangeKind(o) # ""
  BY <1>1, <1>2, KindOfSource
<1>4. informerChangeKind(o) \in ChangeKinds \cup {""}
  BY Zenon DEF informerChangeKind, ChangeKinds
<1>5. EventName(o) \in STRING
  BY Shapes DEF LikeTemplate, EventName
<1>6. o.ns \in Namespaces
  BY Shapes
<1> QED BY <1>3, <1>4, <1>5, <1>6 DEF changeEventForInformerObject, ChangeEvent

\* Its queue keeps its type.
LEMMA EnqueueTyped ==
    ASSUME ObjectsInv, NEW o, LikeTemplate(o), NEW change \in {"upsert", "delete"},
           enqueueInformerEvent(o, change)
    PROVE  pending' \in [Informers -> Seq(ChangeEvent)]
<1>1. pending \in [Informers -> Seq(ChangeEvent)]
  BY DEF ObjectsInv
<1>2. CASE o.src \in Informers
  <2> DEFINE ev == changeEventForInformerObject(o, change)
             q == Append(pending[o.src], ev)
  <2>1. pending' = [pending EXCEPT ![o.src] = q]
    BY <1>2 DEF enqueueInformerEvent
  <2>2. ev \in ChangeEvent
    BY <1>2, EventTyped
  <2> HIDE DEF ev
  <2>3. q \in Seq(ChangeEvent)
    BY <1>1, <1>2, <2>2
  <2> HIDE DEF q
  <2> QED BY <1>1, <2>1, <2>3
<1>3. CASE o.src \notin Informers
  BY <1>1, <1>3 DEF enqueueInformerEvent
<1> QED BY <1>2, <1>3

\* A change of the cluster that keeps its objects in order keeps the rest.
LEMMA ChangeIInv ==
    ASSUME IInv, Change, UNCHANGED <<current, collecting, failures, g>>,
           pending' \in [Informers -> Seq(ChangeEvent)],
           \A o \in cluster' : LikeTemplate(o) /\ o.uid \in 1..changes',
           \A o, x \in cluster' : SameKey(o, x) => o = x
    PROVE  IInv'
<1>1. changes \in Nat /\ changes' = changes + 1 /\ changes' <= MaxChanges + Cardinality(Initial)
  <2>1. Cardinality(Initial) \in Nat /\ MaxChanges \in Nat
    BY ObjectsAssumption, FS_CardinalityType
  <2> QED BY <2>1 DEF IInv, ObjectsInv, Change
<1>2. UNCHANGED <<current, strategy, todo, collected, g>>
  BY DEF collecting
<1>3. TypeOK'
  <2>1. \A n \in g.nodes : n \in NodeID /\ n.uid \in 0..changes'
    BY <1>1 DEF IInv, TypeOK
  <2> QED BY <1>1, <1>2, <2>1 DEF IInv, TypeOK
<1>4. ObjectsInv'
  <2>1. \A o \in collected : LikeTemplate(o) /\ o.uid \in 1..changes'
    BY <1>1 DEF IInv, ObjectsInv
  <2>2. ToList' = ToList
    BY <1>2 DEF ToList
  <2> QED BY <1>1, <1>2, <2>1, <2>2 DEF IInv, ObjectsInv
<1>5. ImageGraph(g)' /\ OnePodPerName'
  BY <1>2 DEF IInv, OnePodPerName
<1> QED BY <1>3, <1>4, <1>5 DEF IInv

\* IInv is kept by the cluster.
LEMMA ClusterIInv ==
    ASSUME IInv, Cluster
    PROVE  IInv'
<1>0. /\ ObjectsInv /\ changes \in Nat
      /\ \A o \in cluster : LikeTemplate(o) /\ o.uid \in 1..changes
      /\ \A o, x \in cluster : SameKey(o, x) => o = x
  BY DEF IInv, ObjectsInv, TypeOK
<1>1. ASSUME NEW t \in Templates, CreateObject(t) PROVE IInv'
  <2> DEFINE o == Stamp(t, changes')
  <2>1. LikeTemplate(o) /\ o.uid = changes' /\ SameKey(o, t)
    BY StampShape
  <2>2. /\ Change /\ cluster' = cluster \cup {o} /\ enqueueInformerEvent(o, "upsert")
        /\ \A x \in cluster : ~SameKey(x, t)
        /\ UNCHANGED <<current, collecting, failures, g>>
    BY <1>1 DEF CreateObject
  <2> HIDE DEF o
  <2>3. \A x \in cluster' : LikeTemplate(x) /\ x.uid \in 1..changes'
    BY <1>0, <2>1, <2>2 DEF Change
  <2>4. \A x, y \in cluster' : SameKey(x, y) => x = y
    BY <1>0, <2>1, <2>2 DEF SameKey
  <2> QED BY <1>0, <2>1, <2>2, <2>3, <2>4, EnqueueTyped, ChangeIInv
<1>2. ASSUME NEW o \in cluster, NEW t \in Templates, UpdateObject(o, t) PROVE IInv'
  <2> DEFINE n == Stamp(t, o.uid)
  <2>1. LikeTemplate(n) /\ n.uid = o.uid /\ SameKey(n, t)
    BY StampShape
  <2>2. /\ Change /\ cluster' = (cluster \ {o}) \cup {n} /\ enqueueInformerEvent(n, "upsert")
        /\ SameKey(o, t)
        /\ UNCHANGED <<current, collecting, failures, g>>
    BY <1>2 DEF UpdateObject
  <2> HIDE DEF n
  <2>3. \A x \in cluster' : LikeTemplate(x) /\ x.uid \in 1..changes'
    BY <1>0, <2>1, <2>2 DEF Change
  <2>4. \A x, y \in cluster' : SameKey(x, y) => x = y
    BY <1>0, <2>1, <2>2 DEF SameKey
  <2> QED BY <1>0, <2>1, <2>2, <2>3, <2>4, EnqueueTyped, ChangeIInv
<1>3. ASSUME NEW o \in cluster, DeleteObject(o) PROVE IInv'
  <2>1. /\ Change /\ cluster' = cluster \ {o} /\ enqueueInformerEvent(o, "delete")
        /\ UNCHANGED <<current, collecting, failures, g>>
    BY <1>3 DEF DeleteObject
  <2>2. \A x \in cluster' : LikeTemplate(x) /\ x.uid \in 1..changes'
    BY <1>0, <2>1 DEF Change
  <2>3. \A x, y \in cluster' : SameKey(x, y) => x = y
    BY <1>0, <2>1
  <2> QED BY <1>0, <2>1, <2>2, <2>3, EnqueueTyped, ChangeIInv
<1> QED BY <1>1, <1>2, <1>3 DEF Cluster

-----------------------------------------------------------------------------
(* IInv: steps of the manager *)

\* Taking an event, or starting the collect over, keeps IInv.
LEMMA CollectIInv ==
    ASSUME IInv, UNCHANGED <<cluster, changes, g>>,
           StartCollect("narrow") \/ StartCollect("full"),
           current' \in ChangeEvent, pending' \in [Informers -> Seq(ChangeEvent)]
    PROVE  IInv'
<1>1. UNCHANGED <<cluster, changes, g>> /\ todo' = Lists /\ collected' = {}
        /\ strategy' \in {"narrow", "full"}
  BY DEF StartCollect
<1>2. current' # NoEvent
  <2>1. current'.kind \in ChangeKinds
    BY DEF ChangeEvent
  <2>2. NoEvent.kind \notin ChangeKinds
    BY DEF NoEvent, ChangeKinds
  <2> QED BY <2>1, <2>2
<1>3. TypeOK'
  BY <1>1, <1>2 DEF IInv, TypeOK
<1>4. ObjectsInv'
  BY <1>1 DEF IInv, ObjectsInv
<1>5. ImageGraph(g)' /\ OnePodPerName'
  BY <1>1 DEF IInv, OnePodPerName
<1> QED BY <1>3, <1>4, <1>5 DEF IInv

\* The list read next is one that is still to be read.
LEMMA NextList ==
    ASSUME IInv, todo # {}
    PROVE  LET i == CHOOSE x \in todo : \A y \in todo : x <= y
           IN  i \in todo /\ i \in DOMAIN CollectOrder
<1>1. todo \subseteq DOMAIN CollectOrder
  BY DEF IInv, TypeOK, Lists
<1>2. todo \in SUBSET Nat
  BY <1>1, ListsByPosition
<1>3. \E x \in todo : \A y \in todo : x <= y
  BY <1>2, LeastNatural
<1> QED BY <1>1, <1>3

\* Reading a list keeps IInv: no list before it had objects of that source.
LEMMA CollectListIInv ==
    ASSUME IInv, CollectList
    PROVE  IInv'
<1> DEFINE i == CHOOSE x \in todo : \A y \in todo : x <= y
           new == {o \in cluster : o.src = CollectOrder[i]}
<1>1. i \in todo /\ i \in DOMAIN CollectOrder
  BY NextList DEF CollectList
<1>2. /\ collected' = collected \cup new /\ todo' = todo \ {i}
      /\ UNCHANGED <<cluster, changes, pending, current, strategy, g>> /\ current # NoEvent
  BY DEF CollectList, stream
<1> HIDE DEF i
<1>3. todo \subseteq DOMAIN CollectOrder
  BY DEF IInv, TypeOK, Lists
<1>4. TypeOK'
  <2>1. \A o \in collected' : \E l \in Lists \ todo' : o.src = CollectOrder[l]
    <3>1. i \in Lists \ todo' /\ \A o \in new : o.src = CollectOrder[i]
      BY <1>1, <1>2 DEF IInv, TypeOK
    <3>2. \A o \in collected : \E l \in Lists \ todo' : o.src = CollectOrder[l]
      BY <1>2 DEF IInv, TypeOK
    <3> HIDE DEF new
    <3> QED BY <1>2, <3>1, <3>2
  <2> QED BY <1>2, <2>1 DEF IInv, TypeOK
<1>5. \A o \in collected' : o.src \notin ToList'
  <2>1. \A o \in new : o.src \notin ToList'
    BY <1>1, <1>2, <1>3, ListsByPosition DEF ToList
  <2>2. ToList' \subseteq ToList
    BY <1>2 DEF ToList
  <2> QED BY <1>2, <2>1, <2>2 DEF IInv, ObjectsInv
<1>6. \A o, x \in collected' : SameKey(o, x) => o = x
  <2>1. CollectOrder[i] \in ToList
    BY <1>1 DEF ToList
  <2>2. \A o \in collected, x \in new : ~SameKey(o, x) /\ ~SameKey(x, o)
    BY <2>1 DEF IInv, ObjectsInv, SameKey
  <2>3. \A o, x \in new : SameKey(o, x) => o = x
    BY DEF IInv, TypeOK
  <2> QED BY <1>2, <2>2, <2>3 DEF IInv, ObjectsInv
<1>7. ObjectsInv'
  BY <1>2, <1>5, <1>6 DEF IInv, ObjectsInv
<1>8. ImageGraph(g)' /\ OnePodPerName'
  BY <1>2 DEF IInv, OnePodPerName
<1> QED BY <1>4, <1>7, <1>8 DEF IInv

\* What a snapshot is good for.
LEMMA SnapshotFacts ==
    ASSUME IInv
    PROVE  /\ NoImages(collected)
           /\ \A n \in BuildNodes(collected) : n \in NodeID /\ n.uid \in 0..changes
           /\ \A ns, name : \A K \in {"Pod", "Service", "Event"} :
                \A x, y \in Named(collected, K, ns, {name}) : x = y
<1>1. changes \in Nat /\ \A o \in collected : LikeTemplate(o) /\ o.uid \in 1..changes
  BY DEF IInv, ObjectsInv
<1>2. ASSUME NEW ns, NEW name, NEW K \in {"Pod", "Service", "Event"},
             NEW x \in Named(collected, K, ns, {name}), NEW y \in Named(collected, K, ns, {name})
      PROVE  x = y
  <2>1. x \in collected /\ y \in collected /\ x.kind = K /\ y.kind = K
          /\ x.ns = y.ns /\ x.name = y.name
    BY DEF Named, OfKind
  <2>2. x.src = K /\ y.src = K
    BY <1>1, <2>1, Shapes, KindsListed
  <2> QED BY <2>1, <2>2 DEF IInv, ObjectsInv, SameKey
<1> QED BY <1>1, <1>2, BuildTyped

\* The end of an Apply keeps IInv when the graph it leaves is in order.
LEMMA DoneIInv ==
    ASSUME IInv, Done, todo = {}, ImageGraph(g'), Grows(g, g', collected), OnePodPerName'
    PROVE  IInv'
<1>1. /\ UNCHANGED <<cluster, changes, pending, todo>> /\ current' = NoEvent
      /\ strategy' = "narrow" /\ collected' = {}
  BY DEF Done
<1>2. g'.nodes \subseteq g.nodes \cup BuildNodes(collected)
  BY DEF Grows
<1>3. \A n \in g'.nodes : n \in NodeID /\ n.uid \in 0..changes
  BY <1>2, SnapshotFacts DEF IInv, TypeOK
<1>4. \A e \in g'.edges : e.from \in NodeID /\ e.to \in NodeID
  BY SnapshotFacts DEF Grows, IInv, TypeOK
<1>5. TypeOK'
  BY <1>1, <1>3, <1>4 DEF IInv, TypeOK
<1>6. ObjectsInv'
  BY <1>1 DEF IInv, ObjectsInv
<1> QED BY <1>5, <1>6 DEF IInv

\* The six scoped applies.  Each keeps the images in order; each but the pod's keeps
\* the pods and the image edges.
LEMMA NarrowFacts ==
    ASSUME IInv, NEW ev \in ChangeEvent, NEW pick \in WebhookPicks(collected, Candidates(ev, collected))
    PROVE  LET H == NarrowApply(ev, collected, pick)
           IN  /\ ImageGraph(H) /\ Grows(g, H, collected)
               /\ ev.kind # "pod" =>
                    /\ \A n : n.kind = "Pod" => (n \in H.nodes <=> n \in g.nodes)
                    /\ EdgesOfKinds(H, {"uses_image"}) = EdgesOfKinds(g, {"uses_image"})
               /\ ev.kind = "pod" => PodOnly(g, H, collected, ev.ns, ev.name, ev.change)
               /\ ev.kind = "service" => ScopedUpdate(g, H, collected, "Service", ev.ns, ev.name, ev.change)
               /\ ev.kind = "event" => ScopedUpdate(g, H, collected, "Event", ev.ns, ev.name, ev.change)
               /\ ev.kind = "workload" => ScopedUpdate(g, H, collected, "Workload", ev.ns, ev.name, ev.change)
               /\ ev.kind = "storage" => CategoryUpdate(g, H, StorageKinds, StorageIDs(collected))
               /\ ev.kind = "identity/security" =>
                    CategoryUpdate(g, H, IdentityKinds, IdentityIDs(collected))
<1> DEFINE s == collected
           H == NarrowApply(ev, s, pick)
           W == Candidates(ev, s)
<1>0. /\ NoImages(s) /\ ImageGraph(g)
      /\ \A ns, name : \A K \in {"Pod", "Service", "Event"} : \A x, y \in Named(s, K, ns, {name}) : x = y
  BY SnapshotFacts DEF IInv
<1>1. W \in SUBSET Webhooks(s) /\ pick \in WebhookPicks(s, W)
  BY DEF Candidates, KnownWebhooks
<1>2. ASSUME NEW K \in {"Service", "Event"}, NEW ns, NEW name, NEW change,
             LeavesImages(g, H, s, {K}), ScopedUpdate(g, H, s, K, ns, name, change)
      PROVE  /\ ImageGraph(H) /\ Grows(g, H, s)
             /\ \A n : n.kind = "Pod" => (n \in H.nodes <=> n \in g.nodes)
             /\ EdgesOfKinds(H, {"uses_image"}) = EdgesOfKinds(g, {"uses_image"})
  BY <1>0, <1>2, LeavesImageGraph, ScopedGrows DEF LeavesImages
<1>3. ASSUME NEW K, NEW C \in SUBSET BuildNodes(s),
             LeavesImages(g, H, s, K), CategoryUpdate(g, H, K, C)
      PROVE  /\ ImageGraph(H) /\ Grows(g, H, s)
             /\ \A n : n.kind = "Pod" => (n \in H.nodes <=> n \in g.nodes)
             /\ EdgesOfKinds(H, {"uses_image"}) = EdgesOfKinds(g, {"uses_image"})
  BY <1>0, <1>3, LeavesImageGraph, CategoryGrows DEF LeavesImages
<1>4. CASE ev.kind = "service"
  <2>1. H = ApplyService(g, s, ev.ns, ev.name, ev.change)
    BY <1>4, Zenon DEF NarrowApply
  <2>2. LeavesImages(g, H, s, {"Service"}) /\ ScopedUpdate(g, H, s, "Service", ev.ns, ev.name, ev.change)
    BY <1>0, <2>1, ServiceUpdate
  <2> QED BY <1>2, <1>4, <2>2
<1>5. CASE ev.kind = "event"
  <2>1. H = ApplyEvent(g, s, ev.ns, ev.name, ev.change, pick)
    BY <1>5, Zenon DEF NarrowApply
  <2>2. LeavesImages(g, H, s, {"Event"}) /\ ScopedUpdate(g, H, s, "Event", ev.ns, ev.name, ev.change)
    BY <1>0, <1>1, <2>1, EventUpdate
  <2> QED BY <1>2, <1>5, <2>2
<1>6. CASE ev.kind = "storage"
  <2>1. H = ApplyStorage(g, s)
    BY <1>6, Zenon DEF NarrowApply
  <2>2. LeavesImages(g, H, s, StorageKinds) /\ CategoryUpdate(g, H, StorageKinds, StorageIDs(s))
    BY <1>0, <2>1, StorageUpdate
  <2>3. StorageIDs(s) \subseteq BuildNodes(s)
    BY <1>0, BuildKinds
  <2> QED BY <1>3, <1>6, <2>2, <2>3
<1>7. CASE ev.kind = "identity/security"
  <2>1. H = ApplyIdentitySecurity(g, s)
    BY <1>7, Zenon DEF NarrowApply
  <2>2. LeavesImages(g, H, s, IdentityKinds) /\ CategoryUpdate(g, H, IdentityKinds, IdentityIDs(s))
    BY <1>0, <2>1, IdentityUpdate
  <2>3. IdentityIDs(s) \subseteq BuildNodes(s)
    BY <1>0, BuildKinds
  <2> QED BY <1>3, <1>7, <2>2, <2>3
<1>8. CASE ev.kind = "pod"
  <2> DEFINE M == ApplyPod(g, s, ev.ns, ev.name, ev.change)
  <2>1. H = ApplyWorkloadControllerRules(M, s)
    BY <1>8, Zenon DEF NarrowApply
  <2>2. ImageGraph(M) /\ PodOnly(g, M, s, ev.ns, ev.name, ev.change)
    BY <1>0, PodUpdate
  <2> HIDE DEF M, H
  <2>3. LeavesImages(M, H, s, {}) /\ H.nodes = M.nodes
    BY <1>0, <2>1, <2>2, ControllerRulesUpdate
  <2>4. ImageGraph(H)
    BY <1>0, <2>2, <2>3, LeavesImageGraph
  <2>5. \A e : e.kind = "uses_image" => (e \in H.edges <=> e \in M.edges)
    BY <2>3 DEF LeavesImages, EdgesOfKinds
  <2>6. \A e \in H.edges : e \in M.edges \/ (e.from \in BuildNodes(s) /\ e.to \in BuildNodes(s))
    BY <2>3 DEF LeavesImages, Entities, BuildNodes
  <2>7. PodOnly(g, H, s, ev.ns, ev.name, ev.change)
    <3>1. NodesNamed(H, "Pod", ev.ns, ev.name) = NodesNamed(M, "Pod", ev.ns, ev.name)
      BY <2>3 DEF NodesNamed
    <3>2. \A p : UsedImages(H, {ID(p)}) = UsedImages(M, {ID(p)})
      BY <2>5 DEF UsedImages
    <3> QED BY <2>2, <2>3, <2>5, <2>6, <3>1, <3>2 DEF PodOnly
  <2> QED BY <1>0, <1>8, <2>4, <2>7, PodGrows DEF H
<1>9. CASE ev.kind = "workload"
  <2> DEFINE M == ApplyWorkload(g, s, ev.ns, ev.name, ev.change, pick)
  <2>1. H = ApplyWorkloadControllerRules(M, s)
    BY <1>9, Zenon DEF NarrowApply
  <2>2. /\ LeavesImages(g, M, s, {"Workload"})
        /\ ScopedUpdate(g, M, s, "Workload", ev.ns, ev.name, ev.change)
    BY <1>0, <1>1, WorkloadUpdate
  <2> HIDE DEF M, H
  <2>3. ImageGraph(M)
    BY <1>0, <2>2, LeavesImageGraph
  <2>4. LeavesImages(M, H, s, {}) /\ H.nodes = M.nodes
    BY <1>0, <2>1, <2>3, ControllerRulesUpdate
  <2>5. LeavesImages(g, H, s, {"Workload"})
    BY <2>2, <2>4 DEF LeavesImages
  <2>6. ScopedUpdate(g, H, s, "Workload", ev.ns, ev.name, ev.change)
    BY <2>2, <2>4 DEF ScopedUpdate, NodesNamed
  <2>7. Grows(g, H, s)
    BY <2>5, <2>6, ScopedGrows
  <2>8. ImageGraph(H)
    BY <1>0, <2>5, LeavesImageGraph
  <2>9. /\ \A n : n.kind = "Pod" => (n \in H.nodes <=> n \in g.nodes)
        /\ EdgesOfKinds(H, {"uses_image"}) = EdgesOfKinds(g, {"uses_image"})
    BY <2>5 DEF LeavesImages
  <2> QED BY <1>9, <2>6, <2>7, <2>8, <2>9 DEF H
<1> QED BY <1>4, <1>5, <1>6, <1>7, <1>8, <1>9 DEF ChangeEvent, ChangeKinds

\* A scoped apply keeps IInv.
LEMMA ApplyNarrowIInv ==
    ASSUME IInv, ApplyNarrow
    PROVE  IInv'
<1>1. PICK pick \in WebhookPicks(collected, Candidates(current, collected)) :
        g' = NarrowApply(current, collected, pick)
  BY DEF ApplyNarrow
<1>2. current \in ChangeEvent /\ Done /\ todo = {}
  BY DEF ApplyNarrow, IInv, ObjectsInv
<1>3. /\ ImageGraph(g') /\ Grows(g, g', collected)
      /\ current.kind # "pod" => \A n : n.kind = "Pod" => (n \in g'.nodes <=> n \in g.nodes)
      /\ current.kind = "pod" => PodOnly(g, g', collected, current.ns, current.name, current.change)
  BY <1>1, <1>2, NarrowFacts
<1>4. OnePodPerName'
  <2>1. CASE current.kind # "pod"
    BY <1>3, <2>1 DEF IInv, OnePodPerName, NodesOfKinds
  <2>2. CASE current.kind = "pod"
    <3> SUFFICES ASSUME NEW m \in g'.nodes, NEW n \in g'.nodes, m.kind = "Pod", n.kind = "Pod",
                        m.ns = n.ns, m.name = n.name
                 PROVE  m = n
      BY DEF OnePodPerName, NodesOfKinds
    <3> DEFINE found == Named(collected, "Pod", current.ns, {current.name})
    <3>1. CASE m.ns = current.ns /\ m.name = current.name
      <4>1. m \in IDs(found) /\ n \in IDs(found)
        BY <1>3, <2>2, <3>1 DEF PodOnly, NodesNamed
      <4>2. \A x, y \in found : x = y
        BY SnapshotFacts
      <4> HIDE DEF found
      <4> QED BY <4>1, <4>2 DEF IDs
    <3>2. CASE ~(m.ns = current.ns /\ m.name = current.name)
      <4>1. m \in g.nodes /\ n \in g.nodes
        BY <1>3, <2>2, <3>2 DEF PodOnly, Bears
      <4> QED BY <4>1 DEF IInv, OnePodPerName, NodesOfKinds
    <3> QED BY <3>1, <3>2
  <2> QED BY <2>1, <2>2
<1> QED BY <1>2, <1>3, <1>4, DoneIInv

\* A full rebuild keeps IInv.
LEMMA ApplyFullIInv ==
    ASSUME IInv, ApplyFull
    PROVE  IInv'
<1>1. PICK pick \in WebhookPicks(collected, Webhooks(collected)) : g' = Build(collected, pick)
  BY DEF ApplyFull
<1>2. Done /\ todo = {}
  BY DEF ApplyFull
<1>3. g'.nodes = BuildNodes(collected) /\ g'.edges = BuildEdges(collected, pick)
  BY <1>1 DEF Build, Graph
<1>4. ImageGraph(g')
  BY <1>1, SnapshotFacts, BuildImageGraph
<1>5. Grows(g, g', collected)
  BY <1>3, BuildClosed DEF Grows
<1>6. OnePodPerName'
  <2> SUFFICES ASSUME NEW m \in g'.nodes, NEW n \in g'.nodes, m.kind = "Pod", n.kind = "Pod",
                      m.ns = n.ns, m.name = n.name
               PROVE  m = n
    BY DEF OnePodPerName, NodesOfKinds
  <2>1. "Pod" \notin StorageKinds \cup {"Image"}
    BY DEF StorageKinds
  <2>2. PICK o \in collected : m = ID(o)
    BY <1>3, <2>1, SnapshotFacts, BuildKinds DEF IDs
  <2>3. PICK x \in collected : n = ID(x)
    BY <1>3, <2>1, SnapshotFacts, BuildKinds DEF IDs
  <2>4. o \in Named(collected, "Pod", m.ns, {m.name}) /\ x \in Named(collected, "Pod", m.ns, {m.name})
    BY <2>2, <2>3, ObjectID DEF Named, OfKind
  <2>5. \A a, b \in Named(collected, "Pod", m.ns, {m.name}) : a = b
    BY SnapshotFacts
  <2> QED BY <2>2, <2>3, <2>4, <2>5
<1> QED BY <1>2, <1>4, <1>5, <1>6, DoneIInv

\* IInv is kept by every step.
LEMMA NextIInv == IInv /\ [Next]_vars => IInv'
<1> SUFFICES ASSUME IInv, [Next]_vars PROVE IInv'
  OBVIOUS
<1>0. pending \in [Informers -> Seq(ChangeEvent)] /\ current \in ChangeEvent \cup {NoEvent}
  BY DEF IInv, ObjectsInv
<1>1. ASSUME NEW i \in Informers, TakeEvent(i) PROVE IInv'
  <2>1. /\ current' = Head(pending[i]) /\ pending[i] # <<>>
        /\ pending' = [pending EXCEPT ![i] = Tail(@)]
        /\ StartCollect("narrow") /\ UNCHANGED <<cluster, changes, g>>
    BY <1>1 DEF TakeEvent
  <2>2. current' \in ChangeEvent /\ Tail(pending[i]) \in Seq(ChangeEvent)
    BY <1>0, <2>1
  <2>3. pending' \in [Informers -> Seq(ChangeEvent)]
    BY <1>0, <2>1, <2>2
  <2> QED BY <2>1, <2>2, <2>3, CollectIInv
<1>2. CASE CollectFail
  BY <1>0, <1>2, CollectIInv DEF CollectFail, stream
<1>3. CASE RejectNarrow
  BY <1>0, <1>3, CollectIInv DEF RejectNarrow, stream
<1>4. CASE UNCHANGED vars
  BY <1>4 DEF vars, stream, collecting, IInv, TypeOK, ObjectsInv, ToList, OnePodPerName
<1> QED BY <1>1, <1>2, <1>3, <1>4, ClusterIInv, CollectListIInv, ApplyNarrowIInv, ApplyFullIInv
        DEF Next, Manager

\* The inductive invariant, for every cluster.
THEOREM LiveInvariant == Spec => []IInv
BY InitIInv, NextIInv, PTL DEF Spec

\* Live objects keep distinct keys and uids that were given out, no snapshot outlives
\* the Apply it was collected for, and every node of the graph is an id the builder
\* makes, with a uid that was given out or none.
THEOREM LiveTypeCorrect == Spec => []TypeOK
<1>1. IInv => TypeOK
  BY DEF IInv
<1> QED BY <1>1, LiveInvariant, PTL

\* At every moment a pod's name has at most one incarnation in the graph.
THEOREM LiveOnePodPerName == Spec => []OnePodPerName
<1>1. IInv => OnePodPerName
  BY DEF IInv
<1> QED BY <1>1, LiveInvariant, PTL

\* At every moment the Image nodes are those that pods of the graph use.
THEOREM LiveImagesAreUsed == Spec => []ImagesAreUsed
<1>1. IInv => ImagesAreUsed
  BY DEF IInv, ImageGraph, ImageEnds, ImagesAreUsed, UsedImages, NodesOfKinds, EdgesOfKinds
<1> QED BY <1>1, LiveInvariant, PTL

\* A scoped update takes an image away only from the pod it is about.
THEOREM LiveSharedImagesSurvive == Spec => SharedImagesSurvive
<1> DEFINE A == strategy = "narrow" =>
                  \A e \in EdgesOfKinds(g, {"uses_image"}) \ g'.edges :
                     current.kind = "pod" /\ e.from.ns = current.ns /\ e.from.name = current.name
<1>1. IInv /\ [Next]_vars => A \/ UNCHANGED vars
  <2> SUFFICES ASSUME IInv, Next, strategy = "narrow",
                      NEW e \in EdgesOfKinds(g, {"uses_image"}) \ g'.edges
               PROVE  current.kind = "pod" /\ e.from.ns = current.ns /\ e.from.name = current.name
    OBVIOUS
  <2>1. e.kind = "uses_image" /\ e \in g.edges /\ e \notin g'.edges
    BY DEF EdgesOfKinds
  <2>2. ApplyNarrow
    <3>1. g' # g
      BY <2>1
    <3>2. ~ApplyFull
      BY DEF ApplyFull
    <3> QED
      BY <3>1, <3>2
      DEF Next, Cluster, Manager, CreateObject, UpdateObject, DeleteObject, TakeEvent, CollectList,
          CollectFail, RejectNarrow
  <2>3. PICK pick \in WebhookPicks(collected, Candidates(current, collected)) :
          g' = NarrowApply(current, collected, pick)
    BY <2>2 DEF ApplyNarrow
  <2>4. current \in ChangeEvent
    BY <2>2 DEF ApplyNarrow, IInv, ObjectsInv
  <2>5. /\ current.kind # "pod" => EdgesOfKinds(g', {"uses_image"}) = EdgesOfKinds(g, {"uses_image"})
        /\ current.kind = "pod" => PodOnly(g, g', collected, current.ns, current.name, current.change)
    BY <2>3, <2>4, NarrowFacts
  <2>6. current.kind = "pod"
    BY <2>1, <2>5 DEF EdgesOfKinds
  <2> QED BY <2>1, <2>5, <2>6 DEF PodOnly, Bears
<1>2. IInv /\ [Next]_vars => [A]_vars
  BY <1>1
<1> QED BY <1>2, LiveInvariant, PTL DEF Spec, SharedImagesSurvive

-----------------------------------------------------------------------------
(* RebuildInv: events and the queues they wait in *)

\* The kind of an object's events.
LEMMA EventKindOf ==
    ASSUME NEW x
    PROVE  informerChangeKind(x) =
             IF x.kind \in {"Workload", "ReplicaSet"} THEN "workload"
             ELSE IF x.kind = "Pod" THEN "pod"
             ELSE IF x.kind = "Service" THEN "service"
             ELSE IF x.kind \in StorageKinds THEN "storage"
             ELSE IF x.kind = "Event" THEN "event"
             ELSE IF x.kind \in IdentityKinds THEN "identity/security" ELSE ""
<1> DEFINE Work == x.kind \in {"Workload", "ReplicaSet"}
           Pod == x.kind = "Pod"
           Serv == x.kind = "Service"
           Stor == x.kind \in StorageKinds
           Ev == x.kind = "Event"
           Iden == x.kind \in IdentityKinds
<1>1. /\ Work => ~Pod /\ ~Serv /\ ~Stor /\ ~Ev /\ ~Iden
      /\ Pod => ~Serv /\ ~Stor /\ ~Ev /\ ~Iden
      /\ Serv => ~Stor /\ ~Ev /\ ~Iden
      /\ Stor => ~Ev /\ ~Iden
      /\ Ev => ~Iden
  BY DEF StorageKinds, IdentityKinds
<1>2. informerChangeKind(x) = CASE Work -> "workload" [] Pod -> "pod" [] Serv -> "service"
        [] Stor -> "storage" [] Ev -> "event" [] Iden -> "identity/security" [] OTHER -> ""
  BY Zenon DEF informerChangeKind
<1> HIDE DEF Work, Pod, Serv, Stor, Ev, Iden
<1>3. informerChangeKind(x) = IF Work THEN "workload" ELSE IF Pod THEN "pod" ELSE IF Serv THEN "service"
        ELSE IF Stor THEN "storage" ELSE IF Ev THEN "event" ELSE IF Iden THEN "identity/security" ELSE ""
  BY <1>1, <1>2, ZenonT(60)
<1> QED BY <1>3 DEF Work, Pod, Serv, Stor, Ev, Iden

\* An event kind stands for a kind, or for a category.
LEMMA KindOfEvent ==
    ASSUME NEW x
    PROVE  /\ informerChangeKind(x) # "none"
           /\ x.kind \in StorageKinds <=> informerChangeKind(x) = "storage"
           /\ x.kind \in IdentityKinds <=> informerChangeKind(x) = "identity/security"
           /\ x.kind = "Pod" <=> informerChangeKind(x) = "pod"
           /\ x.kind = "Service" <=> informerChangeKind(x) = "service"
           /\ x.kind = "Event" <=> informerChangeKind(x) = "event"
           /\ x.kind \in {"Workload", "ReplicaSet"} <=> informerChangeKind(x) = "workload"
           /\ x.kind \notin WatchedKinds \cup {"ReplicaSet"} <=> informerChangeKind(x) = ""
BY EventKindOf DEF StorageKinds, IdentityKinds, WatchedKinds, ScopedKinds

\* Events do not tell apart objects and nodes of one kind, namespace and name.
LEMMA Alike ==
    ASSUME NEW x, NEW y, x.kind = y.kind, x.ns = y.ns, x.name = y.name
    PROVE  /\ \A ev, change : About(ev, x, change) <=> About(ev, y, change)
           /\ \A change : Waiting(x, change) <=> Waiting(y, change)
           /\ \A change : Outstanding(x, change) <=> Outstanding(y, change)
<1>1. informerChangeKind(x) = informerChangeKind(y)
  BY EventKindOf
<1>2. \A ev, change : About(ev, x, change) <=> About(ev, y, change)
  BY <1>1 DEF About
<1>3. \A change : Waiting(x, change) <=> Waiting(y, change)
  BY <1>2 DEF Waiting
<1> QED BY <1>2, <1>3 DEF Outstanding

\* NoEvent is about nothing.
LEMMA NoEventAbout ==
    \A x, change : ~About(NoEvent, x, change)
BY KindOfEvent DEF About, NoEvent

\* An event at the end of a queue.
LEMMA Enqueued ==
    ASSUME pending \in [Informers -> Seq(ChangeEvent)], NEW k \in Informers, NEW ev,
           pending' = [pending EXCEPT ![k] = Append(@, ev)]
    PROVE  /\ \A i \in Informers : \A j \in Events(i) : j \in Events(i)' /\ pending'[i][j] = pending[i][j]
           /\ \A i \in Informers : \A j \in Events(i)' :
                \/ j \in Events(i)
                \/ i = k /\ pending'[i][j] = ev /\ \A m \in Events(k) : m < j
           /\ \E j \in Events(k)' : pending'[k][j] = ev /\ \A m \in Events(k) : m < j
<1>1. ASSUME NEW i \in Informers, i # k PROVE pending'[i] = pending[i] /\ Events(i)' = Events(i)
  BY <1>1 DEF Events
<1> DEFINE q == pending[k]
<1>2. q \in Seq(ChangeEvent) /\ pending'[k] = Append(q, ev)
  OBVIOUS
<1>3. /\ Len(pending'[k]) = Len(q) + 1 /\ pending'[k][Len(q) + 1] = ev
      /\ \A j \in 1..Len(q) : pending'[k][j] = q[j]
      /\ Len(q) \in Nat
  BY <1>2
<1>4. Events(k)' = 1..(Len(q) + 1) /\ Events(k) = 1..Len(q)
  BY <1>3 DEF Events
<1> HIDE DEF q
<1>5. ASSUME NEW i \in Informers, NEW j \in Events(i)
      PROVE  j \in Events(i)' /\ pending'[i][j] = pending[i][j]
  BY <1>1, <1>3, <1>4 DEF q
<1>6. ASSUME NEW i \in Informers, NEW j \in Events(i)', j \notin Events(i)
      PROVE  i = k /\ pending'[i][j] = ev /\ \A m \in Events(k) : m < j
  <2>1. i = k
    BY <1>1, <1>6
  <2>2. j = Len(q) + 1
    BY <1>3, <1>4, <1>6, <2>1
  <2> QED BY <1>3, <1>4, <2>1, <2>2
<1>7. \E j \in Events(k)' : pending'[k][j] = ev /\ \A m \in Events(k) : m < j
  <2>1. Len(q) + 1 \in Events(k)'
    BY <1>3, <1>4
  <2>2. \A m \in Events(k) : m < Len(q) + 1
    BY <1>3, <1>4
  <2> QED BY <1>3, <2>1, <2>2
<1> QED BY <1>5, <1>6, <1>7

\* An event taken from the head of a queue.
LEMMA Dequeued ==
    ASSUME pending \in [Informers -> Seq(ChangeEvent)], NEW k \in Informers, pending[k] # <<>>,
           pending' = [pending EXCEPT ![k] = Tail(@)]
    PROVE  /\ \A i \in Informers : i # k => pending'[i] = pending[i] /\ Events(i)' = Events(i)
           /\ 1 \in Events(k) /\ Head(pending[k]) = pending[k][1]
           /\ \A j \in Events(k)' : j + 1 \in Events(k) /\ pending'[k][j] = pending[k][j + 1]
           /\ \A j \in Events(k) : j = 1 \/ j - 1 \in Events(k)'
           /\ \A i \in Informers : Events(i) \subseteq Nat
<1>1. ASSUME NEW i \in Informers, i # k PROVE pending'[i] = pending[i] /\ Events(i)' = Events(i)
  BY <1>1 DEF Events
<1> DEFINE q == pending[k]
<1>2. q \in Seq(ChangeEvent) /\ pending'[k] = Tail(q) /\ q # <<>>
  OBVIOUS
<1> HIDE DEF q
<1>3. /\ Len(q) \in Nat /\ Len(q) > 0 /\ Len(Tail(q)) = Len(q) - 1 /\ Head(q) = q[1]
      /\ \A j \in 1..(Len(q) - 1) : Tail(q)[j] = q[j + 1]
  BY <1>2
<1>4. Events(k)' = 1..(Len(q) - 1) /\ Events(k) = 1..Len(q)
  BY <1>2, <1>3 DEF Events, q
<1>5. \A i \in Informers : Events(i) \subseteq Nat
  BY DEF Events
<1> QED BY <1>1, <1>2, <1>3, <1>4, <1>5 DEF q

-----------------------------------------------------------------------------
(* RebuildInv: changes of the cluster *)

(* The object o, like the template t, comes, changes (upsert) or goes (delete). *)
Changed(o, t, change) ==
    /\ t \in Templates /\ SameKey(o, t) /\ LikeTemplate(o)
    /\ enqueueInformerEvent(o, change)
    /\ UNCHANGED <<current, collecting, g>>
    /\ \/ /\ change = "upsert" /\ o \in cluster'
          /\ \A x \in cluster' : x \in cluster \/ x = o
          /\ \A x \in cluster : x \in cluster' \/ ID(x) = ID(o)
       \/ change = "delete" /\ o \in cluster /\ cluster' = cluster \ {o}

\* Every step of the cluster is one of these.
LEMMA ClusterChanges ==
    ASSUME IInv, Cluster
    PROVE  \E o, t, change : Changed(o, t, change)
<1>0. \A x \in cluster : LikeTemplate(x)
  BY DEF IInv, ObjectsInv
<1>1. ASSUME NEW t \in Templates, CreateObject(t) PROVE Changed(Stamp(t, changes'), t, "upsert")
  BY <1>1, StampShape DEF CreateObject, Changed
<1>2. ASSUME NEW o \in cluster, NEW t \in Templates, UpdateObject(o, t)
      PROVE  Changed(Stamp(t, o.uid), t, "upsert")
  <2> DEFINE n == Stamp(t, o.uid)
  <2>1. LikeTemplate(n) /\ n.uid = o.uid /\ SameKey(n, t)
    BY StampShape
  <2>2. /\ cluster' = (cluster \ {o}) \cup {n} /\ enqueueInformerEvent(n, "upsert")
        /\ SameKey(o, t) /\ UNCHANGED <<current, collecting, g>>
    BY <1>2 DEF UpdateObject
  <2> HIDE DEF n
  <2>3. n.kind = o.kind
    BY <1>0, <2>1, <2>2, KindOfSource DEF SameKey
  <2>4. ID(n) = ID(o)
    BY <2>1, <2>2, <2>3 DEF ID, SameKey
  <2>5. Changed(n, t, "upsert")
    BY <2>1, <2>2, <2>4 DEF Changed
  <2> QED BY <2>5 DEF n
<1>3. ASSUME NEW o \in cluster, NEW t \in Templates, SameKey(o, t), DeleteObject(o)
      PROVE  Changed(o, t, "delete")
  BY <1>0, <1>3 DEF DeleteObject, Changed
<1> QED BY <1>1, <1>2, <1>3 DEF Cluster

\* A changing object has its kind's name to itself.
LEMMA SameObject ==
    ASSUME ScopesDisjoint, NEW t \in Templates, NEW o, LikeTemplate(o), SameKey(o, t),
           NEW x, LikeTemplate(x), x.kind \in ScopedKinds,
           informerChangeKind(x) = informerChangeKind(o), x.ns = o.ns, x.name = o.name
    PROVE  SameKey(x, o)
<1>1. LikeTemplate(t)
  BY ObjectsAssumption DEF LikeTemplate
<1>2. o.kind = t.kind /\ o.kind # "ReplicaSet"
  BY <1>1, KindOfSource DEF SameKey, ScopesDisjoint
<1>3. x.kind = o.kind
  BY <1>2, KindOfEvent DEF ScopedKinds
<1>4. CASE x.kind = "Workload"
  <2>1. PICK u \in Templates \cup Initial :
            x.src = u.src /\ x.kind = u.kind /\ x.ns = u.ns /\ x.name = u.name
    BY DEF LikeTemplate
  <2> QED BY <1>2, <1>3, <1>4, <2>1 DEF SameKey, ScopesDisjoint
<1>5. CASE x.kind # "Workload"
  <2>1. x.kind \in {"Pod", "Service", "Event"}
    BY <1>5 DEF ScopedKinds
  <2>2. x.src = x.kind /\ o.src = o.kind
    BY <1>3, <2>1, Shapes, KindsListed
  <2> QED BY <1>3, <2>2 DEF SameKey
<1> QED BY <1>4, <1>5

\* The event of a change joins the queue of its informer.
LEMMA ChangeTold ==
    ASSUME ScopesDisjoint, IInv, NEW o, NEW t, NEW change, Changed(o, t, change)
    PROVE  LET ev == changeEventForInformerObject(o, change)
           IN  /\ o.src \in Informers
               /\ pending' = [pending EXCEPT ![o.src] = Append(@, ev)]
               /\ ev.kind = informerChangeKind(o) /\ ev.change = change
               /\ About(ev, o, change) /\ About(ev, t, change)
               /\ o.kind \in WatchedKinds /\ o.kind # "ReplicaSet"
               /\ change \in {"upsert", "delete"}
<1> DEFINE ev == changeEventForInformerObject(o, change)
<1>1. t \in Templates /\ SameKey(o, t) /\ LikeTemplate(o) /\ enqueueInformerEvent(o, change)
  BY DEF Changed
<1>2. LikeTemplate(t)
  BY <1>1, ObjectsAssumption DEF LikeTemplate
<1>3. o.kind = t.kind /\ informerChangeKind(o) = informerChangeKind(t)
  BY <1>1, <1>2, KindOfSource DEF SameKey
<1>4. informerChangeKind(o) # "" /\ o.kind # "ReplicaSet"
  BY <1>1, <1>3 DEF ScopesDisjoint
<1>5. o.kind \in WatchedKinds
  BY <1>4, KindOfEvent
<1>6. o.src \in Informers
  BY <1>1, <1>3, <1>4 DEF Informers, SameKey
<1>7. pending' = [pending EXCEPT ![o.src] = Append(@, ev)]
  BY <1>1, <1>6 DEF enqueueInformerEvent
<1>8. ev = [kind |-> informerChangeKind(o), ns |-> o.ns, name |-> o.name, change |-> change]
  BY <1>4 DEF changeEventForInformerObject, EventName
<1> HIDE DEF ev
<1>9. About(ev, o, change) /\ About(ev, t, change) /\ ev.kind = informerChangeKind(o) /\ ev.change = change
  BY <1>1, <1>3, <1>8 DEF About, SameKey
<1>10. change \in {"upsert", "delete"}
  BY DEF Changed
<1> QED BY <1>4, <1>5, <1>6, <1>7, <1>9, <1>10 DEF ev

\* What waited goes on waiting, and the change is told.
LEMMA ChangeWaits ==
    ASSUME ScopesDisjoint, IInv, NEW o, NEW t, NEW change, Changed(o, t, change)
    PROVE  /\ \A x, c : Waiting(x, c) => Waiting(x, c)'
           /\ \A x, c : Outstanding(x, c) => Outstanding(x, c)'
           /\ Waiting(o, change)'
<1> DEFINE ev == changeEventForInformerObject(o, change)
<1>1. /\ o.src \in Informers /\ pending' = [pending EXCEPT ![o.src] = Append(@, ev)]
      /\ About(ev, o, change)
  BY ChangeTold
<1>2. pending \in [Informers -> Seq(ChangeEvent)]
  BY DEF IInv, ObjectsInv
<1> HIDE DEF ev
<1>3. PICK k \in Informers : k = o.src
  BY <1>1
<1>4. /\ \A i \in Informers : \A j \in Events(i) : j \in Events(i)' /\ pending'[i][j] = pending[i][j]
      /\ \E j \in Events(k)' : pending'[k][j] = ev
  <2>1. pending' = [pending EXCEPT ![k] = Append(@, ev)]
    BY <1>1, <1>3
  <2> QED BY <1>2, <2>1, Enqueued
<1>5. ASSUME NEW x, NEW c, Waiting(x, c) PROVE Waiting(x, c)'
  BY <1>4, <1>5 DEF Waiting
<1>6. Waiting(o, change)'
  BY <1>1, <1>4 DEF Waiting
<1>7. current' = current
  BY DEF Changed
<1>8. ASSUME NEW x, NEW c, Outstanding(x, c) PROVE Outstanding(x, c)'
  BY <1>5, <1>7, <1>8 DEF Outstanding
<1> QED BY <1>5, <1>6, <1>8

\* A change keeps what is said of the queues.
LEMMA ChangeQueues ==
    ASSUME ScopesDisjoint, IInv, IInv', EventsHaveSources, DeletedAndBack,
           NEW o, NEW t, NEW change, Changed(o, t, change)
    PROVE  EventsHaveSources' /\ DeletedAndBack'
<1> DEFINE ev == changeEventForInformerObject(o, change)
<1>1. /\ o.src \in Informers /\ pending' = [pending EXCEPT ![o.src] = Append(@, ev)]
      /\ ev.change = change /\ ev.kind = informerChangeKind(o)
      /\ About(ev, o, change) /\ About(ev, t, change)
  BY ChangeTold
<1>2. /\ t \in Templates /\ SameKey(o, t) /\ LikeTemplate(o) /\ current' = current
      /\ \A x \in cluster' : x \in cluster \/ x = o
  BY DEF Changed
<1>3. pending \in [Informers -> Seq(ChangeEvent)] /\ \A x \in cluster : LikeTemplate(x)
  BY DEF IInv, ObjectsInv
<1> HIDE DEF ev
<1>4. PICK k \in Informers : k = o.src
  BY <1>1
<1>5. /\ \A i \in Informers : \A j \in Events(i) : j \in Events(i)' /\ pending'[i][j] = pending[i][j]
      /\ \A i \in Informers : \A j \in Events(i)' :
            \/ j \in Events(i)
            \/ i = k /\ pending'[i][j] = ev /\ \A m \in Events(k) : m < j
      /\ \E j \in Events(k)' : pending'[k][j] = ev /\ \A m \in Events(k) : m < j
  <2>1. pending' = [pending EXCEPT ![k] = Append(@, ev)]
    BY <1>1, <1>4
  <2> QED BY <1>3, <2>1, Enqueued
<1>6. EventsHaveSources'
  <2> SUFFICES ASSUME NEW i \in Informers, NEW j \in Events(i)'
               PROVE  \E u \in Templates : u.src = i /\ About(pending'[i][j], u, pending'[i][j].change)
    BY DEF EventsHaveSources
  <2>1. CASE j \in Events(i)
    BY <1>5, <2>1 DEF EventsHaveSources
  <2>2. CASE j \notin Events(i)
    <3>1. i = o.src /\ pending'[i][j] = ev
      BY <1>4, <1>5, <2>2
    <3>2. t.src = i
      BY <1>2, <3>1 DEF SameKey
    <3> QED BY <1>1, <1>2, <3>1, <3>2
  <2> QED BY <2>1, <2>2
<1>7. ASSUME NEW x \in cluster', x.kind \in ScopedKinds, NEW i \in Informers, NEW j \in Events(i)',
             About(pending'[i][j], x, "delete")
      PROVE  \E m \in Events(i)' : m > j /\ About(pending'[i][m], x, "upsert")
  <2>1. CASE x = o /\ change = "upsert"
    <3>1. j \in Events(i) /\ About(pending[i][j], x, "delete")
      <4>1. pending'[i][j] # ev
        BY <1>1, <1>7, <2>1 DEF About
      <4> QED BY <1>5, <1>7, <4>1
    <3>2. PICK u \in Templates : u.src = i /\ About(pending[i][j], u, pending[i][j].change)
      BY <3>1 DEF EventsHaveSources
    <3>3. LikeTemplate(u) /\ u.kind # "ReplicaSet"
      BY ObjectsAssumption DEF LikeTemplate, ScopesDisjoint
    <3>4. informerChangeKind(u) = informerChangeKind(o) /\ u.ns = o.ns /\ u.name = o.name
      BY <2>1, <3>1, <3>2 DEF About
    <3>5. u.kind = x.kind
      BY <1>7, <2>1, <3>3, <3>4, KindOfEvent DEF ScopedKinds
    <3>6. u.src = o.src
      BY <1>2, <1>7, <3>3, <3>4, <3>5, SameObject DEF SameKey
    <3>7. i = k
      BY <1>4, <3>2, <3>6
    <3>8. PICK m \in Events(k)' : pending'[k][m] = ev /\ \A n \in Events(k) : n < m
      BY <1>5
    <3>9. j < m
      BY <3>1, <3>7, <3>8
    <3>10. j \in Int /\ m \in Int
      <4>1. \A n \in Events(k)' : n \in Int
        BY DEF Events
      <4> QED BY <1>7, <3>7, <3>8, <4>1
    <3>11. m > j
      BY <3>9, <3>10
    <3> QED BY <1>1, <2>1, <3>7, <3>8, <3>11
  <2>2. CASE ~(x = o /\ change = "upsert")
    <3>1. x \in cluster
      <4>1. change = "delete" => cluster' \subseteq cluster
        BY DEF Changed
      <4> QED BY <1>1, <1>2, <2>2, <4>1, ChangeTold
    <3>2. j \in Events(i)
      <4> SUFFICES ASSUME j \notin Events(i) PROVE FALSE
        OBVIOUS
      <4>1. pending'[i][j] = ev
        BY <1>5
      <4>2. change = "delete" /\ informerChangeKind(x) = informerChangeKind(o) /\ x.ns = o.ns /\ x.name = o.name
        BY <1>1, <1>7, <4>1 DEF About
      <4>3. SameKey(x, o)
        BY <1>2, <1>3, <1>7, <3>1, <4>2, SameObject
      <4>4. o \in cluster /\ x # o
        BY <1>7, <4>2 DEF Changed
      <4> QED BY <3>1, <4>3, <4>4 DEF IInv, TypeOK
    <3>3. About(pending[i][j], x, "delete")
      BY <1>5, <1>7, <3>2
    <3>4. PICK m \in Events(i) : m > j /\ About(pending[i][m], x, "upsert")
      BY <1>7, <3>1, <3>2, <3>3 DEF DeletedAndBack
    <3> QED BY <1>5, <3>4
  <2> QED BY <2>1, <2>2
<1>8. ASSUME NEW x \in cluster', x.kind \in ScopedKinds, About(current', x, "delete")
      PROVE  Waiting(x, "upsert")'
  <2>1. CASE x = o /\ change = "upsert"
    BY <2>1, ChangeWaits
  <2>2. CASE ~(x = o /\ change = "upsert")
    <3>1. x \in cluster
      <4>1. change = "delete" => cluster' \subseteq cluster
        BY DEF Changed
      <4> QED BY <1>1, <1>2, <2>2, <4>1, ChangeTold
    <3>2. Waiting(x, "upsert")
      BY <1>2, <1>8, <3>1 DEF DeletedAndBack
    <3> QED BY <3>2, ChangeWaits
  <2> QED BY <2>1, <2>2
<1>9. DeletedAndBack'
  BY <1>7, <1>8 DEF DeletedAndBack
<1> QED BY <1>6, <1>9

\* A change keeps what is said of the lists and of the nodes.
LEMMA ChangeTells ==
    ASSUME ScopesDisjoint, IInv, IInv', ListsAreTold, NodesAreTold,
           NEW o, NEW t, NEW change, Changed(o, t, change)
    PROVE  ListsAreTold' /\ NodesAreTold'
<1>1. UNCHANGED <<current, todo, collected, g>> /\ change \in {"upsert", "delete"} /\ ToList' = ToList
  BY DEF Changed, collecting, ToList
<1>2. ASSUME NEW x \in cluster'
      PROVE  x \in cluster \/ (x = o /\ change = "upsert")
  BY DEF Changed
<1>3. ASSUME NEW n, n \in IDs(cluster)
      PROVE  n \in IDs(cluster') \/ (n = ID(o) /\ change = "delete")
  BY <1>3 DEF Changed, IDs
<1>4. /\ \A x, c : Waiting(x, c) => Waiting(x, c)'
      /\ \A x, c : Outstanding(x, c) => Outstanding(x, c)'
      /\ Waiting(o, change)'
  BY ChangeWaits
<1>5. ASSUME NEW x, x.kind = o.kind, x.ns = o.ns, x.name = o.name PROVE Waiting(x, change)'
  <2>1. informerChangeKind(x) = informerChangeKind(o)
    BY <1>5, EventKindOf
  <2> QED BY <1>4, <1>5, <2>1 DEF Waiting, About
<1>6. ASSUME NEW c \in collected
      PROVE  \/ c \in cluster'
             \/ Waiting(c, "delete")'
             \/ ID(c) \in IDs(cluster') /\ Waiting(c, "upsert")'
  <2>1. \/ c \in cluster
        \/ Waiting(c, "delete")
        \/ ID(c) \in IDs(cluster) /\ Waiting(c, "upsert")
    BY DEF ListsAreTold
  <2>2. CASE c \in cluster /\ c \notin cluster'
    <3>1. ID(c) = ID(o)
      BY <2>2 DEF Changed
    <3>2. Waiting(c, change)'
      BY <1>5, <3>1, ObjectID
    <3>3. change = "upsert" => ID(c) \in IDs(cluster')
      BY <3>1 DEF Changed, IDs
    <3> QED BY <1>1, <3>2, <3>3
  <2>3. CASE Waiting(c, "delete")
    BY <1>4, <2>3
  <2>4. CASE ID(c) \in IDs(cluster) /\ Waiting(c, "upsert")
    <3>1. CASE ID(c) \in IDs(cluster')
      BY <1>4, <2>4, <3>1
    <3>2. CASE ID(c) = ID(o) /\ change = "delete"
      BY <1>5, <3>2, ObjectID
    <3> QED BY <1>3, <2>4, <3>1, <3>2
  <2> QED BY <2>1, <2>2, <2>3, <2>4
<1>7. ListsAreTold'
  <2>1. ASSUME current # NoEvent, NEW x \in cluster', x.src \notin ToList
        PROVE  x \in collected \/ Waiting(x, "upsert")'
    BY <1>2, <1>4, <2>1 DEF ListsAreTold
  <2> QED BY <1>1, <1>6, <2>1 DEF ListsAreTold
<1>8. ASSUME NEW x \in cluster', x.kind \in ScopedKinds
      PROVE  ID(x) \in g.nodes \/ Outstanding(x, "upsert")'
  BY <1>2, <1>4, <1>8 DEF NodesAreTold, Outstanding
<1>9. ASSUME NEW n \in NodesOfKinds(g, ScopedKinds)
      PROVE  n \in IDs(cluster') \/ Outstanding(n, "delete")'
  <2>1. CASE Outstanding(n, "delete")
    BY <1>4, <2>1
  <2>2. CASE n \in IDs(cluster)
    <3>1. CASE n = ID(o) /\ change = "delete"
      BY <1>5, <3>1, ObjectID DEF Outstanding
    <3> QED BY <1>3, <2>2, <3>1
  <2> QED BY <2>1, <2>2 DEF NodesAreTold
<1>10. ASSUME NEW p \in OfKind(cluster', "Pod")
       PROVE  UsedImages(g, {ID(p)}) = ImageIDs(p) \/ Outstanding(p, "upsert")'
  BY <1>2, <1>4 DEF NodesAreTold, OfKind, Outstanding
<1>11. NodesAreTold'
  BY <1>1, <1>8, <1>9, <1>10 DEF NodesAreTold
<1> QED BY <1>7, <1>11

\* A change of an object of a category is told; what is not watched does not change.
LEMMA ChangeCategories ==
    ASSUME ScopesDisjoint, IInv, IInv', CategoriesInStep, RestIsStatic,
           NEW o, NEW t, NEW change, Changed(o, t, change)
    PROVE  CategoriesInStep' /\ RestIsStatic'
<1> DEFINE ev == changeEventForInformerObject(o, change)
<1>1. /\ o.src \in Informers /\ pending' = [pending EXCEPT ![o.src] = Append(@, ev)]
      /\ ev.kind = informerChangeKind(o) /\ o.kind \in WatchedKinds
  BY ChangeTold
<1>2. pending \in [Informers -> Seq(ChangeEvent)] /\ current' = current /\ g' = g
  BY DEF IInv, ObjectsInv, Changed
<1> HIDE DEF ev
<1>3. PICK k \in Informers : k = o.src
  BY <1>1
<1>4. /\ \A i \in Informers : \A j \in Events(i) : j \in Events(i)' /\ pending'[i][j] = pending[i][j]
      /\ \E j \in Events(k)' : pending'[k][j] = ev
  <2>1. pending' = [pending EXCEPT ![k] = Append(@, ev)]
    BY <1>1, <1>3
  <2> QED BY <1>2, <2>1, Enqueued
<1>5. ASSUME NEW kind, NoneOutstanding(kind)'
      PROVE  NoneOutstanding(kind) /\ informerChangeKind(o) # kind
  <2>1. current'.kind # kind /\ \A i \in Informers : \A j \in Events(i)' : pending'[i][j].kind # kind
    BY <1>5 DEF NoneOutstanding
  <2>2. ev.kind # kind
    BY <1>4, <2>1
  <2>3. \A i \in Informers : \A j \in Events(i) : pending[i][j].kind # kind
    BY <1>4, <2>1
  <2> QED BY <1>1, <1>2, <2>1, <2>2, <2>3 DEF NoneOutstanding
<1>6. ASSUME NEW K, o.kind \notin K
      PROVE  {x \in cluster' : x.kind \in K} = {x \in cluster : x.kind \in K}
  <2>1. \A x \in cluster' : x \in cluster \/ x.kind = o.kind
    BY DEF Changed
  <2>2. \A x \in cluster : x \in cluster' \/ x.kind = o.kind
    BY ObjectID DEF Changed
  <2> QED BY <1>6, <2>1, <2>2
<1>7. ASSUME NoneOutstanding("storage")' PROVE NodesOfKinds(g', StorageKinds) = StorageIDs(cluster')
  <2>1. o.kind \notin StorageKinds /\ NoneOutstanding("storage")
    BY <1>5, <1>7, KindOfEvent
  <2>2. StorageIDs(cluster') = StorageIDs(cluster)
    BY <1>6, <2>1, SameCategories
  <2> QED BY <1>2, <2>1, <2>2 DEF CategoriesInStep
<1>8. ASSUME NoneOutstanding("identity/security")'
      PROVE  NodesOfKinds(g', IdentityKinds) = IdentityIDs(cluster')
  <2>1. o.kind \notin IdentityKinds /\ NoneOutstanding("identity/security")
    BY <1>5, <1>8, KindOfEvent
  <2>2. IdentityIDs(cluster') = IdentityIDs(cluster)
    BY <1>6, <2>1, SameCategories
  <2> QED BY <1>2, <2>1, <2>2 DEF CategoriesInStep
<1>9. CategoriesInStep'
  BY <1>7, <1>8 DEF CategoriesInStep
<1>10. {x \in cluster' : x.kind \notin WatchedKinds} = {x \in cluster : x.kind \notin WatchedKinds}
  <2>1. \A x \in cluster' : x \in cluster \/ x.kind = o.kind
    BY DEF Changed
  <2>2. \A x \in cluster : x \in cluster' \/ x.kind = o.kind
    BY ObjectID DEF Changed
  <2> QED BY <1>1, <2>1, <2>2
<1>11. RestIsStatic'
  BY <1>2, <1>10 DEF RestIsStatic
<1> QED BY <1>9, <1>11

\* RebuildInv is kept by the cluster.
LEMMA ClusterRebuild ==
    ASSUME ScopesDisjoint, IInv, IInv', RebuildInv, Cluster
    PROVE  RebuildInv'
<1>1. PICK o, t, change : Changed(o, t, change)
  BY ClusterChanges
<1>2. EventsHaveSources' /\ DeletedAndBack'
  BY <1>1, ChangeQueues DEF RebuildInv
<1>3. ListsAreTold' /\ NodesAreTold'
  BY <1>1, ChangeTells DEF RebuildInv
<1>4. CategoriesInStep' /\ RestIsStatic'
  BY <1>1, ChangeCategories DEF RebuildInv
<1> QED BY <1>2, <1>3, <1>4 DEF RebuildInv

-----------------------------------------------------------------------------
(* RebuildInv: steps of the manager that leave the graph alone *)

\* At the start of a collect everything is still to be listed.
LEMMA StartLists ==
    ASSUME IInv', StartCollect("narrow") \/ StartCollect("full")
    PROVE  ListsAreTold'
<1>1. todo' = Lists /\ collected' = {}
  BY DEF StartCollect
<1>2. ASSUME NEW x \in cluster' PROVE x.src \in ToList'
  <2>1. LikeTemplate(x)
    BY DEF IInv, ObjectsInv
  <2>2. PICK u \in Templates \cup Initial : x.src = u.src
    BY <2>1 DEF LikeTemplate
  <2>3. PICK i \in DOMAIN CollectOrder : x.src = CollectOrder[i]
    BY <2>1, Shapes DEF ListedAs
  <2>4. i \in Lists
    BY <2>2, <2>3 DEF Lists
  <2> QED BY <1>1, <2>3, <2>4 DEF ToList
<1> QED BY <1>1, <1>2 DEF ListsAreTold

\* Taking an event leaves it outstanding.
LEMMA TakeRebuild ==
    ASSUME IInv, IInv', RebuildInv, NEW k \in Informers, TakeEvent(k)
    PROVE  RebuildInv'
<1>1. /\ current = NoEvent /\ pending[k] # <<>> /\ current' = Head(pending[k])
      /\ pending' = [pending EXCEPT ![k] = Tail(@)] /\ StartCollect("narrow")
      /\ UNCHANGED <<cluster, g>>
  BY DEF TakeEvent
<1>2. pending \in [Informers -> Seq(ChangeEvent)]
  BY DEF IInv, ObjectsInv
<1>3. /\ \A i \in Informers : i # k => pending'[i] = pending[i] /\ Events(i)' = Events(i)
      /\ 1 \in Events(k) /\ current' = pending[k][1]
      /\ \A j \in Events(k)' : j + 1 \in Events(k) /\ pending'[k][j] = pending[k][j + 1]
      /\ \A j \in Events(k) : j = 1 \/ j - 1 \in Events(k)'
      /\ \A i \in Informers : Events(i) \subseteq Nat
  BY <1>1, <1>2, Dequeued
<1>4. \A j \in Events(k) : j = 1 \/ (j - 1 \in Events(k)' /\ pending'[k][j - 1] = pending[k][j])
  <2>1. ASSUME NEW j \in Events(k), j - 1 \in Events(k)' PROVE pending'[k][j - 1] = pending[k][j]
    <3>1. (j - 1) + 1 = j
      BY <1>3
    <3> QED BY <1>3, <2>1, <3>1
  <2> QED BY <1>3, <2>1
<1>5. ASSUME NEW x, NEW c, Waiting(x, c) PROVE Outstanding(x, c)'
  <2>1. PICK i \in Informers : \E j \in Events(i) : About(pending[i][j], x, c)
    BY <1>5 DEF Waiting
  <2>2. PICK j \in Events(i) : About(pending[i][j], x, c)
    BY <2>1
  <2>3. CASE i # k
    BY <1>3, <2>2, <2>3 DEF Outstanding, Waiting
  <2>4. CASE i = k
    <3>1. CASE j = 1
      BY <1>3, <2>2, <2>4, <3>1 DEF Outstanding
    <3>2. CASE j # 1
      BY <1>4, <2>2, <2>4, <3>2 DEF Outstanding, Waiting
    <3> QED BY <3>1, <3>2
  <2> QED BY <2>3, <2>4
<1>6. ASSUME NEW x, NEW c, Outstanding(x, c) PROVE Outstanding(x, c)'
  BY <1>1, <1>5, <1>6, NoEventAbout DEF Outstanding
<1>7. EventsHaveSources'
  <2> SUFFICES ASSUME NEW i \in Informers, NEW j \in Events(i)'
               PROVE  \E u \in Templates : u.src = i /\ About(pending'[i][j], u, pending'[i][j].change)
    BY DEF EventsHaveSources
  <2>1. CASE i # k
    BY <1>3, <2>1 DEF RebuildInv, EventsHaveSources
  <2>2. CASE i = k
    BY <1>3, <2>2 DEF RebuildInv, EventsHaveSources
  <2> QED BY <2>1, <2>2
<1>8. DeletedAndBack'
  <2>1. ASSUME NEW x \in cluster, x.kind \in ScopedKinds, NEW i \in Informers, NEW j \in Events(i)',
               About(pending'[i][j], x, "delete")
        PROVE  \E m \in Events(i)' : m > j /\ About(pending'[i][m], x, "upsert")
    <3>1. CASE i # k
      BY <1>3, <2>1, <3>1 DEF RebuildInv, DeletedAndBack
    <3>2. CASE i = k
      <4>1. j + 1 \in Events(k) /\ About(pending[k][j + 1], x, "delete") /\ j \in Int
        BY <1>3, <2>1, <3>2 DEF Events
      <4>2. PICK m \in Events(k) : m > j + 1 /\ About(pending[k][m], x, "upsert")
        BY <2>1, <4>1 DEF RebuildInv, DeletedAndBack
      <4>3. m # 1 /\ m - 1 > j
        BY <1>3, <3>2, <4>1, <4>2 DEF Events
      <4> QED BY <1>4, <3>2, <4>2, <4>3
    <3> QED BY <3>1, <3>2
  <2>2. ASSUME NEW x \in cluster, x.kind \in ScopedKinds, About(current', x, "delete")
        PROVE  Waiting(x, "upsert")'
    <3>1. PICK m \in Events(k) : m > 1 /\ About(pending[k][m], x, "upsert")
      BY <1>3, <2>2 DEF RebuildInv, DeletedAndBack
    <3>2. m # 1
      BY <1>3, <3>1
    <3> QED BY <1>4, <3>1, <3>2 DEF Waiting
  <2> QED BY <1>1, <2>1, <2>2 DEF DeletedAndBack
<1>9. ListsAreTold'
  BY <1>1, StartLists
<1>10. NodesAreTold'
  BY <1>1, <1>6 DEF RebuildInv, NodesAreTold
<1>11. ASSUME NEW kind, NoneOutstanding(kind)', kind # "none" PROVE NoneOutstanding(kind)
  <2>1. current.kind # kind
    BY <1>1, <1>11 DEF NoEvent
  <2>2. ASSUME NEW i \in Informers, NEW j \in Events(i) PROVE pending[i][j].kind # kind
    <3>1. CASE i # k
      BY <1>3, <1>11, <3>1 DEF NoneOutstanding
    <3>2. CASE i = k /\ j = 1
      BY <1>3, <1>11, <3>2 DEF NoneOutstanding
    <3>3. CASE i = k /\ j # 1
      BY <1>4, <1>11, <3>3 DEF NoneOutstanding
    <3> QED BY <3>1, <3>2, <3>3
  <2> QED BY <2>1, <2>2 DEF NoneOutstanding
<1>12. CategoriesInStep' /\ RestIsStatic'
  BY <1>1, <1>11 DEF RebuildInv, CategoriesInStep, RestIsStatic
<1> QED BY <1>7, <1>8, <1>9, <1>10, <1>12 DEF RebuildInv

\* Reading a list keeps RebuildInv.
LEMMA ListRebuild ==
    ASSUME IInv, RebuildInv, CollectList
    PROVE  RebuildInv'
<1> DEFINE i == CHOOSE x \in todo : \A y \in todo : x <= y
           new == {o \in cluster : o.src = CollectOrder[i]}
<1>1. /\ collected' = collected \cup new /\ todo' = todo \ {i}
      /\ UNCHANGED <<cluster, changes, pending, current, strategy, g>>
  BY DEF CollectList, stream
<1> HIDE DEF i
<1>2. \A x, c : (Waiting(x, c)' <=> Waiting(x, c)) /\ (Outstanding(x, c)' <=> Outstanding(x, c))
  BY <1>1 DEF Waiting, Outstanding, Events
<1>3. \A kind : NoneOutstanding(kind)' <=> NoneOutstanding(kind)
  BY <1>1 DEF NoneOutstanding, Events
<1>4. EventsHaveSources' /\ DeletedAndBack'
  BY <1>1, <1>2 DEF RebuildInv, EventsHaveSources, DeletedAndBack, Events
<1>5. ASSUME NEW x \in cluster, x.src \notin ToList' PROVE x \in new \/ x.src \notin ToList
  BY <1>1, <1>5 DEF ToList
<1>6. ListsAreTold'
  BY <1>1, <1>2, <1>5 DEF RebuildInv, ListsAreTold
<1>7. NodesAreTold'
  BY <1>1, <1>2 DEF RebuildInv, NodesAreTold
<1>8. CategoriesInStep' /\ RestIsStatic'
  BY <1>1, <1>3 DEF RebuildInv, CategoriesInStep, RestIsStatic
<1> QED BY <1>4, <1>6, <1>7, <1>8 DEF RebuildInv

\* Starting the collect over keeps RebuildInv.
LEMMA RestartRebuild ==
    ASSUME IInv', RebuildInv, UNCHANGED <<cluster, pending, current, g>>,
           StartCollect("narrow") \/ StartCollect("full")
    PROVE  RebuildInv'
<1>1. \A x, c : (Waiting(x, c)' <=> Waiting(x, c)) /\ (Outstanding(x, c)' <=> Outstanding(x, c))
  BY DEF Waiting, Outstanding, Events
<1>2. \A kind : NoneOutstanding(kind)' <=> NoneOutstanding(kind)
  BY DEF NoneOutstanding, Events
<1>3. EventsHaveSources' /\ DeletedAndBack'
  BY <1>1 DEF RebuildInv, EventsHaveSources, DeletedAndBack, Events
<1>4. NodesAreTold'
  BY <1>1 DEF RebuildInv, NodesAreTold
<1>5. CategoriesInStep' /\ RestIsStatic'
  BY <1>2 DEF RebuildInv, CategoriesInStep, RestIsStatic
<1> QED BY <1>3, <1>4, <1>5, StartLists DEF RebuildInv

-----------------------------------------------------------------------------
(* RebuildInv: the applies *)

\* The end of an Apply leaves the queues as they are.
LEMMA DoneQueues ==
    ASSUME RebuildInv, Done
    PROVE  /\ EventsHaveSources' /\ DeletedAndBack' /\ ListsAreTold'
           /\ \A x, c : (Outstanding(x, c)' <=> Waiting(x, c))
           /\ \A kind : NoneOutstanding(kind)' =>
                \A i \in Informers : \A j \in Events(i) : pending[i][j].kind # kind
<1>1. UNCHANGED <<cluster, pending, todo>> /\ current' = NoEvent /\ collected' = {}
  BY DEF Done
<1>2. \A x, c : Waiting(x, c)' <=> Waiting(x, c)
  BY <1>1 DEF Waiting, Events
<1>3. \A x, c : Outstanding(x, c)' <=> Waiting(x, c)
  BY <1>1, <1>2, NoEventAbout DEF Outstanding
<1>4. EventsHaveSources' /\ DeletedAndBack'
  BY <1>1, <1>2, NoEventAbout DEF RebuildInv, EventsHaveSources, DeletedAndBack, Events
<1>5. ListsAreTold'
  BY <1>1 DEF ListsAreTold
<1>6. \A kind : NoneOutstanding(kind)' =>
                \A i \in Informers : \A j \in Events(i) : pending[i][j].kind # kind
  BY <1>1 DEF NoneOutstanding, Events
<1> QED BY <1>3, <1>4, <1>5, <1>6

\* A complete snapshot has what the cluster has, but for what waiting events tell.
LEMMA SnapshotTold ==
    ASSUME ListsAreTold, current # NoEvent, todo = {}
    PROVE  /\ \A o \in cluster : o \in collected \/ Waiting(o, "upsert")
           /\ \A o \in collected : ID(o) \in IDs(cluster) \/ Waiting(o, "delete")
           /\ \A o : (\A i \in Informers : \A j \in Events(i) :
                        pending[i][j].kind # informerChangeKind(o))
                        => (o \in collected <=> o \in cluster)
<1>1. ToList = {}
  BY DEF ToList
<1>2. \A o \in cluster : o \in collected \/ Waiting(o, "upsert")
  BY <1>1 DEF ListsAreTold
<1>3. \A o \in collected : ID(o) \in IDs(cluster) \/ Waiting(o, "delete")
  BY DEF ListsAreTold, IDs
<1>4. ASSUME NEW o, \A i \in Informers : \A j \in Events(i) :
                        pending[i][j].kind # informerChangeKind(o)
      PROVE  o \in collected <=> o \in cluster
  <2>1. \A c : ~Waiting(o, c)
    BY <1>4 DEF Waiting, About
  <2> QED BY <1>2, <2>1 DEF ListsAreTold
<1> QED BY <1>2, <1>3, <1>4

\* A full rebuild keeps RebuildInv.
LEMMA FullRebuild ==
    ASSUME IInv, RebuildInv, ApplyFull
    PROVE  RebuildInv'
<1>1. PICK pick \in WebhookPicks(collected, Webhooks(collected)) : g' = Build(collected, pick)
  BY DEF ApplyFull
<1>2. Done /\ current # NoEvent /\ todo = {} /\ cluster' = cluster
  BY DEF ApplyFull, Done
<1>3. g'.nodes = BuildNodes(collected)
  BY <1>1 DEF Build, Graph
<1>4. /\ \A x, c : (Outstanding(x, c)' <=> Waiting(x, c))
      /\ \A kind : NoneOutstanding(kind)' =>
            \A i \in Informers : \A j \in Events(i) : pending[i][j].kind # kind
      /\ EventsHaveSources' /\ DeletedAndBack' /\ ListsAreTold'
  BY <1>2, DoneQueues
<1>5. /\ \A o \in cluster : o \in collected \/ Waiting(o, "upsert")
      /\ \A o \in collected : ID(o) \in IDs(cluster) \/ Waiting(o, "delete")
      /\ \A o : (\A i \in Informers : \A j \in Events(i) :
                    pending[i][j].kind # informerChangeKind(o))
                    => (o \in collected <=> o \in cluster)
  BY <1>2, SnapshotTold DEF RebuildInv
<1>6. NoImages(collected)
  BY SnapshotFacts
<1>7. ASSUME NEW o \in cluster, o.kind \in ScopedKinds PROVE ID(o) \in g'.nodes \/ Waiting(o, "upsert")
  <2>1. o \in collected => ID(o) \in BuildNodes(collected)
    BY <1>7 DEF BuildNodes, IDs, ScopedKinds
  <2> QED BY <1>3, <1>5, <2>1
<1>8. ASSUME NEW n \in NodesOfKinds(g', ScopedKinds) PROVE n \in IDs(cluster) \/ Waiting(n, "delete")
  <2>1. n \in BuildNodes(collected) /\ n.kind \in ScopedKinds /\ n.kind \notin StorageKinds \cup {"Image"}
    BY <1>3 DEF NodesOfKinds, ScopedKinds, StorageKinds
  <2>2. PICK o \in collected : n = ID(o)
    BY <1>6, <2>1, BuildKinds DEF IDs
  <2> QED BY <1>5, <2>2, ObjectID, Alike
<1>9. ASSUME NEW p \in OfKind(cluster, "Pod")
      PROVE  UsedImages(g', {ID(p)}) = ImageIDs(p) \/ Waiting(p, "upsert")
  <2>1. CASE p \in collected
    <3>1. p \in OfKind(collected, "Pod")
      BY <2>1 DEF OfKind
    <3>2. \A x, y \in Named(collected, "Pod", p.ns, {p.name}) : x = y
      BY SnapshotFacts
    <3>3. \A q \in OfKind(collected, "Pod") : ID(q) = ID(p) => q = p
      BY <3>1, <3>2, ObjectID DEF Named
    <3> QED BY <1>1, <3>1, <3>3, BuildUsedImages
  <2>2. CASE p \notin collected
    BY <1>5, <2>2 DEF OfKind
  <2> QED BY <2>1, <2>2
<1>10. NodesAreTold'
  BY <1>2, <1>4, <1>7, <1>8, <1>9 DEF NodesAreTold
<1>11. ASSUME NoneOutstanding("storage")' PROVE NodesOfKinds(g', StorageKinds) = StorageIDs(cluster)
  <2>1. {o \in collected : o.kind \in StorageKinds} = {o \in cluster : o.kind \in StorageKinds}
    BY <1>4, <1>5, <1>11, KindOfEvent
  <2>2. NodesOfKinds(g', StorageKinds) = StorageIDs(collected)
    BY <1>3, <1>6, BuildKinds DEF NodesOfKinds
  <2> QED BY <2>1, <2>2, SameCategories
<1>12. ASSUME NoneOutstanding("identity/security")'
       PROVE  NodesOfKinds(g', IdentityKinds) = IdentityIDs(cluster)
  <2>1. {o \in collected : o.kind \in IdentityKinds} = {o \in cluster : o.kind \in IdentityKinds}
    BY <1>4, <1>5, <1>12, KindOfEvent
  <2>2. NodesOfKinds(g', IdentityKinds) = IdentityIDs(collected)
    BY <1>3, <1>6, BuildKinds DEF NodesOfKinds
  <2> QED BY <2>1, <2>2, SameCategories
<1>13. CategoriesInStep'
  BY <1>2, <1>11, <1>12 DEF CategoriesInStep
<1>14. ASSUME NEW o, o.kind \notin WatchedKinds \cup {"ReplicaSet"}
       PROVE  o \in collected <=> o \in Initial
  <2>1. informerChangeKind(o) = ""
    BY <1>14, KindOfEvent
  <2>2. \A i \in Informers : \A j \in Events(i) : pending[i][j].kind # ""
    <3>1. \A i \in Informers : \A j \in Events(i) : pending[i][j] \in ChangeEvent
      BY DEF IInv, ObjectsInv, Events
    <3> QED BY <3>1 DEF ChangeEvent, ChangeKinds
  <2>3. o \in collected <=> o \in cluster
    BY <1>5, <2>1, <2>2
  <2> QED BY <1>14, <2>3 DEF RebuildInv, RestIsStatic
<1>15. {n \in g'.nodes : n.kind \notin WatchedKinds \cup {"Image"}} =
            IDs({o \in Initial : o.kind \notin WatchedKinds \cup {"ReplicaSet"}})
  <2>1. \A n : n.kind \notin WatchedKinds \cup {"Image"} =>
            (n \in BuildNodes(collected) <=> n \in IDs({o \in collected : o.kind # "ReplicaSet"}))
    BY <1>6, BuildKinds DEF WatchedKinds
  <2>2. \A o \in Initial : o.kind # "Image"
    <3>1. \A o \in Initial : LikeTemplate(o)
      BY ObjectsAssumption DEF LikeTemplate
    <3> QED BY <3>1, Shapes, KindsListed
  <2> QED BY <1>3, <1>6, <1>14, <2>1, <2>2, ObjectID DEF IDs
<1>16. RestIsStatic'
  BY <1>2, <1>15 DEF RebuildInv, RestIsStatic
<1> QED BY <1>4, <1>10, <1>13, <1>16 DEF RebuildInv

(* A node or an object that the event ev is about. *)
Concerns(ev, x) == ev.kind = informerChangeKind(x) /\ x.ns = ev.ns /\ x.name = ev.name

\* A scoped apply changes, of pods, services, events and workloads, the nodes that its
\* event is about, and takes them from the snapshot; of a category it reloads the
\* nodes; it leaves all others but the images.
LEMMA NarrowNodes ==
    ASSUME IInv, NEW ev \in ChangeEvent, NEW pick \in WebhookPicks(collected, Candidates(ev, collected))
    PROVE  LET H == NarrowApply(ev, collected, pick)
           IN  /\ \A n : n.kind \in ScopedKinds /\ ~Concerns(ev, n) => (n \in H.nodes <=> n \in g.nodes)
               /\ \A n \in NodesOfKinds(H, ScopedKinds) : Concerns(ev, n) =>
                    ev.change = "upsert" /\ (n \in g.nodes \/ \E o \in collected : n = ID(o))
               /\ ev.change = "upsert" =>
                    \A o \in collected : o.kind \in ScopedKinds /\ Concerns(ev, o) => ID(o) \in H.nodes
               /\ \A n : n.kind \notin WatchedKinds \cup {"Image"} => (n \in H.nodes <=> n \in g.nodes)
               /\ NodesOfKinds(H, StorageKinds) =
                    IF ev.kind = "storage" THEN StorageIDs(collected) ELSE NodesOfKinds(g, StorageKinds)
               /\ NodesOfKinds(H, IdentityKinds) =
                    IF ev.kind = "identity/security" THEN IdentityIDs(collected)
                                                     ELSE NodesOfKinds(g, IdentityKinds)
<1> DEFINE s == collected
           H == NarrowApply(ev, s, pick)
           Goal == /\ \A n : n.kind \in ScopedKinds /\ ~Concerns(ev, n) => (n \in H.nodes <=> n \in g.nodes)
                   /\ \A n \in NodesOfKinds(H, ScopedKinds) : Concerns(ev, n) =>
                        ev.change = "upsert" /\ (n \in g.nodes \/ \E o \in s : n = ID(o))
                   /\ ev.change = "upsert" =>
                        \A o \in s : o.kind \in ScopedKinds /\ Concerns(ev, o) => ID(o) \in H.nodes
                   /\ \A n : n.kind \notin WatchedKinds \cup {"Image"} => (n \in H.nodes <=> n \in g.nodes)
                   /\ NodesOfKinds(H, StorageKinds) =
                        IF ev.kind = "storage" THEN StorageIDs(s) ELSE NodesOfKinds(g, StorageKinds)
                   /\ NodesOfKinds(H, IdentityKinds) =
                        IF ev.kind = "identity/security" THEN IdentityIDs(s) ELSE NodesOfKinds(g, IdentityKinds)
<1>0. ev.change \in {"upsert", "delete"}
  BY DEF ChangeEvent
<1>1. /\ ev.kind = "pod" => PodOnly(g, H, s, ev.ns, ev.name, ev.change)
      /\ ev.kind = "service" => ScopedUpdate(g, H, s, "Service", ev.ns, ev.name, ev.change)
      /\ ev.kind = "event" => ScopedUpdate(g, H, s, "Event", ev.ns, ev.name, ev.change)
      /\ ev.kind = "workload" => ScopedUpdate(g, H, s, "Workload", ev.ns, ev.name, ev.change)
      /\ ev.kind = "storage" => CategoryUpdate(g, H, StorageKinds, StorageIDs(s))
      /\ ev.kind = "identity/security" => CategoryUpdate(g, H, IdentityKinds, IdentityIDs(s))
  BY NarrowFacts
<1> SUFFICES Goal
  OBVIOUS
<1> HIDE DEF H
<1>2. ASSUME NEW K \in ScopedKinds, ev.kind \notin {"storage", "identity/security"},
             \A n : n.kind \in ScopedKinds => (Concerns(ev, n) <=> Bears(n, K, ev.ns, ev.name)),
             \A n : n.kind # "Image" /\ ~Bears(n, K, ev.ns, ev.name) => (n \in H.nodes <=> n \in g.nodes),
             ev.change = "delete" => NodesNamed(H, K, ev.ns, ev.name) = {},
             NodesNamed(H, K, ev.ns, ev.name) \subseteq g.nodes \cup IDs(Named(s, K, ev.ns, {ev.name})),
             ev.change # "delete" => IDs(Named(s, K, ev.ns, {ev.name})) \subseteq H.nodes
      PROVE  Goal
  <2>1. \A n : Bears(n, K, ev.ns, ev.name) => n.kind \in ScopedKinds
    BY <1>2 DEF Bears
  <2>2. ASSUME NEW n \in NodesOfKinds(H, ScopedKinds), Concerns(ev, n)
        PROVE  ev.change = "upsert" /\ (n \in g.nodes \/ \E o \in s : n = ID(o))
    <3>1. n \in NodesNamed(H, K, ev.ns, ev.name)
      BY <1>2, <2>2 DEF Bears, NodesNamed, NodesOfKinds
    <3>2. n \in g.nodes \/ n \in IDs(Named(s, K, ev.ns, {ev.name}))
      BY <1>2, <3>1
    <3>3. n \in g.nodes \/ \E o \in s : n = ID(o)
      BY <3>2 DEF IDs, Named, OfKind
    <3> QED BY <1>0, <1>2, <3>1, <3>3
  <2>3. ASSUME NEW o \in s, ev.change = "upsert", o.kind \in ScopedKinds, Concerns(ev, o)
        PROVE  ID(o) \in H.nodes
    <3>1. o \in Named(s, K, ev.ns, {ev.name})
      BY <1>2, <2>3 DEF Bears, Named, OfKind
    <3> QED BY <1>2, <2>3, <3>1 DEF IDs
  <2>4. \A n : n.kind \notin ScopedKinds /\ n.kind # "Image" => (n \in H.nodes <=> n \in g.nodes)
    BY <1>2, <2>1
  <2>5. /\ NodesOfKinds(H, StorageKinds) = NodesOfKinds(g, StorageKinds)
        /\ NodesOfKinds(H, IdentityKinds) = NodesOfKinds(g, IdentityKinds)
    BY <2>4 DEF NodesOfKinds, ScopedKinds, StorageKinds, IdentityKinds
  <2>6. \A n : n.kind \in ScopedKinds /\ ~Concerns(ev, n) => (n \in H.nodes <=> n \in g.nodes)
    BY <1>2 DEF ScopedKinds
  <2>7. \A n : n.kind \notin WatchedKinds \cup {"Image"} => (n \in H.nodes <=> n \in g.nodes)
    BY <2>4 DEF WatchedKinds
  <2> QED BY <1>2, <2>2, <2>3, <2>5, <2>6, <2>7
<1>3. ASSUME NEW K \in {StorageKinds, IdentityKinds}, ev.kind \in {"storage", "identity/security"},
             NEW C, CategoryUpdate(g, H, K, C)
      PROVE  /\ \A n : n.kind \notin K => (n \in H.nodes <=> n \in g.nodes)
             /\ \A x : x.kind \in ScopedKinds => ~Concerns(ev, x)
             /\ \A n : n.kind \in ScopedKinds => (n \in H.nodes <=> n \in g.nodes)
             /\ \A n : n.kind \notin WatchedKinds => (n \in H.nodes <=> n \in g.nodes)
             /\ NodesOfKinds(H, K) = C
  <2>1. \A n : n.kind \notin K => (n \in H.nodes <=> n \in g.nodes)
    BY <1>3 DEF CategoryUpdate
  <2>2. \A x : x.kind \in ScopedKinds => ~Concerns(ev, x)
    BY <1>3, KindOfEvent DEF Concerns, ScopedKinds, StorageKinds, IdentityKinds
  <2>3. \A k \in ScopedKinds : k \notin K
    BY <1>3 DEF ScopedKinds, StorageKinds, IdentityKinds
  <2>4. K \subseteq WatchedKinds
    BY <1>3 DEF WatchedKinds
  <2> QED BY <1>3, <2>1, <2>2, <2>3, <2>4 DEF CategoryUpdate
<1>4. CASE ev.kind = "pod"
  <2>1. \A n : n.kind \in ScopedKinds => (Concerns(ev, n) <=> Bears(n, "Pod", ev.ns, ev.name))
    BY <1>4, KindOfEvent DEF Concerns, Bears
  <2>2. "Pod" \in ScopedKinds
    BY DEF ScopedKinds
  <2>3. /\ NodesNamed(H, "Pod", ev.ns, ev.name) =
             IF ev.change = "delete" THEN {} ELSE IDs(Named(s, "Pod", ev.ns, {ev.name}))
        /\ \A n : n.kind # "Image" /\ ~Bears(n, "Pod", ev.ns, ev.name) => (n \in H.nodes <=> n \in g.nodes)
    BY <1>1, <1>4 DEF PodOnly
  <2>4. NodesNamed(H, "Pod", ev.ns, ev.name) \subseteq H.nodes
    BY DEF NodesNamed
  <2> HIDE DEF Goal
  <2> QED BY <1>2, <1>4, <2>1, <2>2, <2>3, <2>4
<1>5. ASSUME NEW K \in {"Service", "Event", "Workload"}, ev.kind \notin {"storage", "identity/security"},
             \A n : n.kind \in ScopedKinds => (Concerns(ev, n) <=> Bears(n, K, ev.ns, ev.name)),
             ScopedUpdate(g, H, s, K, ev.ns, ev.name, ev.change)
      PROVE  Goal
  <2>1. K \in ScopedKinds
    BY DEF ScopedKinds
  <2> HIDE DEF Goal
  <2> QED BY <1>2, <1>5, <2>1 DEF ScopedUpdate
<1>6. CASE ev.kind = "service"
  <2>1. \A n : n.kind \in ScopedKinds => (Concerns(ev, n) <=> Bears(n, "Service", ev.ns, ev.name))
    BY <1>6, KindOfEvent DEF Concerns, Bears
  <2> HIDE DEF Goal
  <2> QED BY <1>1, <1>5, <1>6, <2>1
<1>7. CASE ev.kind = "event"
  <2>1. \A n : n.kind \in ScopedKinds => (Concerns(ev, n) <=> Bears(n, "Event", ev.ns, ev.name))
    BY <1>7, KindOfEvent DEF Concerns, Bears
  <2> HIDE DEF Goal
  <2> QED BY <1>1, <1>5, <1>7, <2>1
<1>8. CASE ev.kind = "workload"
  <2>1. \A n : n.kind \in ScopedKinds => (Concerns(ev, n) <=> Bears(n, "Workload", ev.ns, ev.name))
    BY <1>8, KindOfEvent DEF Concerns, Bears, ScopedKinds
  <2> HIDE DEF Goal
  <2> QED BY <1>1, <1>5, <1>8, <2>1
<1>9. CASE ev.kind = "storage"
  <2>1. NodesOfKinds(H, IdentityKinds) = NodesOfKinds(g, IdentityKinds)
    BY <1>1, <1>9 DEF CategoryUpdate, NodesOfKinds, StorageKinds, IdentityKinds
  <2>2. /\ \A x : x.kind \in ScopedKinds => ~Concerns(ev, x)
        /\ \A n : n.kind \in ScopedKinds => (n \in H.nodes <=> n \in g.nodes)
        /\ \A n : n.kind \notin WatchedKinds => (n \in H.nodes <=> n \in g.nodes)
        /\ NodesOfKinds(H, StorageKinds) = StorageIDs(s)
    <3>1. CategoryUpdate(g, H, StorageKinds, StorageIDs(s))
      BY <1>1, <1>9
    <3> HIDE DEF s
    <3> QED BY <1>3, <1>9, <3>1
  <2>3. \A n \in NodesOfKinds(H, ScopedKinds) : ~Concerns(ev, n)
    BY <2>2 DEF NodesOfKinds
  <2> QED BY <1>9, <2>1, <2>2, <2>3
<1>10. CASE ev.kind = "identity/security"
  <2>1. NodesOfKinds(H, StorageKinds) = NodesOfKinds(g, StorageKinds)
    BY <1>1, <1>10 DEF CategoryUpdate, NodesOfKinds, StorageKinds, IdentityKinds
  <2>2. /\ \A x : x.kind \in ScopedKinds => ~Concerns(ev, x)
        /\ \A n : n.kind \in ScopedKinds => (n \in H.nodes <=> n \in g.nodes)
        /\ \A n : n.kind \notin WatchedKinds => (n \in H.nodes <=> n \in g.nodes)
        /\ NodesOfKinds(H, IdentityKinds) = IdentityIDs(s)
    <3>1. CategoryUpdate(g, H, IdentityKinds, IdentityIDs(s))
      BY <1>1, <1>10
    <3> HIDE DEF s
    <3> QED BY <1>3, <1>10, <3>1
  <2>3. \A n \in NodesOfKinds(H, ScopedKinds) : ~Concerns(ev, n)
    BY <2>2 DEF NodesOfKinds
  <2> QED BY <1>10, <2>1, <2>2, <2>3
<1> HIDE DEF Goal
<1> QED BY <1>4, <1>6, <1>7, <1>8, <1>9, <1>10 DEF ChangeEvent, ChangeKinds

\* A scoped apply keeps RebuildInv.
LEMMA NarrowRebuild ==
    ASSUME IInv, RebuildInv, ApplyNarrow
    PROVE  RebuildInv'
<1>1. PICK pick \in WebhookPicks(collected, Candidates(current, collected)) :
        g' = NarrowApply(current, collected, pick)
  BY DEF ApplyNarrow
<1>2. Done /\ current # NoEvent /\ current \in ChangeEvent /\ todo = {} /\ cluster' = cluster
  BY DEF ApplyNarrow, Done, IInv, ObjectsInv
<1>3. /\ \A n : n.kind \in ScopedKinds /\ ~Concerns(current, n) => (n \in g'.nodes <=> n \in g.nodes)
      /\ \A n \in NodesOfKinds(g', ScopedKinds) : Concerns(current, n) =>
            current.change = "upsert" /\ (n \in g.nodes \/ \E o \in collected : n = ID(o))
      /\ current.change = "upsert" =>
            \A o \in collected : o.kind \in ScopedKinds /\ Concerns(current, o) => ID(o) \in g'.nodes
      /\ \A n : n.kind \notin WatchedKinds \cup {"Image"} => (n \in g'.nodes <=> n \in g.nodes)
      /\ NodesOfKinds(g', StorageKinds) =
            IF current.kind = "storage" THEN StorageIDs(collected) ELSE NodesOfKinds(g, StorageKinds)
      /\ NodesOfKinds(g', IdentityKinds) =
            IF current.kind = "identity/security" THEN IdentityIDs(collected)
                                                  ELSE NodesOfKinds(g, IdentityKinds)
  BY <1>1, <1>2, NarrowNodes
<1>4. /\ \A x, c : (Outstanding(x, c)' <=> Waiting(x, c))
      /\ \A kind : NoneOutstanding(kind)' =>
            \A i \in Informers : \A j \in Events(i) : pending[i][j].kind # kind
      /\ EventsHaveSources' /\ DeletedAndBack' /\ ListsAreTold'
  BY <1>2, DoneQueues
<1>5. /\ \A o \in cluster : o \in collected \/ Waiting(o, "upsert")
      /\ \A o \in collected : ID(o) \in IDs(cluster) \/ Waiting(o, "delete")
      /\ \A o : (\A i \in Informers : \A j \in Events(i) :
                    pending[i][j].kind # informerChangeKind(o))
                    => (o \in collected <=> o \in cluster)
  BY <1>2, SnapshotTold DEF RebuildInv
<1>6. \A x, c : About(current, x, c) <=> Concerns(current, x) /\ current.change = c
  BY DEF About, Concerns
<1>7. current.change \in {"upsert", "delete"}
  BY <1>2 DEF ChangeEvent
<1>8. ASSUME NEW o \in cluster, o.kind \in ScopedKinds PROVE ID(o) \in g'.nodes \/ Waiting(o, "upsert")
  <2>1. ID(o).kind = o.kind /\ (Concerns(current, ID(o)) <=> Concerns(current, o))
    <3>1. ID(o).kind = o.kind /\ ID(o).ns = o.ns /\ ID(o).name = o.name
      BY ObjectID
    <3>2. \A c : About(current, ID(o), c) <=> About(current, o, c)
      BY <3>1, Alike
    <3> QED BY <1>6, <3>1, <3>2
  <2>2. CASE ~Concerns(current, o)
    <3>1. ID(o) \in g.nodes \/ Outstanding(o, "upsert")
      BY <1>8 DEF RebuildInv, NodesAreTold
    <3> QED BY <1>3, <1>6, <1>8, <2>1, <2>2, <3>1 DEF Outstanding
  <2>3. CASE Concerns(current, o) /\ current.change = "upsert"
    BY <1>3, <1>5, <1>8, <2>3
  <2>4. CASE Concerns(current, o) /\ current.change = "delete"
    BY <1>6, <1>8, <2>4 DEF RebuildInv, DeletedAndBack
  <2> QED BY <1>7, <2>2, <2>3, <2>4
<1>9. ASSUME NEW n \in NodesOfKinds(g', ScopedKinds) PROVE n \in IDs(cluster) \/ Waiting(n, "delete")
  <2>1. n \in g'.nodes /\ n.kind \in ScopedKinds
    BY DEF NodesOfKinds
  <2>2. n \in g.nodes => n \in IDs(cluster) \/ Outstanding(n, "delete")
    BY <2>1 DEF RebuildInv, NodesAreTold, NodesOfKinds
  <2>3. CASE ~Concerns(current, n)
    BY <1>3, <1>6, <2>1, <2>2, <2>3 DEF Outstanding
  <2>4. CASE Concerns(current, n) /\ n \in g.nodes
    BY <1>3, <1>6, <2>2, <2>4 DEF Outstanding
  <2>5. CASE Concerns(current, n) /\ n \notin g.nodes
    <3>1. PICK o \in collected : n = ID(o)
      BY <1>3, <2>5
    <3> QED BY <1>5, <3>1, ObjectID, Alike
  <2> QED BY <2>3, <2>4, <2>5
<1>10. ASSUME NEW p \in OfKind(cluster, "Pod")
       PROVE  UsedImages(g', {ID(p)}) = ImageIDs(p) \/ Waiting(p, "upsert")
  <2>1. p \in cluster /\ p.kind = "Pod" /\ p.kind \in ScopedKinds
    BY DEF OfKind, ScopedKinds
  <2>2. UsedImages(g, {ID(p)}) = ImageIDs(p) \/ Outstanding(p, "upsert")
    BY DEF RebuildInv, NodesAreTold
  <2>3. CASE current.kind # "pod"
    <3>1. EdgesOfKinds(g', {"uses_image"}) = EdgesOfKinds(g, {"uses_image"})
      BY <1>1, <1>2, <2>3, NarrowFacts
    <3>2. UsedImages(g', {ID(p)}) = UsedImages(g, {ID(p)})
      BY <3>1 DEF UsedImages, EdgesOfKinds
    <3>3. ~Concerns(current, p)
      BY <2>1, <2>3, KindOfEvent DEF Concerns
    <3> QED BY <1>6, <2>2, <3>2, <3>3 DEF Outstanding
  <2>4. CASE current.kind = "pod"
    <3>1. PodOnly(g, g', collected, current.ns, current.name, current.change)
      BY <1>1, <1>2, <2>4, NarrowFacts
    <3>2. Bears(ID(p), "Pod", current.ns, current.name) <=> Concerns(current, p)
      BY <2>1, <2>4, ObjectID, KindOfEvent DEF Bears, Concerns
    <3>3. CASE ~Concerns(current, p)
      <4>1. \A e : e.kind = "uses_image" /\ e.from = ID(p) => (e \in g'.edges <=> e \in g.edges)
        BY <3>1, <3>2, <3>3 DEF PodOnly
      <4>2. UsedImages(g', {ID(p)}) = UsedImages(g, {ID(p)})
        BY <4>1 DEF UsedImages
      <4> QED BY <1>6, <2>2, <3>3, <4>2 DEF Outstanding
    <3>4. CASE Concerns(current, p) /\ current.change = "delete"
      BY <1>6, <2>1, <3>4 DEF RebuildInv, DeletedAndBack
    <3>5. CASE Concerns(current, p) /\ current.change = "upsert" /\ p \in collected
      <4>1. p \in Named(collected, "Pod", current.ns, {current.name})
        BY <2>1, <3>5 DEF Named, OfKind, Concerns
      <4> QED BY <3>1, <3>5, <4>1 DEF PodOnly
    <3>6. CASE p \notin collected
      BY <1>5, <2>1, <3>6
    <3> QED BY <1>7, <3>3, <3>4, <3>5, <3>6
  <2> QED BY <2>3, <2>4
<1>11. NodesAreTold'
  BY <1>2, <1>4, <1>8, <1>9, <1>10 DEF NodesAreTold
<1>12. ASSUME NoneOutstanding("storage")' PROVE NodesOfKinds(g', StorageKinds) = StorageIDs(cluster)
  <2>1. CASE current.kind = "storage"
    <3>1. {o \in collected : o.kind \in StorageKinds} = {o \in cluster : o.kind \in StorageKinds}
      BY <1>4, <1>5, <1>12, KindOfEvent
    <3> QED BY <1>3, <2>1, <3>1, SameCategories
  <2>2. CASE current.kind # "storage"
    <3>1. NoneOutstanding("storage")
      BY <1>4, <1>12, <2>2 DEF NoneOutstanding
    <3> QED BY <1>3, <2>2, <3>1 DEF RebuildInv, CategoriesInStep
  <2> QED BY <2>1, <2>2
<1>13. ASSUME NoneOutstanding("identity/security")'
       PROVE  NodesOfKinds(g', IdentityKinds) = IdentityIDs(cluster)
  <2>1. CASE current.kind = "identity/security"
    <3>1. {o \in collected : o.kind \in IdentityKinds} = {o \in cluster : o.kind \in IdentityKinds}
      BY <1>4, <1>5, <1>13, KindOfEvent
    <3> QED BY <1>3, <2>1, <3>1, SameCategories
  <2>2. CASE current.kind # "identity/security"
    <3>1. NoneOutstanding("identity/security")
      BY <1>4, <1>13, <2>2 DEF NoneOutstanding
    <3> QED BY <1>3, <2>2, <3>1 DEF RebuildInv, CategoriesInStep
  <2> QED BY <2>1, <2>2
<1>14. CategoriesInStep'
  BY <1>2, <1>12, <1>13 DEF CategoriesInStep
<1>15. RestIsStatic'
  BY <1>2, <1>3 DEF RebuildInv, RestIsStatic
<1> QED BY <1>4, <1>11, <1>14, <1>15 DEF RebuildInv

-----------------------------------------------------------------------------
(* RebuildInv: the specification *)

\* The bootstrap graph is that of the objects the informers listed.
LEMMA InitRebuild ==
    ASSUME Init
    PROVE  RebuildInv
<1>1. PICK pick \in WebhookPicks(Initial, Webhooks(Initial)) : g = Build(Initial, pick)
  BY DEF Init
<1>2. /\ cluster = Initial /\ pending = [i \in Informers |-> <<>>] /\ current = NoEvent
      /\ todo = {} /\ collected = {} /\ g.nodes = BuildNodes(Initial)
  BY <1>1 DEF Init, Build, Graph
<1>3. \A i \in Informers : Events(i) = {}
  BY <1>2 DEF Events
<1>4. \A o \in Initial : LikeTemplate(o)
  BY ObjectsAssumption DEF LikeTemplate
<1>5. NoImages(Initial)
  BY <1>4, Shapes, KindsListed DEF NoImages
<1>6. EventsHaveSources /\ DeletedAndBack /\ ListsAreTold
  BY <1>2, <1>3, NoEventAbout DEF EventsHaveSources, DeletedAndBack, ListsAreTold
<1>7. \A o \in Initial : o.kind \in ScopedKinds => ID(o) \in g.nodes
  BY <1>2 DEF BuildNodes, IDs, ScopedKinds
<1>8. ASSUME NEW n \in NodesOfKinds(g, ScopedKinds) PROVE n \in IDs(cluster)
  <2>1. n \in BuildNodes(Initial) /\ n.kind \notin StorageKinds \cup {"Image"}
    BY <1>2 DEF NodesOfKinds, ScopedKinds, StorageKinds
  <2> QED BY <1>2, <1>5, <2>1, BuildKinds DEF IDs
<1>9. ASSUME NEW p \in OfKind(cluster, "Pod") PROVE UsedImages(g, {ID(p)}) = ImageIDs(p)
  <2>1. \A q \in OfKind(Initial, "Pod") : ID(q) = ID(p) => q = p
    <3>1. \A q \in OfKind(Initial, "Pod") : ID(q) = ID(p) => SameKey(q, p)
      BY ObjectID DEF SameKey
    <3> QED BY <1>2, <3>1, ObjectsAssumption DEF OfKind
  <2> QED BY <1>1, <1>2, <2>1, BuildUsedImages
<1>10. NodesAreTold
  BY <1>2, <1>7, <1>8, <1>9 DEF NodesAreTold
<1>11. CategoriesInStep
  BY <1>2, <1>5, BuildKinds DEF CategoriesInStep, NodesOfKinds
<1>12. {n \in g.nodes : n.kind \notin WatchedKinds \cup {"Image"}} =
            IDs({o \in Initial : o.kind \notin WatchedKinds \cup {"ReplicaSet"}})
  <2>1. \A n : n.kind \notin WatchedKinds \cup {"Image"} =>
            (n \in BuildNodes(Initial) <=> n \in IDs({o \in Initial : o.kind # "ReplicaSet"}))
    BY <1>5, BuildKinds DEF WatchedKinds
  <2> QED BY <1>2, <1>5, <2>1, ObjectID DEF IDs, NoImages
<1>13. RestIsStatic
  BY <1>2, <1>12 DEF RestIsStatic
<1> QED BY <1>6, <1>10, <1>11, <1>13 DEF RebuildInv

\* Every step keeps RebuildInv, in a cluster whose scoped updates do not overlap.
LEMMA NextRebuild ==
    ASSUME ScopesDisjoint, IInv, IInv', RebuildInv, [Next]_vars
    PROVE  RebuildInv'
<1>1. CASE Cluster
  BY <1>1, ClusterRebuild
<1>2. ASSUME NEW i \in Informers, TakeEvent(i) PROVE RebuildInv'
  BY <1>2, TakeRebuild
<1>3. CASE CollectList
  BY <1>3, ListRebuild
<1>4. CASE CollectFail
  BY <1>4, RestartRebuild DEF CollectFail, stream
<1>5. CASE ApplyNarrow
  BY <1>5, NarrowRebuild
<1>6. CASE RejectNarrow
  BY <1>6, RestartRebuild DEF RejectNarrow, stream
<1>7. CASE ApplyFull
  BY <1>7, FullRebuild
<1>8. CASE UNCHANGED vars
  <2>1. UNCHANGED <<cluster, pending, current, todo, collected, g>>
    BY <1>8 DEF vars, stream, collecting
  <2>2. \A x, c : (Waiting(x, c)' <=> Waiting(x, c)) /\ (Outstanding(x, c)' <=> Outstanding(x, c))
    BY <2>1 DEF Waiting, Outstanding, Events
  <2>3. \A kind : NoneOutstanding(kind)' <=> NoneOutstanding(kind)
    BY <2>1 DEF NoneOutstanding, Events
  <2>4. EventsHaveSources' /\ DeletedAndBack'
    BY <2>1, <2>2 DEF RebuildInv, EventsHaveSources, DeletedAndBack, Events
  <2>5. ListsAreTold' /\ NodesAreTold'
    BY <2>1, <2>2 DEF RebuildInv, ListsAreTold, NodesAreTold, ToList
  <2>6. CategoriesInStep' /\ RestIsStatic'
    BY <2>1, <2>3 DEF RebuildInv, CategoriesInStep, RestIsStatic
  <2> QED BY <2>4, <2>5, <2>6 DEF RebuildInv
<1> QED BY <1>1, <1>2, <1>3, <1>4, <1>5, <1>6, <1>7, <1>8 DEF Next, Manager

\* With no event outstanding, RebuildInv makes the nodes those of a rebuild.
LEMMA QuietNodes ==
    ASSUME IInv, RebuildInv, Quiescent
    PROVE  g.nodes = BuildNodes(cluster)
<1>1. current = NoEvent /\ \A i \in Informers : Events(i) = {}
  BY DEF Quiescent, Events
<1>2. \A x, c : ~Outstanding(x, c)
  BY <1>1, NoEventAbout DEF Outstanding, Waiting
<1>3. NoneOutstanding("storage") /\ NoneOutstanding("identity/security")
  BY <1>1 DEF NoneOutstanding, NoEvent
<1>4. \A o \in cluster : LikeTemplate(o)
  BY DEF IInv, ObjectsInv
<1>5. NoImages(cluster)
  BY <1>4, Shapes, KindsListed DEF NoImages
<1>6. ASSUME NEW n, n.kind \in ScopedKinds PROVE n \in g.nodes <=> n \in BuildNodes(cluster)
  <2>1. n \in g.nodes => n \in IDs(cluster)
    BY <1>2, <1>6 DEF RebuildInv, NodesAreTold, NodesOfKinds
  <2>2. n \in IDs(cluster) => n \in g.nodes
    BY <1>2, <1>6, ObjectID DEF RebuildInv, NodesAreTold, IDs
  <2>3. n.kind \notin StorageKinds \cup {"Image"} /\ n.kind # "ReplicaSet"
    BY <1>6 DEF ScopedKinds, StorageKinds
  <2>4. n \in IDs(cluster) <=> n \in IDs({o \in cluster : o.kind # "ReplicaSet"})
    BY <2>3, ObjectID DEF IDs
  <2> QED BY <1>5, <2>1, <2>2, <2>3, <2>4, BuildKinds
<1>7. ASSUME NEW n, n.kind \in StorageKinds \cup IdentityKinds
      PROVE  n \in g.nodes <=> n \in BuildNodes(cluster)
  <2>1. /\ NodesOfKinds(g, StorageKinds) = StorageIDs(cluster)
        /\ NodesOfKinds(g, IdentityKinds) = IdentityIDs(cluster)
    BY <1>3 DEF RebuildInv, CategoriesInStep
  <2> QED BY <1>5, <1>7, <2>1, BuildKinds DEF NodesOfKinds
<1>8. ASSUME NEW n, n.kind = "Image" PROVE n \in g.nodes <=> n \in BuildNodes(cluster)
  <2>1. n \in BuildNodes(cluster) <=> \E p \in OfKind(cluster, "Pod") : n \in ImageIDs(p)
    BY <1>5, <1>8, BuildKinds
  <2>2. \A p \in OfKind(cluster, "Pod") : UsedImages(g, {ID(p)}) = ImageIDs(p)
    BY <1>2 DEF RebuildInv, NodesAreTold
  <2>3. ASSUME n \in g.nodes PROVE \E p \in OfKind(cluster, "Pod") : n \in ImageIDs(p)
    <3>1. PICK e \in g.edges : e.kind = "uses_image" /\ e.to = n
      BY <1>8, <2>3 DEF IInv, ImageGraph, NodesOfKinds, EdgesOfKinds
    <3>2. e.from \in g.nodes /\ e.from.kind = "Pod"
      BY <3>1 DEF IInv, ImageGraph, ImageEnds
    <3>3. e.from \in IDs(cluster)
      BY <1>2, <3>2 DEF RebuildInv, NodesAreTold, NodesOfKinds, ScopedKinds
    <3>4. PICK p \in cluster : e.from = ID(p)
      BY <3>3 DEF IDs
    <3>5. p \in OfKind(cluster, "Pod")
      BY <3>2, <3>4, ObjectID DEF OfKind
    <3>6. n \in UsedImages(g, {ID(p)})
      BY <3>1, <3>4 DEF UsedImages
    <3> QED BY <2>2, <3>5, <3>6
  <2>4. ASSUME NEW p \in OfKind(cluster, "Pod"), n \in ImageIDs(p) PROVE n \in g.nodes
    <3>1. PICK e \in g.edges : e.kind = "uses_image" /\ e.to = n
      BY <2>2, <2>4 DEF UsedImages
    <3> QED BY <3>1 DEF IInv, ImageGraph, ImageEnds
  <2> QED BY <2>1, <2>3, <2>4
<1>9. ASSUME NEW n, n.kind \notin WatchedKinds \cup {"Image"}
      PROVE  n \in g.nodes <=> n \in BuildNodes(cluster)
  <2>1. n \in g.nodes <=> n \in IDs({o \in Initial : o.kind \notin WatchedKinds \cup {"ReplicaSet"}})
    BY <1>9 DEF RebuildInv, RestIsStatic
  <2>2. \A o : o.kind \notin WatchedKinds => (o \in Initial <=> o \in cluster)
    BY DEF RebuildInv, RestIsStatic
  <2>3. n \in BuildNodes(cluster) <=> n \in IDs({o \in cluster : o.kind # "ReplicaSet"})
    BY <1>5, <1>9, BuildKinds DEF WatchedKinds
  <2> QED BY <1>9, <2>1, <2>2, <2>3, ObjectID DEF IDs
<1>10. \A n : n \in g.nodes <=> n \in BuildNodes(cluster)
  BY <1>6, <1>7, <1>8, <1>9 DEF WatchedKinds
<1> QED
  BY <1>10

\* The informer stream converges: once every event has been applied, the nodes of the
\* graph are those a rebuild would load, whatever the order in which events, lists and
\* changes of the cluster interleave.  It takes a cluster in which all that changes is
\* watched, no ReplicaSet comes or goes, and a workload that changes shares its name
\* with no workload of another resource (ScopesDisjoint).
THEOREM LiveNodesMatchRebuild ==
    ASSUME ScopesDisjoint
    PROVE  Spec => []NodesMatchRebuild
<1>1. Init => RebuildInv
  BY InitRebuild
<1>2. IInv /\ IInv' /\ RebuildInv /\ [Next]_vars => RebuildInv'
  BY NextRebuild
<1>3. IInv /\ RebuildInv => NodesMatchRebuild
  BY QuietNodes DEF NodesMatchRebuild
<1> QED BY <1>1, <1>2, <1>3, LiveInvariant, PTL DEF Spec

=============================================================================
