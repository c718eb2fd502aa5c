------------------------------ MODULE MCObjects ------------------------------
(* Objects for the models of LiveGraph: templates have no uid yet.           *)
EXTENDS LiveGraph

Object(kind, src, ns, name) ==
    [kind |-> kind, src |-> src, ns |-> ns, name |-> name, uid |-> NoUid]
Static(kind, ns, name, uid) == [Object(kind, kind, ns, name) EXCEPT !.uid = uid]
With(t, uid) == [t EXCEPT !.uid = uid]

BarePod(name) ==
    [kind |-> "Pod", src |-> "Pod", ns |-> "d", name |-> name, uid |-> NoUid,
     node |-> "", sa |-> "", configMaps |-> {}, secrets |-> {}, pvcs |-> {},
     images |-> {}, labels |-> {}, owners |-> {}]
Service(name, selector) ==
    [kind |-> "Service", src |-> "Service", ns |-> "d", name |-> name, uid |-> NoUid,
     selector |-> selector]

ServiceAccount(name) == Object("ServiceAccount", "ServiceAccount", "d", name)
Binding(kind, ns, name, subjects) ==
    [kind |-> kind, src |-> kind, ns |-> ns, name |-> name, uid |-> NoUid,
     subjects |-> subjects]
Subject(kind, ns, name) == [kind |-> kind, ns |-> ns, name |-> name]

Claim(name, volume, sc) ==
    [kind |-> "PVC", src |-> "PersistentVolumeClaim", ns |-> "d", name |-> name, uid |-> NoUid,
     volume |-> volume, sc |-> sc]
Volume(name, sc, driver, affinity) ==
    [kind |-> "PV", src |-> "PersistentVolume", ns |-> "", name |-> name, uid |-> NoUid,
     sc |-> sc, driver |-> driver, affinity |-> affinity]
StorageClass(name, provisioner) ==
    [kind |-> "StorageClass", src |-> "StorageClass", ns |-> "", name |-> name, uid |-> NoUid,
     provisioner |-> provisioner]

Controller(src, ns, name, owners) ==
    [kind |-> IF src = "ReplicaSet" THEN src ELSE "Workload", src |-> src, ns |-> ns,
     name |-> name, uid |-> NoUid, owners |-> owners]
OwnerRef(kind, name) == [kind |-> kind, name |-> name, uid |-> NoUid, controller |-> TRUE]
EventOn(name, kind, about, failed) ==
    [kind |-> "Event", src |-> "Event", ns |-> "d", name |-> name, uid |-> NoUid,
     involved |-> [kind |-> kind, name |-> about, uid |-> NoUid], failed |-> failed]

NoRules == <<>>
NoSlashes == [x \in {} |-> x]
=============================================================================
