---------------------------- MODULE MCReplicaSet ----------------------------
(* A deployment whose ReplicaSet may be removed, and its pod. *)
EXTENDS MCObjects

Owned(t, kind, name, uid) == [t EXCEPT !.owners = {[OwnerRef(kind, name) EXCEPT !.uid = uid]}]
ReplicaSet == Controller("ReplicaSet", "d", "rs", {})
Deployment == Controller("Deployment", "d", "w", {})
MCTemplates == {Owned(ReplicaSet, "Deployment", "w", NoUid)}
MCInitial ==
    {With(Deployment, 1), With(Owned(ReplicaSet, "Deployment", "w", 1), 2),
     With(Owned(BarePod("p"), "ReplicaSet", "rs", 2), 3)}
=============================================================================
