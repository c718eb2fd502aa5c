----------------------------- MODULE MCWorkloads -----------------------------
(* A deployment with a ReplicaSet that stays, its pod, an event blamed on    *)
(* either of two webhooks, a rule for the controller and the node daemon of  *)
(* deployments, a custom resource and a job that own each other, and a       *)
(* custom resource without a namespace, whose events the scoped update       *)
(* refuses.                                                                  *)
EXTENDS MCObjects

MCControllerRules == {[kind |-> "Deployment", ns |-> "d", controllers |-> {"ctl"}, daemons |-> {"dm"}]}

Deployment == Controller("Deployment", "d", "w", {})
Operator == Controller("Custom", "d", "x", {OwnerRef("Job", "j")})
ClusterWide == Controller("ClusterCustom", "", "k", {})
Owned(t, kind, name, uid) == [t EXCEPT !.owners = {[OwnerRef(kind, name) EXCEPT !.uid = uid]}]
PodP(uid) == Owned([BarePod("p") EXCEPT !.node = "n"], "ReplicaSet", "rs", uid)
Daemon == [BarePod("dm") EXCEPT !.node = "n"]
Failure == EventOn("e", "Deployment", "w", TRUE)

MCTemplates == {Deployment, Operator, ClusterWide, PodP(NoUid), BarePod("ctl"), Failure}
MCInitial ==
    {With(Owned(Operator, "Job", "j", 6), 1), With(Deployment, 2), With(PodP(3), 4), With(Daemon, 5),
     With(Owned(Controller("ReplicaSet", "d", "rs", {}), "Deployment", "w", 2), 3),
     With(Owned(Controller("Job", "d", "j", {}), "Custom", "x", 1), 6),
     Static("WebhookConfig", "", "h", 7), Static("WebhookConfig", "", "other", 8)}

(* The hypothesis of the theorems on nodes and on edges of KeptKinds. *)
ASSUME WorkloadsAssumption == ScopesDisjoint
=============================================================================
