------------------------------- MODULE MCKept -------------------------------
(* What the scoped updates do not follow up, all in one cluster: a pod that  *)
(* events report on and a node agent of a CSI driver that are replaced by    *)
(* others of their names, a pod with a claim and a node, and a deployment    *)
(* that its owner, a custom resource, releases.  A service whose selector    *)
(* the pod's labels may leave, a claim and a rule for the node daemons of    *)
(* deployments go with them.                                                 *)
EXTENDS MCObjects

MCRules == <<[driver |-> "csi", ns |-> "d", controllers |-> {}, agents |-> {"agent"}]>>
MCControllerRules ==
    {[kind |-> "Deployment", ns |-> "d", controllers |-> {}, daemons |-> {"agent"}]}

Owned(t, kind, name, uid) == [t EXCEPT !.owners = {[OwnerRef(kind, name) EXCEPT !.uid = uid]}]
Deployment == Controller("Deployment", "d", "w", {})
PodP(uid) == Owned([BarePod("p") EXCEPT !.node = "n", !.pvcs = {"c"}, !.labels = {<<"app", "a">>}],
                   "Deployment", "w", uid)
Agent == [BarePod("agent") EXCEPT !.node = "n"]
ServiceS == Service("s", {<<"app", "a">>})

MCTemplates ==
    {PodP(NoUid), [PodP(NoUid) EXCEPT !.labels = {}], Agent, Deployment, EventOn("e", "Pod", "p", FALSE),
     ServiceS, Claim("c", "v", "")}
MCInitial ==
    {With(Controller("Custom", "d", "x", {}), 1), With(Owned(Deployment, "Custom", "x", 1), 2),
     With(PodP(2), 3), With(Agent, 4), With(ServiceS, 5), With(Claim("c", "v", ""), 6),
     With(Volume("v", "", "csi", "n"), 7), With(Object("CSIDriver", "CSIDriver", "", "csi"), 8)}

(* The hypothesis of the theorem that these edges match a rebuild. *)
ASSUME KeptAssumption == ScopesDisjoint
=============================================================================
