------------------------------ MODULE MCScopes ------------------------------
(* The two updates that reload a whole category.  Storage: a claim, its      *)
(* volume, its class and a CSI driver that comes and goes, with the driver's *)
(* two pods in place.  Identity: accounts, one bound in the binding's own    *)
(* namespace and one by its full name.  A pod mounts the claim and runs as   *)
(* the account.                                                              *)
EXTENDS MCObjects

MCRules == <<[driver |-> "csi", ns |-> "d", controllers |-> {"ctl"}, agents |-> {"ctl", "agent"}]>>

OnNode(name) == [BarePod(name) EXCEPT !.node = "n"]
ClaimC(volume) == Claim("c", volume, "")
VolumeV == Volume("v", "fast", "csi", "n")
Driver == Object("CSIDriver", "CSIDriver", "", "csi")
PodP == [BarePod("p") EXCEPT !.pvcs = {"c"}, !.sa = "a"]
RoleB(names) == Binding("RoleBinding", "d", "r",
                        {Subject("ServiceAccount", "", n) : n \in names} \cup {Subject("User", "", "b")})
ClusterRoleB == Binding("ClusterRoleBinding", "", "x",
                        {Subject("ServiceAccount", "d", "a"), Subject("ServiceAccount", "", "b")})
MCTemplates ==
    {ClaimC(""), ClaimC("v"), StorageClass("fast", "csi"), StorageClass("fast", "nfs"), Driver,
     PodP, ServiceAccount("a"), RoleB({"a"}), RoleB({"a", "b"})}
MCInitial ==
    {With(OnNode("ctl"), 1), With(OnNode("agent"), 2), With(PodP, 3), With(VolumeV, 4),
     With(StorageClass("fast", "csi"), 5), With(ClaimC("v"), 6), With(ServiceAccount("a"), 7),
     With(ServiceAccount("b"), 8), With(ClusterRoleB, 9), With(RoleB({"a"}), 10)}

(* The hypotheses of the theorems that nodes and edges match a rebuild. *)
ASSUME ScopesAssumption == ScopesDisjoint /\ RestStays
=============================================================================
