------------------------------- MODULE MCPods -------------------------------
(* Pods that come and go under a service, sharing images on one node, one    *)
(* owned by a deployment with an event on it that may be blamed on a webhook.*)
EXTENDS MCObjects

MCSlashed == [x \in {"lib/app"} |-> "lib_app"]

PodP == [BarePod("p") EXCEPT !.node = "n", !.images = {"lib/app"}, !.configMaps = {"cm"},
                             !.labels = {<<"app", "a">>}, !.owners = {OwnerRef("Deployment", "w")}]
PodQ == [BarePod("q") EXCEPT !.images = {"lib_app"}]
PodTemplates ==
    {PodP,
     [PodP EXCEPT !.images = {"lib_app", "side"}, !.labels = {<<"app", "b">>}],
     [PodQ EXCEPT !.node = "n"]}
MCTemplates ==
    PodTemplates \cup {Service("s", {<<"app", "b">>}), EventOn("e", "Deployment", "w", TRUE)}
MCInitial ==
    {Static("Node", "", "n", 1), Static("ConfigMap", "d", "cm", 2),
     With([PodP EXCEPT !.owners = {[OwnerRef("Deployment", "w") EXCEPT !.uid = 5]}], 3),
     With(Service("s", {<<"app", "a">>}), 4), With(Controller("Deployment", "d", "w", {}), 5),
     Static("WebhookConfig", "", "h", 6), With(PodQ, 7)}

(* The hypotheses of the theorems that nodes and edges match a rebuild. *)
ASSUME PodsAssumption == ScopesDisjoint /\ RestStays
=============================================================================
