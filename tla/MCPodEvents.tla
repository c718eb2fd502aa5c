----------------------------- MODULE MCPodEvents -----------------------------
(* A pod that is updated, replaced by another of its name, and reported on. *)
EXTENDS MCObjects

PodP == BarePod("p")
MCTemplates == {PodP, [PodP EXCEPT !.node = "n"], EventOn("e", "Pod", "p", FALSE)}
MCInitial == {With(PodP, 1)}
=============================================================================
