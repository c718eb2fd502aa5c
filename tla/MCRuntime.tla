------------------------------ MODULE MCRuntime ------------------------------
(* A pod, a claim and its volume, and a workload without a namespace. *)
EXTENDS Runtime

MCObjects == 1..4
MCCategory == <<"pod", "storage", "storage", "workload">>
=============================================================================
