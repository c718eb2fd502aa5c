------------------------------ MODULE Subgraph ------------------------------
(***************************************************************************)
(* What both walks promise of the shape of their result.                   *)
(***************************************************************************)

Inside(e, N) == e.from \in N /\ e.to \in N

(* No part of the nodes N is cut off from r: what contains r and is closed    *)
(* under the edges of E inside N, followed either way, is all of N.           *)
Connected(N, E, r) ==
    \A S \in SUBSET N :
        r \in S /\ (\A e \in E : Inside(e, N) => (e.from \in S <=> e.to \in S)) => S = N
=============================================================================
