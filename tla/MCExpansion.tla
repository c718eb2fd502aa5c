---------------------------- MODULE MCExpansion ----------------------------
(***************************************************************************)
(* Three nodes, two kinds of edges, and the shapes that tell orders and    *)
(* levels apart: a path, a triangle whose third node is met on two levels, *)
(* and edges to a node that is not there yet, as scoped updates make them. *)
(***************************************************************************)
EXTENDS Expansion

CONSTANTS a, b, c, k, l

E(f, t) == [from |-> f, kind |-> k, to |-> t]
Other == [from |-> a, kind |-> l, to |-> c]

MCGraphs ==
    { [nodes |-> {a, b, c}, edges |-> {E(a, b), E(b, c)}],
      [nodes |-> {a, b, c}, edges |-> {E(a, b), E(a, c), E(b, c)}],
      [nodes |-> {a, b}, edges |-> {E(a, b), E(c, b), Other}] }

Ask(d, dir, kind, lim) ==
    [root |-> a, depth |-> d, direction |-> dir, kind |-> kind, limit |-> lim]

MCRequests ==
    { Ask(0, "both", None, 0), Ask(2, "both", None, 0), Ask(3, "both", None, 0),
      Ask(2, "out", k, 9), Ask(2, "in", None, 9),
      Ask(2, "both", None, 1), Ask(2, "both", None, 2),
      Ask(5, "both", None, 0) }

MCChurnNodes == {c}
MCChurnEdges == {E(a, b), E(b, c)}
=============================================================================
