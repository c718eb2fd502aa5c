CONSTANTS
    Ids = {n1, n2}
    Kinds = {k1}
    None = None
SYMMETRY Symmetry
SPECIFICATION Spec
INVARIANTS
    TypeOK
    IndexSound
    IndexComplete
    NeighborsReturnsStableEdges
PROPERTIES
    DeleteNodeLeavesNoEdge
    ImplementsSharedGraph
