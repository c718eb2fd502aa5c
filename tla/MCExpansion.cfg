CONSTANTS
    a = a
    b = b
    c = c
    k = k
    l = l
    None = None
    Ids = {a, b, c}
    Kinds = {k, l}
    Graphs <- MCGraphs
    Requests <- MCRequests
    ChurnNodes <- MCChurnNodes
    ChurnEdges <- MCChurnEdges
    MaxWrites = 4
SPECIFICATION Spec
INVARIANTS TypeOK ResultConnected ResultWithinDepth StableReachComplete
PROPERTIES ExpansionEnds
