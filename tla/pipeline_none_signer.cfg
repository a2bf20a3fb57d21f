CONSTANTS
    rt = rt
    ex = ex
    ww = ww
    dl = dl
    NoNode = NoNode
    Nodes <- MCNodes
    Graphs <- NoneSignerGraphs
    MaxDepth <- MCMaxDepth
SPECIFICATION PSpec
INVARIANT
    SerializeNeverRaises
CHECK_DEADLOCK FALSE
