CONSTANTS
    rt = rt
    ex = ex
    ww = ww
    dl = dl
    NoNode = NoNode
    Nodes <- MCNodes
    Graphs <- NonZoneDnskeyGraphs
    MaxDepth <- MCMaxDepth
SPECIFICATION Spec
INVARIANT
    NoNoneFieldRead
CHECK_DEADLOCK FALSE
