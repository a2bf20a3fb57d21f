CONSTANTS
    rt = rt
    ex = ex
    ww = ww
    dl = dl
    NoNode = NoNode
    Nodes <- MCNodes
    Graphs <- RootOrderGraphs
    MaxDepth <- MCMaxDepth
SPECIFICATION Spec
INVARIANT
    RootsFullyEvaluated
CHECK_DEADLOCK FALSE
