CONSTANTS
    rt = rt
    ex = ex
    ww = ww
    dl = dl
    NoNode = NoNode
    Nodes <- MCNodes
    Graphs <- PipelineGraphs
    MaxDepth <- MCMaxDepth
SPECIFICATION PSpec
INVARIANTS
    PTypeOK
    YxrrsetIsCnameClosure
    EvaluatedOnce
    ReachableEvaluated
    SerializeReadsPopulated
    ComponentStatusCovers
PROPERTIES
    PipelineTerminates
CHECK_DEADLOCK FALSE
