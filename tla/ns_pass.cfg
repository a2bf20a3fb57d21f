CONSTANTS
    a1 = a1
    a2 = a2
    NoMapping = NoMapping
    DELEGATION_STATUS_INCOMPLETE = DELEGATION_STATUS_INCOMPLETE
    NSNames <- MCNSNames
    Addrs <- MCAddrs
    Corpora <- PassCorpora

SPECIFICATION Spec

INVARIANTS
    TypeOK
    NSDiagnosticsExact

CHECK_DEADLOCK FALSE
