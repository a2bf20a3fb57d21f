CONSTANTS
    kA = kA
    kB = kB
    kX = kX
    r1 = r1
    r2 = r2
    xK = xK
    xS = xS
    NoKey = NoKey
    NoRRset = NoRRset
    Keys <- MCKeys
    KeyAlg <- MCKeyAlg
    KeyTag <- MCKeyTag
    KeyTagNoRevoke <- MCKeyTag
    SupportedAlgs <- MCSupportedAlgs
    SupportedDigests <- MCSupportedDigests
    Responses <- MCResponses
    RRsetIds <- MCRRsetIds
    Corpora <- StubCorpora
    TrustedKeyChoices <- MCTrustedKeyChoices
    WithDsChoices <- MCWithDsChoices

SPECIFICATION Spec

INVARIANTS
    MissingRRSIGExact

CHECK_DEADLOCK FALSE
