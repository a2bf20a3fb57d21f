CONSTANTS
    kA = kA
    kB = kB
    kR = kR
    r1 = r1
    r2 = r2
    NoKey = NoKey
    CnameAnswer = CnameAnswer
    NoResponse = NoResponse
    NoAlg = NoAlg
    Keys <- MCKeys
    KeyAlg <- MCKeyAlg
    KeyTag <- MCKeyTag
    KeyTagNoRevoke <- MCKeyTagNoRevoke
    SupportedAlgs <- MCSupportedAlgs
    SupportedDigests <- MCSupportedDigests
    Responses <- MCResponses
    Inputs <- Scenario2Inputs
SPECIFICATION Spec
INVARIANT
    NoSEPWhenNoSecureEntry
CHECK_DEADLOCK FALSE
