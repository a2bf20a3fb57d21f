CONSTANTS
    r1 = r1
    r2 = r2
    NoResp = NoResp
    InvalidResponseKinds = {}
    Resps <- MCResps
    Corpora <- MCCorpora

SPECIFICATION Spec

INVARIANTS
    TypeOK
    NegativeDiagnosticsAsSpecified
    StatusesLatestSetWins
    ResponseErrorsAsSpecified
    NoUnknownFlagException
    NoerrorIffExistenceProved
    InconsistentNxdomainAsSpecified
    InvalidResponseErrorsAsSpecified

CHECK_DEADLOCK FALSE
