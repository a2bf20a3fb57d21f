CONSTANTS
    r1 = r1
    r2 = r2
    NoResp = NoResp
    InvalidResponseKinds = {}
    Resps <- MCResps
    Corpora <- MCCorpora

SPECIFICATION Spec

INVARIANT
    StatusesFirstValidWins

CHECK_DEADLOCK FALSE
