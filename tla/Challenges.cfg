SPECIFICATION Spec
CONSTANTS
    Ids = {c1, c2}
    Codes = {k1, k2}
    SheetSize = 1
    Requests = {r1, r2}
    MaxAttempts = 2  MaxSends = 1
    NoId = NoId  NoCode = NoCode
SYMMETRY ChallengeSymmetry
INVARIANTS OneOutstanding RedeemedOnceUnlessRaced RecoveryOnceUnlessShared GuessesBounded SendsBounded
PROPERTIES KeepsPromise
