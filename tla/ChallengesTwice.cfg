SPECIFICATION Spec
CONSTANTS
    Ids = {c1}
    Codes = {k1}
    SheetSize = 1
    Requests = {r1, r2}
    MaxAttempts = 5  MaxSends = 5
    NoId = NoId  NoCode = NoCode
SYMMETRY ChallengeSymmetry
INVARIANTS RedeemedOnce
