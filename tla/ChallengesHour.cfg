SPECIFICATION Spec
CONSTANTS
    Ids = {c1, c2, c3}
    Codes = {k1}
    SheetSize = 1
    Requests = {r1}
    MaxAttempts = 1  MaxSends = 1
    NoId = NoId  NoCode = NoCode
SYMMETRY ChallengeSymmetry
INVARIANTS SendsBounded SendsCapped
