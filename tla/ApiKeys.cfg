SPECIFICATION Spec
CONSTANTS
    Keys = {k1, k2}
    Addresses = {a1, a2}
    Requests = {r1, r2}
    MaxPer = 1
    FailureLimit = 1  MaxTracked = 1
    QueueDepth = 1
    NoKey = NoKey  NoAddress = NoAddress
INVARIANTS LiveKeysBounded GuessesBounded BlockedMeansGuessed
PROPERTIES UsesGetStamped
