SPECIFICATION SignInSpec
CONSTANTS
    Accounts = {a1, a2}
    Addresses = {i1, i2}
    Requests = {r1, r2}
    LoginLimit = 2
    SignupLimit = 2
    MaxTracked = 1
    NoAccount = NoAccount  NoAddress = NoAddress
SYMMETRY SignInSymmetry
INVARIANTS AttemptsBounded ClosedOnlyByFailures
