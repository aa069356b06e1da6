SPECIFICATION Spec
CONSTANTS
    Emails = {a, b}
    Devices = {d1}
    Requests = {r1, r2}
    NoEmail = NoEmail
SYMMETRY CredentialSymmetry
INVARIANT ArmedForReadable
