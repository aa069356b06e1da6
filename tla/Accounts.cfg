SPECIFICATION Spec
CONSTANTS
    Users = {u1, u2}
    Emails = {e1, e2}
    Subjects = {s1, s2}
    Codes = {c1}
    Requests = {r1, r2}
    NoUser = NoUser  NoEmail = NoEmail  NoSubject = NoSubject
SYMMETRY AccountSymmetry
INVARIANTS EveryoneCanSignIn SessionIsTheIdentitys
