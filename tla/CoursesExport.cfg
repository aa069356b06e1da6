SPECIFICATION Spec
CONSTANTS
    Courses = {a}
    Tees = {t1, t2}
    Holes = {h1, h2}
    Removals = {q1, q2}
    Names = {n1}
    Numbers = {1, 2}
    Indexes = {1}
    HoleCounts = {1, 2}
    MaxTees = 2
    Requests = {r1, r2}
    NoCourse = NoCourse  NoHole = NoHole  NoName = NoName  NoIndex = NoIndex  NoRemoval = NoRemoval
SYMMETRY CourseSymmetry
INVARIANTS ExportsImport
CHECK_DEADLOCK FALSE
