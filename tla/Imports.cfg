SPECIFICATION ImportSpec
CONSTANTS
    Imports = {i1, i2}
    Copies = {c1, c2}
    MaxEdits = 1
    NoCopy = NoCopy
SYMMETRY ImportSymmetry
INVARIANTS OneCopyEach RoundsFindTheirCourse WholeFileIsThere
PROPERTIES TypedStays
