SPECIFICATION ImportSpec
CONSTANTS
    Imports = {i1, i2}
    Copies = {c1, c2}
    MaxEdits = 0
    NoCopy = NoCopy
SYMMETRY ImportSymmetry
PROPERTIES TwiceIsNoOp
