SPECIFICATION Spec
CONSTANTS
    Writers = {w1, w2}
    Hooks = {h1}
    Limits = {1, 2}
    Names = {n1}
    Unset = unset
    Lost = lost
    NoRequest = none
SYMMETRY WriterSymmetry
INVARIANTS
    TypeOK
    ReadIsCurrent
PROPERTIES
    ImplementsRegister
