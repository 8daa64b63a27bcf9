SPECIFICATION Spec
CONSTANTS
    c0 = c0
    c1 = c1
    c2 = c2
    c3 = c3
    c4 = c4
    Chains <- MoreChains
    Root <- c0
    Disciplines <- OneHandle
SYMMETRY Alike
INVARIANTS
    TypeOK
    NoCapture
