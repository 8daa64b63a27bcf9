SPECIFICATION Spec
CONSTANTS
    c0 = c0
    c1 = c1
    c2 = c2
    c3 = c3
    c4 = c4
    Chains <- FewChains
    Root <- c0
    Disciplines <- CapturedHandle
SYMMETRY AlikeFew
INVARIANTS
    NoCapture
