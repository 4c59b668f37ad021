SPECIFICATION Spec
CONSTANTS
    Client = {c1}
    Launch = {l1, l2}
    Mount = {m1, m2}
    Port = {p1, p2}
    NULL = NULL
SYMMETRY MCSymmetry
INVARIANT ListensOnCurrent
