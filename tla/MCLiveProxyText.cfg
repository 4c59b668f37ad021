SPECIFICATION Spec
CONSTANTS
    Media = {m1, m2}
    Char = {2, 8}
    Built <- MCBuilt
    Ending = {"EOS"}
    MaxTime = 2
    EOF = EOF
    NULL = NULL
SYMMETRY MCSymmetry
CHECK_DEADLOCK FALSE
INVARIANT TextAlwaysFollowsCode
