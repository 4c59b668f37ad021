SPECIFICATION MCSpec
CONSTANTS
    Media = {m1, m2}
    Char = {7, 8}
    Built <- MCBuiltPartly
    Ending = {"EOS", "ERROR"}
    MaxTime = 2
    EOF = EOF
    NULL = NULL
INVARIANTS TypeOK TextFollowsPad FreshUnlessMissed
PROPERTIES BoardSpec SwitchReachesNewest NewestPlays
CHECK_DEADLOCK FALSE
