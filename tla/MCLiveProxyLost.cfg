SPECIFICATION FairSpec
CONSTANTS
    Media = {m1}
    Char = {2}
    Built <- MCBuilt
    Ending = {}
    MaxTime = 1
    EOF = EOF
    NULL = NULL
CHECK_DEADLOCK FALSE
PROPERTY EveryUpdateShown
