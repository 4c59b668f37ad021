SPECIFICATION FairSpec
CONSTANTS
    Client = {c1}
    Launch = {l1, l2}
    Mount = {m1, m2}
    Port = {p1}
    NULL = NULL
INVARIANTS TypeOK OpenClientsSeeCurrent OnlyCurrentMounted
PROPERTIES FileIsServed ServiceSpec
