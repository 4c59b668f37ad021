SPECIFICATION FairSpec
CONSTANTS
    v1 = v1  v2 = v2  t1 = t1  p1 = p1  p2 = p2
    Video = {v1, v2}
    Text = {t1}
    Port = {p1, p2}
    Launchable <- MCLaunchable
    NULL = NULL
INVARIANTS TypeOK NoneLost RunsFile
PROPERTY EventActedOn
