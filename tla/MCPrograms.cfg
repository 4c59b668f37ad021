SPECIFICATION Spec
CONSTANTS
    Programs = {"playlist", "watcher", "reload", "relauncher", "menu", "list", "picture", "editor"}
    Video = {v1, v2}
    MaxVideos = 2
    Viewer = {w}
    NoVideo = NoVideo
    Content = {f1, f2}
    MaxSaves = 3
    Unread = Unread
    Client = {c1}
    Launch = {l1, l2}
    Mount = {m1, m2}
    Port = {p1}
    NULL = NULL
    Relaunchers = {"main", "testrstp", "testsql"}
    Field = {u1, u2}
    MaxWrites = 3
    Garbage = Garbage
    Absent = Absent
    Menus = {"crud_menudb", "crud_menu", "db_menu"}
    Typed = {1, 2, 3, 4, 6, 7, 9}
    Hours = {4, 7, 10}
    MaxLines = 6
    n1 = n1  n2 = n2  w1 = w1  w2 = w2
    Words = {n1, n2, w1, w2}
    Numbers = {n1, n2}
    MaxRuns = 2
    Entries <- MCEntries
    Headers <- MCHeaders
    MaxNodes = 5
    Unset = Unset
    X = {15, 320}
    MaxEvents = 5
    la = la  lb = lb
    Letter = {la, lb}
    Src = la
    NewLine = NewLine
    Replacers <- MCReplacers
    MaxChars = 5
INVARIANTS TypeOK ViewersSeeCurrent OneStartAfterSignal StaleOnlyIfConnected PlainAnswersObeyed LoadedWasSaved DragFollowsPointer CutsStayInside UnreadIntact
PROPERTIES SaveReachesServer FileIsServed SavedReachesPipeline TriedAgain
CHECK_DEADLOCK FALSE
