SPECIFICATION Spec
CONSTANTS
    Server = {s1, s2}
    Client = {c1, c2}
    Ip = {a1}
    Port = {p1}
    Zero = Zero
    NULL = NULL
SYMMETRY MCSymmetry
INVARIANTS TypeOK RowsTellPresence SameKeySameCount
