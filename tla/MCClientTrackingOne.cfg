SPECIFICATION Spec
CONSTANTS
    Server = {s1}
    Client = {c1}
    Ip = {a1}
    Port = {p1, p2}
    Zero = Zero
    NULL = NULL
SYMMETRY MCSymmetry
INVARIANT OneRowPerAddress
