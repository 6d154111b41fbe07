SPECIFICATION Spec
CONSTANTS
    Users = {u1}
    Tokens = {1, 2, 3}
    Calls = {c1, c2}
    MaxResets = 1
    Windows = {TRUE, FALSE}
    Alone = {}
    None = None
SYMMETRY Symmetry
INVARIANTS TypeOK RotationInOrder
CHECK_DEADLOCK FALSE
