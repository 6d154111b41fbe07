SPECIFICATION Spec
CONSTANTS
    Users = {u1}
    Codes = {1, 2}
    Calls = {c1, c2}
    MaxAttempts = 2
    Alone = {"issue"}
    Wrong = Wrong
    None = None
SYMMETRY Symmetry
INVARIANTS TypeOK CodeUsedOnce GuessesBounded OneLiveCode
CHECK_DEADLOCK FALSE
