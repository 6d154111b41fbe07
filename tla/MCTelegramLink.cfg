SPECIFICATION Spec
CONSTANTS
    Users = {u1, u2}
    Chats = {t1, t2}
    Tokens = {k1, k2}
    Calls = {c1, c2, c3}
    MaxFaults = 2
    MaxBlocks = 1
    Alone = {"unlink"}
    None = none
SYMMETRY Interchangeable
CHECK_DEADLOCK FALSE
INVARIANTS
    TypeOK
    TokenLinksOnce
PROPERTIES
    DisconnectedForGood
    OneBlipKeepsLink
