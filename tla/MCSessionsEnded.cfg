SPECIFICATION FairSpec
CONSTANTS
    Users = {u1}
    Tokens = {1, 2, 3}
    Calls = {c1, c2}
    MaxResets = 1
    Windows = {TRUE}
    Alone = {"logout", "reset", "ban"}
    None = None
INVARIANT EndedIsOver
PROPERTY ReplayEndsSession
CHECK_DEADLOCK FALSE
