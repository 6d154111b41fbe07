SPECIFICATION Spec
CONSTANTS
    Users = {u1, u2}
    Departments = {d1, d2}
    Subjects = {s1}
    Keys = {k1, k2}
    Calls = {c1, c2}
    Files = {f1}
    Years = {3, 4}
    LastDay = 1
    None = none
    FreshNames = TRUE
    EditsOverlap = FALSE
    Alone = {"role", "updateDept"}
    Mixes <- DeskMixes
    Audiences <- TwoCohorts
SYMMETRY Interchangeable
CHECK_DEADLOCK FALSE
INVARIANTS
    TypeOK
    SomeAdmin
    BannedModeratesNothing
    LogosStored
    
    ListedOpens
PROPERTY
    DecidedInScope
