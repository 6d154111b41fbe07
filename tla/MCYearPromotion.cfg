SPECIFICATION FairSpec
CONSTANTS
    Students = {s1}
    Processes = {p1}
    Calls = {c1, c2}
    Departments = {"GIC"}
    Horizon = 2
    MaxSchedules = 2
    MaxFaults = 1
    Alone = {"place", "updateMe"}
    Choices <- SomeChoices
    None = none
CHECK_DEADLOCK FALSE
INVARIANTS
    TypeOK
    OneYearPerRollover
PROPERTY
    PromotionArrives
