SPECIFICATION Spec
CONSTANTS
    Students = {s1}
    Processes = {p1}
    Calls = {c1}
    Departments = {"GIC"}
    Horizon = 1
    MaxSchedules = 1
    MaxFaults = 0
    Alone = {}
    Choices = {}
    None = none
CHECK_DEADLOCK FALSE
INVARIANT
    StampedOncePassed
