SPECIFICATION Spec
CONSTANTS
    Books = {b1}
    Requests = {r1, r2}
    Calls = {c1, c2}
    Contents = {v1}
    donor = donor
    Students = {ana, ben}
    None = None
    Users <- MCUsers
    DonorOf <- MCDonorOf
    Alone <- MCNoneAlone
SYMMETRY MCSymmetry
INVARIANTS
    TypeOK
    OneActiveRequest
    DonatedWasReceived
PROPERTIES
    FinishedNeverReactivated
CHECK_DEADLOCK FALSE
