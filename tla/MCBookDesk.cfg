SPECIFICATION Spec
CONSTANTS
    Books = {b1}
    Requests = {r1, r2, r3}
    Calls = {c1, c2}
    Contents = {v1, v2}
    donor = donor
    Students = {ana, ben}
    None = None
    Users <- MCUsers
    DonorOf <- MCDonorOf
    Alone <- MCDeskAlone
SYMMETRY MCSymmetry
PROPERTIES
    ImplementsLedger
    PromisesKept
CHECK_DEADLOCK FALSE
