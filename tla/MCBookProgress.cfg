SPECIFICATION FairSpec
CONSTANTS
    Books = {b1}
    Requests = {r1}
    Calls = {c1, c2}
    Contents = {v1}
    donor = donor
    Students = {ana}
    None = None
    Users <- MCUsers
    DonorOf <- MCDonorOf
    Alone <- MCDeclineAlone
PROPERTIES
    EveryCallEnds
    ReservedComesBack
CHECK_DEADLOCK FALSE
