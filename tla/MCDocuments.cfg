SPECIFICATION Spec
CONSTANTS
    Uploads = {1}
    Files = {1, 2}
    Objects = {1, 2}
    Calls = {c1, c2}
    Alone = {"upload", "add", "reject"}
    None = None
SYMMETRY Symmetry
INVARIANTS TypeOK NothingPublicUnreviewed OwnedOnce PublicFilesStored
PROPERTIES RejectionStands
CHECK_DEADLOCK FALSE
