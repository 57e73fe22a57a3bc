\* One alert, one listing, two jobs in progress, no failures.
CONSTANTS
    Alert = {a1}
    Listing = {l1}
    GuestListing = {}
    Users <- MCUsers
    OwnerOf <- MCOwnerOf
    Need = {"lid"}
    Offer = {"a lid", "a pot"}
    Fits <- MCFits
    Worker = {w1, w2}
    Marks = {"DISMISSED"}
    MaxChanges = 2
    MaxFaults = 0
    Unread = Unread
SPECIFICATION Spec
SYMMETRY MCSymmetry
\* When every job is done and the changes are used up, nothing is left to do.
CHECK_DEADLOCK FALSE
INVARIANTS
    QualifyingIsMatched
