\* One alert, one listing, two jobs in progress: either side may be edited under a run.
CONSTANTS
    Alert = {a1}
    Listing = {l1}
    GuestListing = {}
    Users <- MCUsers
    OwnerOf <- MCOwnerOf
    Need = {"lid"}
    Offer = {"a lid", "a pot"}
    Fits <- MCFits
    Worker = {w1, w2}
    Marks = {"DISMISSED"}
    MaxChanges = 2
    MaxFaults = 2
    Unread = Unread
SPECIFICATION Spec
SYMMETRY MCSymmetry
CONSTRAINT MCTwoAtMost
\* When every job is done and the changes are used up, nothing is left to do.
CHECK_DEADLOCK FALSE
INVARIANTS
    ShownAlertsFit
    SettledAlertShown
    MatchToldOnce
    NotifiedMeansTold
PROPERTIES
    DismissedStays
    ImplementsAnnouncement
