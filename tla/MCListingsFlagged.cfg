\* An administrator flags a listing while its owner is editing it.
CONSTANTS
    Listing = {l1}
    GuestListing = {}
    Upload = {u1, u2}
    Request = {r1}
    Call = {c1}
    Moderation = {"FLAGGED"}
    NoListing = none
    MaxVersion = 2
SPECIFICATION Spec
\* A listing whose versions are used up, with nothing left to clean, may stand still.
CHECK_DEADLOCK FALSE
PROPERTIES
    FlaggedStays
