\* The cleanup job meets a creation that attaches an old upload.
CONSTANTS
    Listing = {l1}
    GuestListing = {}
    Upload = {u1}
    Request = {r1}
    Call = {c1}
    Moderation = {}
    NoListing = none
    MaxVersion = 1
SPECIFICATION Spec
\* A listing whose versions are used up, with nothing left to clean, may stand still.
CHECK_DEADLOCK FALSE
INVARIANTS
    ActiveImagesExist
