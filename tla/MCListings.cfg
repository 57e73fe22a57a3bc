\* One creation request, by a guest or an owner; the listing is edited while it expires,
\* is removed, by its owner or an administrator, or flagged, and its uploads are cleaned
\* up, with any call or statement failing now and then.
CONSTANTS
    Listing = {l1, l2}
    GuestListing = {l1}
    Upload = {u1, u2}
    Request = {r1}
    Call = {c1}
    Moderation = {"FLAGGED", "DELETED"}
    NoListing = none
    MaxVersion = 2
SPECIFICATION FairSpec
\* A listing whose versions are used up, with nothing left to clean, may stand still.
CHECK_DEADLOCK FALSE
INVARIANTS
    YoungImagesExist
    RegistryIsExact
PROPERTIES
    ImplementsCatalogue
    FlagHolds
    ReleasedWhenTakenOut
    PendingIsResolved
    ExpiredGuestsGo
