\* A password identity and a Google identity, which may have the same address or change it.
CONSTANTS
    Identity = {i1, i2}
    Google = {i2}
    Address = {a1, a2}
    FirstAddress <- MCFirstAddress
    Listing = {l1}
    Seller = {i1}
    Moderated = {i1}
    Moderation = {"ACTIVE", "FLAGGED"}
    Move <- MCMove
    Call = {c1, c2}
    PurgeLimit = 1
    Nobody = Nobody
    NoRow = NoRow
SPECIFICATION Spec
SYMMETRY MCSymmetry
INVARIANTS
    RefusalNeedsRace
PROPERTIES
    AnonymousStays
    BlockedIsOut
