\* A guest's listing, changed, withdrawn or moderated meanwhile; two workers, two
\* attempts, one killed worker.  With no other listing a run has no candidates.
CONSTANTS
    left = left
    right = right
    Listing = {l1}
    GuestListing = {l1}
    OwnerOf <- MCOwnerOf
    Piece = {left}
    Complement <- MCNever
    Worker = {w1, w2}
    MaxAttempts = 2
    Moderation = {"ACTIVE", "CLOSED"}
    Marks = {}
    MaxChanges = 1
    MaxCrashes = 1
    NoJob = NoJob
    Unread = Unread
    \* The rules and the score, on the listings that are matched.
    Category = {"shoes"}
    Key = {"brand", "size", "side"}
    KeysOf <- MCKeysOf
    ExactKeysOf <- MCExactKeysOf
    WideSizes = {"shoes"}
    Value = {"acme", "42", "42.5", "", "left", "right", "top", "bottom", "upper", "lower",
             "front", "back"}
    Blank = ""
    NumberOf <- MCNumber
    LeadingNumber <- MCNumber
    NaN = NaN
    Word = {"shoe", "left", "right"}
    WordsOf <- MCWordsOf
    City = {}
    NoCity = NoCity
    Condition = {"GOOD"}
    AttributeWeight = 65
    SemanticWeight = 35
    ScoreThreshold = 720
SPECIFICATION FairSpec
\* When every job is settled and the changes are used up, nothing is left to do.
CHECK_DEADLOCK FALSE
PROPERTIES
    VersionsGetMatched
