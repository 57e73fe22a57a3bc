\* Two owners' listings and two jobs in progress at a time; a change of a listing or of a
\* match at any point of the runs.
CONSTANTS
    left = left
    right = right
    Listing = {l1, l2}
    GuestListing = {}
    OwnerOf <- MCOwnerOf
    Piece = {left, right}
    Complement <- MCComplement
    Worker = {w1, w2}
    MaxAttempts = 1
    Moderation = {"ACTIVE", "CLOSED"}
    Marks = {"DISMISSED"}
    MaxChanges = 1
    MaxCrashes = 0
    NoJob = NoJob
    Unread = Unread
    \* The rules and the score, on the listings that are matched.
    Category = {"shoes"}
    Key = {"brand", "size", "side"}
    KeysOf <- MCKeysOf
    ExactKeysOf <- MCExactKeysOf
    WideSizes = {"shoes"}
    Value = {"acme", "42", "42.5", "", "left", "right", "top", "bottom", "upper", "lower",
             "front", "back"}
    Blank = ""
    NumberOf <- MCNumber
    LeadingNumber <- MCNumber
    NaN = NaN
    Word = {"shoe", "left", "right"}
    WordsOf <- MCWordsOf
    City = {}
    NoCity = NoCity
    Condition = {"GOOD"}
    AttributeWeight = 65
    SemanticWeight = 35
    ScoreThreshold = 720
SPECIFICATION Spec
SYMMETRY MCSymmetry
\* When every job is settled and the changes are used up, nothing is left to do.
CHECK_DEADLOCK FALSE
INVARIANTS
    ShownMatchesFit
    CompletedMeansMatched
    SettledPairShown
    ClaimedMeansTold
PROPERTIES
    MarksAlwaysSurvive
    ImplementsAnnouncement
