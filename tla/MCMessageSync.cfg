\* Two invocations of createMessage race on one key per member, beside rows of the
\* previous backend and a reader marking messages read; pages of one, so several are
\* needed to catch up, forwards or backwards.
CONSTANTS
    ana = ana
    ben = ben
    Conversation = {c1}
    User <- MCUser
    Buyer <- MCBuyer
    Seller <- MCSeller
    ClientId = {k1}
    LegacyId = {l1}
    Server = {s1, s2}
    Marker = {r1}
    Reader = {ben}
    MaxTarget = 1
    Device = {d1}
    Watches <- MCWatches
    PageLimit = 1
SPECIFICATION SyncFairSpec
INVARIANTS
    SequencesAreGapless
    OneMessagePerKey
    AnswersAreDurable
    WindowIsComplete
PROPERTIES
    CommitFollowsSequence
    NeverBornRead
    ImplementsLog
    SendTerminates
    EveryMessageArrives
