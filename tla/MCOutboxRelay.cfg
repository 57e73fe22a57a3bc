\* One event, three workers whose leases expire under them, one of which may be killed.
CONSTANTS
    MaxEvent = 1
    Conversation = {c1}
    ConversationOf <- MCConversationOf
    Worker = {w1, w2, w3}
    BatchSize = 2
    ChunkSize = 2
    MaxAttempts = 2
    MaxCrashes = 1
SPECIFICATION FairSpec
\* With nothing left to publish the relay has nothing to do.
CHECK_DEADLOCK FALSE
INVARIANTS
    DeliveriesBoundedByClaims
    PublishedWasDelivered
PROPERTIES
    SettledIsFinal
    EventsSettle
    ImplementsDelivery
