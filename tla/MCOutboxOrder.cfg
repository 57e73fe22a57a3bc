\* Two events of one conversation, one worker.
CONSTANTS
    MaxEvent = 2
    Conversation = {c1}
    ConversationOf <- MCConversationOf
    Worker = {w1}
    BatchSize = 2
    ChunkSize = 2
    MaxAttempts = 2
    MaxCrashes = 0
SPECIFICATION Spec
\* With nothing left to publish the relay has nothing to do.
CHECK_DEADLOCK FALSE
PROPERTIES
    ConversationOrder
