------------------------------ MODULE Messaging ------------------------------
(***************************************************************************)
(* MessagesService: sending messages and marking them read.                *)
(*                                                                         *)
(* Every Server is one invocation of createMessage, running its statements  *)
(* against PostgreSQL under READ COMMITTED: a statement sees what was        *)
(* committed before it started.  What a transaction has written and not yet  *)
(* committed lives in tx[s]; the other variables are committed rows.  The    *)
(* row lock the UPDATE of "Conversation" takes is held from that statement   *)
(* to the end of the transaction, so it needs no variable of its own: see    *)
(* RowLocked.  Every Marker is one invocation of markAsRead, which runs      *)
(* outside any transaction.                                                  *)
(***************************************************************************)
EXTENDS Naturals, Sequences, FiniteSets

CONSTANTS
    Conversation,   \* the (listing, buyer, seller) triples
    User,           \* people, members of a conversation or not
    Buyer, Seller,  \* the two members of each conversation
    ClientId,       \* clientMessageId values callers send (and resend)
    LegacyId,       \* ids of rows the previous backend inserts
    Server,         \* invocations of createMessage
    Marker,         \* invocations of markAsRead
    Reader,         \* the users who call markAsRead (a bound)
    MaxTarget       \* largest lastReadSequence a caller asks for

ASSUME MembersAssumption ==
    /\ Buyer \in [Conversation -> User]
    /\ Seller \in [Conversation -> User]
    /\ \A c \in Conversation : Buyer[c] # Seller[c]

ASSUME IdsAssumption == ClientId \cap LegacyId = {}

ASSUME TargetAssumption == MaxTarget \in Nat

VARIABLES
    opened,                 \* the committed "Conversation" rows
    nextMessageSequence,    \* their "nextMessageSequence" column
    messages,               \* the committed "Message" rows
    events,                 \* the committed "OutboxEvent" rows
    lastReadSequence,       \* "ConversationParticipant"."lastReadSequence"
    tx,                     \* what each createMessage invocation is doing
    mark,                   \* what each markAsRead invocation is doing
    answers                 \* history: every message returned to a caller

rows == <<opened, nextMessageSequence, messages, events, lastReadSequence>>
vars == <<rows, tx, mark, answers>>

-----------------------------------------------------------------------------
(* Types. *)

AnyId == ClientId \cup LegacyId

Message ==
    [conversationId : Conversation, senderId : User,
     clientMessageId : AnyId, sequence : Nat]

Event == [message : Message, recipientId : User]

(* Between calls an invocation is Idle; a call carries its key and, once it *)
(* has drawn one, its sequence number.                                      *)
Idle == [pc |-> "idle"]

Call(states) ==
    [pc : states, conversationId : Conversation, senderId : User,
     clientMessageId : ClientId, sequence : Nat]
Transaction == {Idle} \cup Call({"absent", "sequenced", "inserted", "conflict"})

Marking ==
    {Idle}
      \cup [pc : {"snapshot"}, conversationId : Conversation, userId : User,
            next : Nat]
      \cup [pc : {"resolved"}, conversationId : Conversation, userId : User,
            next : Nat, target : Nat]

TypeOK ==
    /\ opened \subseteq Conversation
    /\ nextMessageSequence \in [Conversation -> Nat]
    /\ messages \subseteq Message
    /\ events \subseteq Event
    /\ lastReadSequence \in [Conversation -> [User -> Nat]]
    /\ tx \in [Server -> Transaction]
    /\ mark \in [Marker -> Marking]
    /\ answers \subseteq Message

-----------------------------------------------------------------------------
(* Helpers. *)

Members(c) == {Buyer[c], Seller[c]}

Other(c, u) == IF Buyer[c] = u THEN Seller[c] ELSE Buyer[c]

Rows(c) == {m \in messages : m.conversationId = c}

(* The unique index (conversationId, senderId, clientMessageId). *)
Existing(c, u, k) ==
    {m \in Rows(c) : m.senderId = u /\ m.clientMessageId = k}

(* A transaction past its UPDATE of the conversation row keeps the row      *)
(* locked until it commits or rolls back.                                   *)
HoldsRow(s, c) ==
    tx[s].pc \in {"sequenced", "inserted"} /\ tx[s].conversationId = c
RowLocked(c) == \E s \in Server : HoldsRow(s, c)

(* The row a transaction inserts. *)
Draft(t) ==
    [conversationId |-> t.conversationId, senderId |-> t.senderId,
     clientMessageId |-> t.clientMessageId, sequence |-> t.sequence]

(* The outbox row of a message is addressed to the member who did not send it. *)
EventFor(m) == [message |-> m, recipientId |-> Other(m.conversationId, m.senderId)]

Larger(a, b) == IF a >= b THEN a ELSE b
Smaller(a, b) == IF a <= b THEN a ELSE b

Init ==
    /\ opened = {}
    /\ nextMessageSequence = [c \in Conversation |-> 0]
    /\ messages = {}
    /\ events = {}
    /\ lastReadSequence = [c \in Conversation |-> [u \in User |-> 0]]
    /\ tx = [s \in Server |-> Idle]
    /\ mark = [k \in Marker |-> Idle]
    /\ answers = {}

-----------------------------------------------------------------------------
(* startConversation: upsert on the unique (listing, buyer, seller) triple   *)
(* and create both participant rows, in one transaction.                     *)
StartConversation(c) ==
    /\ opened' = opened \cup {c}
    /\ UNCHANGED <<nextMessageSequence, messages, events, lastReadSequence,
                   tx, mark, answers>>

-----------------------------------------------------------------------------
(* createMessage, one action per statement of its transaction.               *)

(* Find the conversation (404), check membership (403), look for a message   *)
(* already committed under the same key and, if there is one, return it.      *)
FindExisting(s, c, u, k) ==
    /\ tx[s] = Idle
    /\ c \in opened
    /\ u \in Members(c)
    /\ IF Existing(c, u, k) # {}
         THEN /\ answers' = answers \cup Existing(c, u, k)
              /\ UNCHANGED tx
         ELSE /\ tx' = [tx EXCEPT ![s] =
                           [pc |-> "absent", conversationId |-> c, senderId |-> u,
                            clientMessageId |-> k, sequence |-> 0]]
              /\ UNCHANGED answers
    /\ UNCHANGED <<rows, mark>>

(* Mutant: the number is read as a maximum instead of taken with the row lock. *)
TakeSequenceUnlocked(s) ==
    /\ tx[s].pc = "absent"
    /\ tx' = [tx EXCEPT ![s].pc = "sequenced",
                        ![s].sequence = nextMessageSequence[tx[s].conversationId] + 1]
    /\ UNCHANGED <<rows, mark, answers>>

(* Mutant: the number comes from a counter outside the transaction, as a         *)
(* database sequence would supply it.                                           *)
TakeSequenceOutside(s) ==
    LET c == tx[s].conversationId IN
    /\ tx[s].pc = "absent"
    /\ tx' = [tx EXCEPT ![s].pc = "sequenced",
                        ![s].sequence = nextMessageSequence[c] + 1]
    /\ nextMessageSequence' = [nextMessageSequence EXCEPT ![c] = @ + 1]
    /\ UNCHANGED <<opened, messages, events, lastReadSequence, mark, answers>>

(* conversation.update({nextMessageSequence: {increment: 1}}): waits for the *)
(* row lock, then counts up from what the last holder committed.             *)
TakeSequence(s) ==
    /\ tx[s].pc = "absent"
    /\ ~RowLocked(tx[s].conversationId)
    /\ tx' = [tx EXCEPT ![s].pc = "sequenced",
                        ![s].sequence = nextMessageSequence[tx[s].conversationId] + 1]
    /\ UNCHANGED <<rows, mark, answers>>

(* message.create: P2002 when either unique index already holds the row.     *)
Conflicts(m) ==
    \/ Existing(m.conversationId, m.senderId, m.clientMessageId) # {}
    \/ \E x \in Rows(m.conversationId) : x.sequence = m.sequence

(* Mutant: no unique index on the client's key. *)
InsertUnchecked(s) ==
    /\ tx[s].pc = "sequenced"
    /\ tx' = [tx EXCEPT ![s].pc = "inserted"]
    /\ UNCHANGED <<rows, mark, answers>>

(* Mutant: the caller is answered before the transaction commits. *)
InsertAnswering(s) ==
    /\ tx[s].pc = "sequenced"
    /\ tx' = [tx EXCEPT ![s].pc = IF Conflicts(Draft(tx[s])) THEN "conflict"
                                                             ELSE "inserted"]
    /\ answers' = IF Conflicts(Draft(tx[s])) THEN answers
                                             ELSE answers \cup {Draft(tx[s])}
    /\ UNCHANGED <<rows, mark>>

InsertMessage(s) ==
    /\ tx[s].pc = "sequenced"
    /\ tx' = [tx EXCEPT ![s].pc = IF Conflicts(Draft(tx[s])) THEN "conflict"
                                                             ELSE "inserted"]
    /\ UNCHANGED <<rows, mark, answers>>

(* The AFTER INSERT trigger keeps the counter at GREATEST(counter, sequence).   *)
CounterAfterInsert(m) ==
    [nextMessageSequence EXCEPT ![m.conversationId] = Larger(@, m.sequence)]

(* outboxEvent.create and COMMIT: the row, the counter and the event appear at   *)
(* once.                                                                        *)
CommitMessage(s) ==
    LET m == Draft(tx[s]) IN
    /\ tx[s].pc = "inserted"
    /\ messages' = messages \cup {m}
    /\ nextMessageSequence' = CounterAfterInsert(m)
    /\ events' = events \cup {EventFor(m)}
    /\ answers' = answers \cup {m}
    /\ tx' = [tx EXCEPT ![s] = Idle]
    /\ UNCHANGED <<opened, lastReadSequence, mark>>

(* Mutant: a lost race is retried from the top of the transaction. *)
RecoverByRetrying(s) ==
    /\ tx[s].pc = "conflict"
    /\ tx' = [tx EXCEPT ![s].pc = "absent", ![s].sequence = 0]
    /\ UNCHANGED <<rows, mark, answers>>

(* After P2002 the transaction is gone; the row that won is read outside it   *)
(* and returned, and without one the error goes to the caller.                *)
RecoverExisting(s) ==
    /\ tx[s].pc = "conflict"
    /\ answers' = answers \cup
          Existing(tx[s].conversationId, tx[s].senderId, tx[s].clientMessageId)
    /\ tx' = [tx EXCEPT ![s] = Idle]
    /\ UNCHANGED <<rows, mark>>

(* A failed statement, an expired transaction, a killed invocation: rollback. *)
Abort(s) ==
    /\ tx[s] # Idle
    /\ tx' = [tx EXCEPT ![s] = Idle]
    /\ UNCHANGED <<rows, mark, answers>>

(* Mutant: the trigger numbers the row without taking the row lock. *)
LegacyInsertUnlocked(c, u, k) ==
    LET n == nextMessageSequence[c] + 1 IN
    /\ c \in opened
    /\ u \in Members(c)
    /\ \A m \in messages : m.clientMessageId # k
    /\ messages' = messages \cup
          {[conversationId |-> c, senderId |-> u, clientMessageId |-> k,
            sequence |-> n]}
    /\ nextMessageSequence' = [nextMessageSequence EXCEPT ![c] = n]
    /\ UNCHANGED <<opened, events, lastReadSequence, tx, mark, answers>>

(* The previous backend, still serving during a rolling deploy, inserts a row *)
(* with neither sequence nor clientMessageId and writes no event: the BEFORE   *)
(* INSERT trigger draws the sequence under the same row lock, in one statement. *)
LegacyInsert(c, u, k) ==
    LET n == nextMessageSequence[c] + 1 IN
    /\ c \in opened
    /\ u \in Members(c)
    /\ ~RowLocked(c)
    /\ \A m \in messages : m.clientMessageId # k      \* "Message"."id" is fresh
    /\ messages' = messages \cup
          {[conversationId |-> c, senderId |-> u, clientMessageId |-> k,
            sequence |-> n]}
    /\ nextMessageSequence' = [nextMessageSequence EXCEPT ![c] = n]
    /\ UNCHANGED <<opened, events, lastReadSequence, tx, mark, answers>>

-----------------------------------------------------------------------------
(* markAsRead: three statements, no transaction around them.                  *)

(* Find the conversation and keep its counter.                                *)
ReadCounter(k, c, u) ==
    /\ mark[k] = Idle
    /\ c \in opened
    /\ u \in Members(c) \cap Reader
    /\ mark' = [mark EXCEPT ![k] =
          [pc |-> "snapshot", conversationId |-> c, userId |-> u,
           next |-> nextMessageSequence[c]]]
    /\ UNCHANGED <<rows, tx, answers>>

(* What the request may ask for: a number of the caller's choosing, the        *)
(* position of a message of this conversation, the larger of both, or the       *)
(* latest message there is now.                                                *)
Targets(c) == (0..MaxTarget) \cup {m.sequence : m \in Rows(c)}

(* Mutant: the request is trusted. *)
ResolveUnclamped(k) ==
    /\ mark[k].pc = "snapshot"
    /\ \E t \in Targets(mark[k].conversationId) :
          mark' = [mark EXCEPT ![k] =
            [pc |-> "resolved", conversationId |-> mark[k].conversationId,
             userId |-> mark[k].userId, next |-> mark[k].next, target |-> t]]
    /\ UNCHANGED <<rows, tx, answers>>

ResolveTarget(k) ==
    /\ mark[k].pc = "snapshot"
    /\ \E t \in Targets(mark[k].conversationId) :
          mark' = [mark EXCEPT ![k] =
            [pc |-> "resolved", conversationId |-> mark[k].conversationId,
             userId |-> mark[k].userId, next |-> mark[k].next,
             target |-> Smaller(t, mark[k].next)]]
    /\ UNCHANGED <<rows, tx, answers>>

(* UPDATE ... SET "lastReadSequence" = GREATEST("lastReadSequence", target).   *)
WritePosition(k) ==
    /\ mark[k].pc = "resolved"
    /\ lastReadSequence' =
          [lastReadSequence EXCEPT ![mark[k].conversationId][mark[k].userId] =
             Larger(@, mark[k].target)]
    /\ mark' = [mark EXCEPT ![k] = Idle]
    /\ UNCHANGED <<opened, nextMessageSequence, messages, events, tx, answers>>

AbandonMark(k) ==
    /\ mark[k] # Idle
    /\ mark' = [mark EXCEPT ![k] = Idle]
    /\ UNCHANGED <<rows, tx, answers>>

-----------------------------------------------------------------------------
Sending(s) ==
    \/ \E c \in Conversation, u \in User, k \in ClientId : FindExisting(s, c, u, k)
    \/ TakeSequence(s)
    \/ InsertMessage(s)
    \/ CommitMessage(s)
    \/ RecoverExisting(s)
    \/ Abort(s)

MarkingRead(k) ==
    \/ \E c \in Conversation, u \in User : ReadCounter(k, c, u)
    \/ ResolveTarget(k)
    \/ WritePosition(k)
    \/ AbandonMark(k)

Next ==
    \/ \E c \in Conversation : StartConversation(c)
    \/ \E s \in Server : Sending(s)
    \/ \E k \in Marker : MarkingRead(k)
    \/ \E c \in Conversation, u \in User, k \in LegacyId : LegacyInsert(c, u, k)

Spec == Init /\ [][Next]_vars

(* PostgreSQL queues waiters on a row lock, so a transaction that waits gets   *)
(* the row in the end (strong fairness); every statement it issues returns.    *)
SendersProgress ==
    \A s \in Server :
        /\ SF_vars(TakeSequence(s))
        /\ WF_vars(InsertMessage(s))
        /\ WF_vars(CommitMessage(s))
        /\ WF_vars(RecoverExisting(s))

FairSpec == Spec /\ SendersProgress

-----------------------------------------------------------------------------
(* Properties. *)

(* The sequence numbers of a conversation are exactly 1..counter, each on one  *)
(* message: no interleaving of senders, rollback or rolling deploy skips or    *)
(* repeats one, which is what lets a client page by "sequence > cursor".       *)
SequencesAreGapless ==
    \A c \in Conversation :
        /\ {m.sequence : m \in Rows(c)} = 1..nextMessageSequence[c]
        /\ \A m, x \in Rows(c) : m.sequence = x.sequence => m = x

(* However often and however concurrently a key is sent, one message has it.   *)
OneMessagePerKey ==
    \A c \in Conversation : \A m, x \in Rows(c) :
        m.senderId = x.senderId /\ m.clientMessageId = x.clientMessageId => m = x

(* A message a caller was given is in the log, under the sequence it was given:  *)
(* no answer refers to a row that is rolled back afterwards.                    *)
AnswersAreDurable == answers \subseteq messages

(* The outbox holds one event for each message of this backend, addressed to    *)
(* the member who did not send it, and none for a message that rolled back.     *)
EventPerMessage ==
    events = {EventFor(m) : m \in {x \in messages : x.clientMessageId \notin LegacyId}}

(* A message becomes visible after every message numbered below it: a reader    *)
(* that has seen n never has to look below n again.                             *)
CommitFollowsSequence ==
    [][/\ messages \subseteq messages'
       /\ \A m \in messages' \ messages : \A x \in Rows(m.conversationId) :
              x.sequence < m.sequence]_vars

(* No read position ever covers a message before it is sent, although callers   *)
(* choose the number, the counter is read two statements earlier and messages   *)
(* keep arriving: when a message appears, neither member has it marked read.    *)
NeverBornRead ==
    [][\A m \in messages' \ messages : \A u \in User :
          lastReadSequence'[m.conversationId][u] < m.sequence]_vars

(* A read position never moves back, whichever of two concurrent markAsRead      *)
(* calls writes last.                                                           *)
PositionsOnlyAdvance ==
    [][\A c \in Conversation, u \in User :
          lastReadSequence'[c][u] >= lastReadSequence[c][u]]_vars

(* Every createMessage call ends: waiting for the row lock, losing the race on   *)
(* the unique index and recovering from it never go on for ever.                *)
SendTerminates == \A s \in Server : []<>(tx[s] = Idle)

-----------------------------------------------------------------------------
(* Messages in order of sequence are the abstract log.                          *)
MessageKey(m) == <<m.senderId, m.clientMessageId>>

LogOf(c) ==
    [n \in 1..nextMessageSequence[c] |->
        MessageKey(CHOOSE m \in Rows(c) : m.sequence = n)]

Log == INSTANCE ConversationLog WITH
          MessageId <- User \X AnyId,
          Silent    <- User \X LegacyId,
          log       <- [c \in Conversation |-> LogOf(c)],
          owed      <- {<<e.message.conversationId, MessageKey(e.message)>> : e \in events},
          position  <- lastReadSequence

(* createMessage and markAsRead, in any interleaving, implement the abstract log. *)
ImplementsLog == Log!Spec

=============================================================================
