--------------------------- MODULE MessagingProofs ---------------------------
(***************************************************************************)
(* Proofs about Messaging and MessageSync, for any number of conversations,  *)
(* people, keys, invocations, messages and devices.                          *)
(***************************************************************************)
EXTENDS MessageSync, FiniteSetTheorems, TLAPS

-----------------------------------------------------------------------------
(* Typing. *)

(* A transaction in progress is a call record with its key and number. *)
LEMMA CallType ==
    ASSUME NEW s \in Server, TypeOK, tx[s].pc # "idle"
    PROVE  /\ tx[s] \in Call({"absent", "sequenced", "inserted", "conflict"})
           /\ tx[s].conversationId \in Conversation
           /\ tx[s].senderId \in User
           /\ tx[s].clientMessageId \in ClientId
           /\ tx[s].sequence \in Nat
           /\ Draft(tx[s]) \in Message
  BY DEF TypeOK, Transaction, Idle, Call, Draft, Message, AnyId

(* The event of a message is a well-formed event. *)
LEMMA EventType ==
    ASSUME NEW m \in Message
    PROVE  EventFor(m) \in Event
  BY MembersAssumption DEF EventFor, Event, Other, Message

(* Every reachable state is well typed: the rows, the transactions in progress *)
(* and the answers given have the columns the schema declares.                 *)
THEOREM TypeCorrect == Spec => []TypeOK
<1>1. Init => TypeOK
  BY DEF Init, TypeOK, Transaction, Marking
<1>2. TypeOK /\ [Next]_vars => TypeOK'
  <2> SUFFICES ASSUME TypeOK, [Next]_vars PROVE TypeOK'
    OBVIOUS
  <2>1. ASSUME NEW c \in Conversation, StartConversation(c) PROVE TypeOK'
    BY <2>1 DEF StartConversation, TypeOK
  <2>2. ASSUME NEW s \in Server, Sending(s) PROVE TypeOK'
    <3>1. ASSUME NEW c \in Conversation, NEW u \in User, NEW k \in ClientId,
                 FindExisting(s, c, u, k)
          PROVE  TypeOK'
      <4>1. Existing(c, u, k) \subseteq Message
        BY DEF TypeOK, Existing, Rows
      <4>2. [pc |-> "absent", conversationId |-> c, senderId |-> u,
             clientMessageId |-> k, sequence |-> 0] \in Transaction
        BY DEF Transaction, Call
      <4> QED
        BY <3>1, <4>1, <4>2 DEF FindExisting, TypeOK, rows
    <3>2. CASE TakeSequence(s)
      <4>1. tx[s].pc # "idle"
        BY <3>2 DEF TakeSequence
      <4>2. /\ tx[s] \in Call({"absent", "sequenced", "inserted", "conflict"})
            /\ tx[s].conversationId \in Conversation
        BY <4>1, CallType
      <4>3. nextMessageSequence[tx[s].conversationId] + 1 \in Nat
        BY <4>2 DEF TypeOK
      <4>4. [tx[s] EXCEPT !.pc = "sequenced",
                          !.sequence = nextMessageSequence[tx[s].conversationId] + 1]
              \in Transaction
        BY <4>2, <4>3 DEF Call, Transaction
      <4> QED
        BY <3>2, <4>4 DEF TakeSequence, TypeOK, rows
    <3>3. CASE InsertMessage(s)
      <4>1. tx[s] \in Call({"absent", "sequenced", "inserted", "conflict"})
        BY <3>3, CallType DEF InsertMessage
      <4>2. \A p \in {"conflict", "inserted"} : [tx[s] EXCEPT !.pc = p] \in Transaction
        BY <4>1 DEF Call, Transaction
      <4>3. PICK p \in {"conflict", "inserted"} : tx' = [tx EXCEPT ![s].pc = p]
        BY <3>3 DEF InsertMessage
      <4> QED
        BY <3>3, <4>2, <4>3 DEF InsertMessage, TypeOK, rows
    <3>4. CASE CommitMessage(s)
      <4>1. tx[s].pc # "idle"
        BY <3>4 DEF CommitMessage
      <4>2. Draft(tx[s]) \in Message /\ EventFor(Draft(tx[s])) \in Event
        BY <4>1, CallType, EventType
      <4>3. CounterAfterInsert(Draft(tx[s])) \in [Conversation -> Nat]
        BY <4>2 DEF CounterAfterInsert, TypeOK, Larger, Message
      <4> QED
        BY <3>4, <4>2, <4>3 DEF CommitMessage, TypeOK, Transaction
    <3>5. CASE RecoverExisting(s)
      BY <3>5 DEF RecoverExisting, TypeOK, Existing, Rows, Transaction, rows
    <3>6. CASE Abort(s)
      BY <3>6 DEF Abort, TypeOK, Transaction, rows
    <3> QED
      BY <2>2, <3>1, <3>2, <3>3, <3>4, <3>5, <3>6 DEF Sending
  <2>3. ASSUME NEW k \in Marker, MarkingRead(k) PROVE TypeOK'
    <3>1. ASSUME NEW c \in Conversation, NEW u \in User, ReadCounter(k, c, u)
          PROVE  TypeOK'
      BY <3>1 DEF ReadCounter, TypeOK, Marking, rows
    <3>2. CASE ResolveTarget(k)
      <4>1. /\ mark[k].conversationId \in Conversation
            /\ mark[k].userId \in User
            /\ mark[k].next \in Nat
        BY <3>2 DEF ResolveTarget, TypeOK, Marking, Idle
      <4>2. Targets(mark[k].conversationId) \subseteq Nat
        BY TargetAssumption DEF Targets, TypeOK, Rows, Message
      <4>3. PICK t \in Nat :
              mark' = [mark EXCEPT ![k] =
                [pc |-> "resolved", conversationId |-> mark[k].conversationId,
                 userId |-> mark[k].userId, next |-> mark[k].next,
                 target |-> Smaller(t, mark[k].next)]]
        BY <3>2, <4>2 DEF ResolveTarget
      <4> QED
        BY <3>2, <4>1, <4>3 DEF ResolveTarget, TypeOK, Marking, Smaller, rows
    <3>3. CASE WritePosition(k)
      <4>1. /\ mark[k].conversationId \in Conversation
            /\ mark[k].userId \in User
            /\ mark[k].target \in Nat
        BY <3>3 DEF WritePosition, TypeOK, Marking, Idle
      <4> QED
        BY <3>3, <4>1 DEF WritePosition, TypeOK, Marking, Larger
    <3>4. CASE AbandonMark(k)
      BY <3>4 DEF AbandonMark, TypeOK, Marking, rows
    <3> QED
      BY <2>3, <3>1, <3>2, <3>3, <3>4 DEF MarkingRead
  <2>4. ASSUME NEW c \in Conversation, NEW u \in User, NEW k \in LegacyId,
               LegacyInsert(c, u, k)
        PROVE  TypeOK'
    BY <2>4 DEF LegacyInsert, TypeOK, Message, AnyId
  <2>5. CASE UNCHANGED vars
    BY <2>5 DEF vars, rows, TypeOK
  <2> QED
    BY <2>1, <2>2, <2>3, <2>4, <2>5 DEF Next
<1> QED
  BY <1>1, <1>2, PTL DEF Spec

-----------------------------------------------------------------------------
(* The inductive invariant.  The properties talk about committed rows; what    *)
(* keeps them true is what open transactions hold: the row lock makes its       *)
(* holder the only transaction with a number, and that number is the next one.  *)

(* Committed messages carry the numbers 1..counter, each exactly once.          *)
Numbered ==
    /\ \A m \in messages : m.sequence \in 1..nextMessageSequence[m.conversationId]
    /\ \A c \in Conversation : \A n \in 1..nextMessageSequence[c] :
          \E m \in messages : m.conversationId = c /\ m.sequence = n
    /\ \A m, x \in messages :
          m.conversationId = x.conversationId /\ m.sequence = x.sequence => m = x

Keyed ==
    \A m, x \in messages :
        /\ m.conversationId = x.conversationId
        /\ m.senderId = x.senderId
        /\ m.clientMessageId = x.clientMessageId
        => m = x

Exclusive ==
    \A s, t \in Server, c \in Conversation : HoldsRow(s, c) /\ HoldsRow(t, c) => s = t

HoldsNext ==
    \A s \in Server, c \in Conversation :
        HoldsRow(s, c) => tx[s].sequence = nextMessageSequence[c] + 1

Unused ==
    \A s \in Server : tx[s].pc = "inserted" =>
        Existing(tx[s].conversationId, tx[s].senderId, tx[s].clientMessageId) = {}

PositionsWithin ==
    /\ \A c \in Conversation, u \in User :
          lastReadSequence[c][u] <= nextMessageSequence[c]
    /\ \A k \in Marker :
          /\ mark[k] # Idle => mark[k].next <= nextMessageSequence[mark[k].conversationId]
          /\ mark[k].pc = "resolved" => mark[k].target <= mark[k].next

LogInv ==
    /\ Numbered
    /\ Keyed
    /\ Exclusive
    /\ HoldsNext
    /\ Unused
    /\ AnswersAreDurable
    /\ EventPerMessage
    /\ PositionsWithin

(* Adding the message with the next number keeps the numbering.                 *)
LEMMA AppendKeepsNumbers ==
    ASSUME TypeOK, Numbered, NEW m \in Message,
           m.sequence = nextMessageSequence[m.conversationId] + 1,
           messages' = messages \cup {m},
           nextMessageSequence' =
             [nextMessageSequence EXCEPT ![m.conversationId] = m.sequence]
    PROVE  /\ Numbered'
           /\ \A c \in Conversation : nextMessageSequence[c] <= nextMessageSequence'[c]
<1> DEFINE d == m.conversationId
<1>1. /\ d \in Conversation
      /\ \A c \in Conversation : nextMessageSequence[c] \in Nat
      /\ \A x \in messages : x \in Message /\ x.conversationId \in Conversation
      /\ m.sequence \in Nat
  BY DEF TypeOK, Message
<1>2. /\ nextMessageSequence'[d] = nextMessageSequence[d] + 1
      /\ \A c \in Conversation : c # d => nextMessageSequence'[c] = nextMessageSequence[c]
  BY <1>1 DEF TypeOK
<1>3. \A x \in messages' : x.sequence \in 1..nextMessageSequence'[x.conversationId]
  <2> TAKE x \in messages'
  <2>1. CASE x \in messages
    BY <2>1, <1>1, <1>2 DEF Numbered
  <2>2. CASE x = m
    BY <2>2, <1>1, <1>2
  <2> QED BY <2>1, <2>2
<1>4. ASSUME NEW c \in Conversation, NEW n \in 1..nextMessageSequence'[c]
      PROVE  \E x \in messages' : x.conversationId = c /\ x.sequence = n
  <2>1. CASE n \in 1..nextMessageSequence[c]
    BY <2>1 DEF Numbered
  <2>2. CASE c = d /\ n = m.sequence
    BY <2>2
  <2> QED BY <2>1, <2>2, <1>1, <1>2
<1>5. ASSUME NEW x \in messages', NEW y \in messages',
             x.conversationId = y.conversationId, x.sequence = y.sequence
      PROVE  x = y
  <2>1. \A z \in messages : z.conversationId = d => z.sequence # m.sequence
    BY <1>1 DEF Numbered
  <2> QED BY <2>1, <1>5 DEF Numbered
<1>6. \A c \in Conversation : nextMessageSequence[c] <= nextMessageSequence'[c]
  BY <1>1, <1>2
<1> QED
  BY <1>3, <1>4, <1>5, <1>6 DEF Numbered

(* A transaction that only moves on, or ends, without new numbers or rows      *)
(* leaves the row locks no wider than before.                                  *)
LEMMA NarrowerLocks ==
    ASSUME TypeOK, LogInv, UNCHANGED rows, NEW s \in Server,
           answers' \subseteq messages, UNCHANGED mark,
           \/ tx' = [tx EXCEPT ![s] = Idle]
           \/ \E r \in Transaction :
                 r.pc \in {"absent", "conflict"} /\ tx' = [tx EXCEPT ![s] = r]
    PROVE  LogInv'
<1>1. \A t \in Server : t # s => tx'[t] = tx[t]
  BY DEF TypeOK
<1>2. tx'[s].pc \notin {"sequenced", "inserted"}
  BY DEF TypeOK, Idle
<1>3. \A t \in Server, c \in Conversation : HoldsRow(t, c)' => t # s /\ HoldsRow(t, c)
  BY <1>1, <1>2 DEF HoldsRow
<1>4. Exclusive' /\ HoldsNext'
  BY <1>1, <1>3 DEF LogInv, Exclusive, HoldsNext, rows
<1>5. Unused'
  BY <1>1, <1>2 DEF LogInv, Unused, Existing, Rows, rows
<1> QED
  BY <1>4, <1>5 DEF LogInv, rows, Numbered, Keyed, AnswersAreDurable, EventPerMessage,
     PositionsWithin

(* A message with the next number, whose key no row has, committed while no other *)
(* transaction holds the row: the step CommitMessage and LegacyInsert share.      *)
LEMMA AppendStep ==
    ASSUME TypeOK, LogInv, NEW m \in Message,
           m.sequence = nextMessageSequence[m.conversationId] + 1,
           Existing(m.conversationId, m.senderId, m.clientMessageId) = {},
           messages' = messages \cup {m},
           nextMessageSequence' =
             [nextMessageSequence EXCEPT ![m.conversationId] = m.sequence],
           events' = IF m.clientMessageId \in LegacyId THEN events
                                                       ELSE events \cup {EventFor(m)},
           answers' \subseteq messages',
           \A t \in Server : tx'[t] = tx[t] \/ tx'[t] = Idle,
           \A t \in Server : ~HoldsRow(t, m.conversationId)',
           UNCHANGED <<lastReadSequence, mark>>
    PROVE  LogInv'
<1>1. Numbered' /\ \A c \in Conversation : nextMessageSequence[c] <= nextMessageSequence'[c]
  BY AppendKeepsNumbers DEF LogInv
<1>2. Keyed'
  BY DEF LogInv, Keyed, Existing, Rows
<1>3. \A t \in Server, c \in Conversation :
         HoldsRow(t, c)' => tx'[t] = tx[t] /\ HoldsRow(t, c) /\ c # m.conversationId
  BY DEF HoldsRow, Idle
<1>4. Exclusive'
  BY <1>3 DEF LogInv, Exclusive
<1>5. HoldsNext'
  BY <1>3 DEF LogInv, HoldsNext, TypeOK, Message
<1>6. Unused'
  <2> SUFFICES ASSUME NEW t \in Server, tx'[t].pc = "inserted"
               PROVE  Existing(tx[t].conversationId, tx[t].senderId,
                               tx[t].clientMessageId)' = {} /\ tx'[t] = tx[t]
    BY DEF Unused, Existing, Rows
  <2>1. tx'[t] = tx[t]
    BY DEF Idle
  <2>2. tx[t].conversationId \in Conversation
    BY <2>1, CallType
  <2>3. HoldsRow(t, tx[t].conversationId)'
    BY <2>1 DEF HoldsRow
  <2>4. tx[t].conversationId # m.conversationId
    BY <2>1, <2>2, <2>3 DEF HoldsRow
  <2> QED
    BY <2>1, <2>4 DEF LogInv, Unused, Existing, Rows
<1>7. EventPerMessage'
  BY DEF LogInv, EventPerMessage, EventFor, Other
<1>8. PositionsWithin'
  <2>1. \A c \in Conversation : nextMessageSequence[c] \in Nat /\ nextMessageSequence'[c] \in Nat
    BY DEF TypeOK, Message
  <2>2. ASSUME NEW c \in Conversation, NEW u \in User
        PROVE  lastReadSequence'[c][u] <= nextMessageSequence'[c]
    BY <1>1, <2>1 DEF LogInv, PositionsWithin, TypeOK
  <2>3. ASSUME NEW k \in Marker, mark[k] # Idle
        PROVE  mark[k].next <= nextMessageSequence'[mark[k].conversationId]
    <3>1. mark[k].conversationId \in Conversation /\ mark[k].next \in Nat
      BY <2>3 DEF TypeOK, Marking
    <3> QED
      BY <1>1, <2>1, <2>3, <3>1 DEF LogInv, PositionsWithin
  <2> QED
    BY <2>2, <2>3 DEF LogInv, PositionsWithin
<1> QED
  BY <1>1, <1>2, <1>4, <1>5, <1>6, <1>7, <1>8 DEF LogInv, AnswersAreDurable

(* The counter never passes a number beyond that of the row just inserted, so    *)
(* the trigger's GREATEST sets it to that number.                               *)
LEMMA CommitIsAppend ==
    ASSUME TypeOK, LogInv, NEW s \in Server, CommitMessage(s)
    PROVE  LogInv'
<1>0. tx[s].pc = "inserted"
  BY DEF CommitMessage
<1>1. PICK m \in Message : m = Draft(tx[s])
  BY <1>0, CallType
<1>2. /\ m.conversationId = tx[s].conversationId
      /\ m.senderId = tx[s].senderId
      /\ m.clientMessageId = tx[s].clientMessageId
      /\ m.sequence = tx[s].sequence
      /\ m.conversationId \in Conversation
      /\ m.clientMessageId \in ClientId
  BY <1>0, <1>1, CallType DEF Draft
<1>3. HoldsRow(s, m.conversationId)
  BY <1>0, <1>2 DEF HoldsRow
<1>4. m.sequence = nextMessageSequence[m.conversationId] + 1
  BY <1>2, <1>3 DEF LogInv, HoldsNext
<1>5. Existing(m.conversationId, m.senderId, m.clientMessageId) = {}
  BY <1>0, <1>2 DEF LogInv, Unused
<1>6. /\ messages' = messages \cup {m}
      /\ nextMessageSequence' =
           [nextMessageSequence EXCEPT ![m.conversationId] = m.sequence]
  <2>1. nextMessageSequence[m.conversationId] \in Nat
    BY <1>2 DEF TypeOK
  <2>2. Larger(nextMessageSequence[m.conversationId], m.sequence) = m.sequence
    BY <1>4, <2>1 DEF Larger
  <2>3. messages' = messages \cup {m} /\ nextMessageSequence' = CounterAfterInsert(m)
    BY <1>1 DEF CommitMessage
  <2> QED
    BY <2>2, <2>3 DEF CounterAfterInsert
<1>7. events' = IF m.clientMessageId \in LegacyId THEN events
                                                  ELSE events \cup {EventFor(m)}
  BY <1>1, <1>2, IdsAssumption DEF CommitMessage
<1>8. answers' \subseteq messages' /\ UNCHANGED <<lastReadSequence, mark>>
  BY <1>1, <1>6 DEF CommitMessage, LogInv, AnswersAreDurable
<1>9. tx' = [tx EXCEPT ![s] = Idle]
  BY DEF CommitMessage
<1>10. \A t \in Server : tx'[t] = tx[t] \/ tx'[t] = Idle
  BY <1>9 DEF TypeOK
<1>11. ASSUME NEW t \in Server PROVE ~HoldsRow(t, m.conversationId)'
  <2> SUFFICES ASSUME HoldsRow(t, m.conversationId)' PROVE FALSE
    OBVIOUS
  <2> QED
    BY <1>2, <1>3, <1>9 DEF HoldsRow, LogInv, Exclusive, Idle, TypeOK
<1> QED
  BY <1>2, <1>4, <1>5, <1>6, <1>7, <1>8, <1>10, <1>11, AppendStep

(* The trigger's row has a fresh id, so no key clash, and the row lock is free.   *)
LEMMA LegacyIsAppend ==
    ASSUME TypeOK, LogInv, NEW c \in Conversation, NEW u \in User, NEW k \in LegacyId,
           LegacyInsert(c, u, k)
    PROVE  LogInv'
<1>1. PICK m \in Message :
         m = [conversationId |-> c, senderId |-> u, clientMessageId |-> k,
              sequence |-> nextMessageSequence[c] + 1]
  <2>1. nextMessageSequence[c] + 1 \in Nat
    BY DEF TypeOK
  <2>2. [conversationId |-> c, senderId |-> u, clientMessageId |-> k,
         sequence |-> nextMessageSequence[c] + 1] \in Message
    BY <2>1 DEF Message, AnyId
  <2> QED BY <2>2
<1>2. Existing(m.conversationId, m.senderId, m.clientMessageId) = {}
  BY <1>1 DEF LegacyInsert, Existing, Rows
<1>3. /\ messages' = messages \cup {m}
      /\ nextMessageSequence' =
           [nextMessageSequence EXCEPT ![m.conversationId] = m.sequence]
      /\ events' = IF m.clientMessageId \in LegacyId THEN events
                                                     ELSE events \cup {EventFor(m)}
  BY <1>1 DEF LegacyInsert
<1>4. answers' \subseteq messages'
  BY <1>3 DEF LegacyInsert, LogInv, AnswersAreDurable
<1>5. \A t \in Server : ~HoldsRow(t, m.conversationId)'
  BY <1>1 DEF LegacyInsert, RowLocked, HoldsRow
<1> QED
  BY <1>1, <1>2, <1>3, <1>4, <1>5, AppendStep DEF LegacyInsert

(* The invariant is inductive relative to typing.                                *)
THEOREM LogInvariant == Spec => []LogInv
<1>1. Init => LogInv
  BY DEF Init, LogInv, Numbered, Keyed, Exclusive, HoldsNext, HoldsRow, Unused,
     AnswersAreDurable, EventPerMessage, PositionsWithin, Idle
<1>2. TypeOK /\ LogInv /\ [Next]_vars => LogInv'
  <2> SUFFICES ASSUME TypeOK, LogInv, [Next]_vars PROVE LogInv'
    OBVIOUS
  <2>1. ASSUME NEW c \in Conversation, StartConversation(c) PROVE LogInv'
    BY <2>1 DEF StartConversation, LogInv, Numbered, Keyed, Exclusive, HoldsNext,
       HoldsRow, Unused, Existing, Rows, AnswersAreDurable, EventPerMessage,
       PositionsWithin
  <2>2. ASSUME NEW s \in Server, Sending(s) PROVE LogInv'
    <3>1. ASSUME NEW c \in Conversation, NEW u \in User, NEW k \in ClientId,
                 FindExisting(s, c, u, k)
          PROVE  LogInv'
      <4>1. Existing(c, u, k) \subseteq messages
        BY DEF Existing, Rows
      <4>2. [pc |-> "absent", conversationId |-> c, senderId |-> u,
             clientMessageId |-> k, sequence |-> 0] \in Transaction
        BY DEF Transaction, Call
      <4>3. CASE Existing(c, u, k) # {}
        BY <3>1, <4>1, <4>3 DEF FindExisting, rows, LogInv, Numbered, Keyed, Exclusive,
           HoldsNext, HoldsRow, Unused, Existing, Rows, AnswersAreDurable,
           EventPerMessage, PositionsWithin
      <4>4. CASE Existing(c, u, k) = {}
        BY <3>1, <4>2, <4>4, NarrowerLocks DEF FindExisting, LogInv, AnswersAreDurable
      <4> QED BY <4>3, <4>4
    <3>2. CASE TakeSequence(s)
      <4>1. tx[s].conversationId \in Conversation /\ tx[s].pc = "absent"
        BY <3>2, CallType DEF TakeSequence
      <4>2. /\ \A t \in Server : t # s => tx'[t] = tx[t]
            /\ tx'[s].pc = "sequenced"
            /\ tx'[s].conversationId = tx[s].conversationId
            /\ tx'[s].sequence = nextMessageSequence[tx[s].conversationId] + 1
        <5>1. tx[s] \in Call({"absent", "sequenced", "inserted", "conflict"})
          BY <4>1, CallType
        <5> QED BY <3>2, <5>1 DEF TakeSequence, TypeOK, Call
      <4>3. \A t \in Server, c \in Conversation :
               HoldsRow(t, c)' <=> IF t = s THEN c = tx[s].conversationId
                                            ELSE HoldsRow(t, c)
        BY <4>2 DEF HoldsRow
      <4>4. \A t \in Server : ~HoldsRow(t, tx[s].conversationId)
        BY <3>2 DEF TakeSequence, RowLocked
      <4>5. UNCHANGED rows
        BY <3>2 DEF TakeSequence
      <4>6. Exclusive'
        BY <4>3, <4>4 DEF LogInv, Exclusive
      <4>7. HoldsNext'
        BY <4>2, <4>3, <4>5 DEF rows, LogInv, HoldsNext
      <4>8. Unused'
        <5>1. \A t \in Server : tx'[t].pc = "inserted" => t # s /\ tx'[t] = tx[t]
          BY <4>2
        <5> QED
          BY <4>5, <5>1 DEF rows, LogInv, Unused, Existing, Rows
      <4> QED
        BY <3>2, <4>6, <4>7, <4>8 DEF TakeSequence, rows, LogInv, Numbered, Keyed,
           AnswersAreDurable, EventPerMessage, PositionsWithin
    <3>3. CASE InsertMessage(s)
      <4>1. tx[s] \in Call({"absent", "sequenced", "inserted", "conflict"})
        BY <3>3, CallType DEF InsertMessage
      <4>2. CASE Conflicts(Draft(tx[s]))
        <5>1. PICK r \in Transaction : r = [tx[s] EXCEPT !.pc = "conflict"]
          BY <4>1 DEF Call, Transaction
        <5>2. r.pc = "conflict" /\ tx' = [tx EXCEPT ![s] = r]
          BY <3>3, <4>1, <4>2, <5>1 DEF InsertMessage, Call
        <5> QED
          BY <3>3, <5>2, NarrowerLocks DEF InsertMessage, LogInv, AnswersAreDurable
      <4>3. CASE ~Conflicts(Draft(tx[s]))
        <5>1. /\ \A t \in Server : t # s => tx'[t] = tx[t]
              /\ tx'[s] = [tx[s] EXCEPT !.pc = "inserted"]
          BY <3>3, <4>3 DEF InsertMessage, TypeOK
        <5>2. /\ tx'[s].pc = "inserted"
              /\ tx'[s].conversationId = tx[s].conversationId
              /\ tx'[s].senderId = tx[s].senderId
              /\ tx'[s].clientMessageId = tx[s].clientMessageId
              /\ tx'[s].sequence = tx[s].sequence
          BY <4>1, <5>1 DEF Call
        <5>3. \A t \in Server, c \in Conversation : HoldsRow(t, c)' => HoldsRow(t, c)
          BY <3>3, <5>1, <5>2 DEF InsertMessage, HoldsRow
        <5>4. Exclusive' /\ HoldsNext'
          BY <3>3, <5>1, <5>2, <5>3 DEF InsertMessage, rows, LogInv, Exclusive, HoldsNext
        <5>5. Existing(tx[s].conversationId, tx[s].senderId, tx[s].clientMessageId) = {}
          BY <4>3 DEF Conflicts, Draft
        <5>6. Unused'
          BY <3>3, <5>1, <5>2, <5>5 DEF InsertMessage, rows, LogInv, Unused, Existing, Rows
        <5> QED
          BY <3>3, <5>4, <5>6 DEF InsertMessage, rows, LogInv, Numbered, Keyed,
             AnswersAreDurable, EventPerMessage, PositionsWithin
      <4> QED BY <4>2, <4>3
    <3>4. CASE CommitMessage(s)
      BY <3>4, CommitIsAppend
    <3>5. CASE RecoverExisting(s)
      BY <3>5, NarrowerLocks DEF RecoverExisting, LogInv, AnswersAreDurable, Existing, Rows
    <3>6. CASE Abort(s)
      BY <3>6, NarrowerLocks DEF Abort, LogInv, AnswersAreDurable
    <3> QED
      BY <2>2, <3>1, <3>2, <3>3, <3>4, <3>5, <3>6 DEF Sending
  <2>3. ASSUME NEW k \in Marker, MarkingRead(k) PROVE LogInv'
    <3>1. UNCHANGED <<nextMessageSequence, messages, events, tx, answers>>
      BY <2>3 DEF MarkingRead, ReadCounter, ResolveTarget, WritePosition, AbandonMark, rows
    <3>2. PositionsWithin'
      <4>1. ASSUME NEW c \in Conversation, NEW u \in User, ReadCounter(k, c, u)
            PROVE  PositionsWithin'
        BY <4>1 DEF ReadCounter, rows, LogInv, PositionsWithin, TypeOK
      <4>2. CASE ResolveTarget(k)
        <5>1. mark[k].conversationId \in Conversation /\ mark[k].next \in Nat /\ mark[k] # Idle
          BY <4>2 DEF ResolveTarget, TypeOK, Marking, Idle
        <5>2. Targets(mark[k].conversationId) \subseteq Nat
          BY TargetAssumption DEF Targets, TypeOK, Rows, Message
        <5>3. PICK t \in Nat :
                mark' = [mark EXCEPT ![k] =
                  [pc |-> "resolved", conversationId |-> mark[k].conversationId,
                   userId |-> mark[k].userId, next |-> mark[k].next,
                   target |-> Smaller(t, mark[k].next)]]
          BY <4>2, <5>2 DEF ResolveTarget
        <5> QED
          BY <4>2, <5>1, <5>3 DEF ResolveTarget, rows, LogInv, PositionsWithin, Smaller, TypeOK
      <4>3. CASE WritePosition(k)
        <5>1. /\ mark[k].conversationId \in Conversation
              /\ mark[k].userId \in User
              /\ mark[k].next \in Nat
              /\ mark[k].target \in Nat
              /\ mark[k] # Idle
          BY <4>3 DEF WritePosition, TypeOK, Marking, Idle
        <5>2. mark[k].target <= nextMessageSequence[mark[k].conversationId]
          BY <4>3, <5>1 DEF WritePosition, LogInv, PositionsWithin, TypeOK
        <5>3. ASSUME NEW c \in Conversation, NEW u \in User
              PROVE  lastReadSequence'[c][u] <= nextMessageSequence'[c]
          BY <3>1, <4>3, <5>1, <5>2 DEF WritePosition, LogInv, PositionsWithin, Larger, TypeOK
        <5> QED
          BY <3>1, <4>3, <5>3 DEF WritePosition, LogInv, PositionsWithin, Idle, TypeOK
      <4>4. CASE AbandonMark(k)
        BY <4>4 DEF AbandonMark, rows, LogInv, PositionsWithin, Idle, TypeOK
      <4> QED
        BY <2>3, <4>1, <4>2, <4>3, <4>4 DEF MarkingRead
    <3> QED
      BY <3>1, <3>2 DEF LogInv, Numbered, Keyed, Exclusive, HoldsNext, HoldsRow, Unused,
         Existing, Rows, AnswersAreDurable, EventPerMessage
  <2>4. ASSUME NEW c \in Conversation, NEW u \in User, NEW k \in LegacyId,
               LegacyInsert(c, u, k)
        PROVE  LogInv'
    BY <2>4, LegacyIsAppend
  <2>5. CASE UNCHANGED vars
    BY <2>5 DEF vars, rows, LogInv, Numbered, Keyed, Exclusive, HoldsNext, HoldsRow,
       Unused, Existing, Rows, AnswersAreDurable, EventPerMessage, PositionsWithin
  <2> QED
    BY <2>1, <2>2, <2>3, <2>4, <2>5 DEF Next
<1> QED
  BY <1>1, <1>2, TypeCorrect, PTL DEF Spec

-----------------------------------------------------------------------------
(* What follows from the invariant.                                             *)

(* The numbers of a conversation are exactly 1..counter, one message each: no      *)
(* interleaving of senders, rollback or legacy insert skips or repeats a number.   *)
THEOREM Gapless == Spec => []SequencesAreGapless
<1>1. TypeOK /\ LogInv => SequencesAreGapless
  <2> SUFFICES ASSUME TypeOK, LogInv, NEW c \in Conversation
               PROVE  /\ {m.sequence : m \in Rows(c)} = 1..nextMessageSequence[c]
                      /\ \A m, x \in Rows(c) : m.sequence = x.sequence => m = x
    BY DEF SequencesAreGapless
  <2>1. \A n \in 1..nextMessageSequence[c] : \E m \in Rows(c) : m.sequence = n
    BY DEF LogInv, Numbered, Rows
  <2>2. \A m \in Rows(c) : m.sequence \in 1..nextMessageSequence[c]
    BY DEF LogInv, Numbered, Rows
  <2>3. \A m, x \in Rows(c) : m.sequence = x.sequence => m = x
    BY DEF LogInv, Numbered, Rows
  <2> QED
    BY <2>1, <2>2, <2>3
<1> QED
  BY <1>1, TypeCorrect, LogInvariant, PTL

(* However often and however concurrently a key is sent, one message has it.       *)
THEOREM Idempotent == Spec => []OneMessagePerKey
<1>1. LogInv => OneMessagePerKey
  BY DEF LogInv, Keyed, OneMessagePerKey, Rows
<1> QED
  BY <1>1, LogInvariant, PTL

(* Every answer given names a committed message, under its committed number.       *)
THEOREM Durable == Spec => []AnswersAreDurable
<1>1. LogInv => AnswersAreDurable
  BY DEF LogInv
<1> QED
  BY <1>1, LogInvariant, PTL

(* The outbox holds exactly one event per message of this backend.                 *)
THEOREM Outboxed == Spec => []EventPerMessage
<1>1. LogInv => EventPerMessage
  BY DEF LogInv
<1> QED
  BY <1>1, LogInvariant, PTL

(* A step that makes a message visible gives it the next number, and moves no       *)
(* read position.                                                                  *)
LEMMA NewMessage ==
    ASSUME TypeOK, LogInv, [Next]_vars
    PROVE  /\ messages \subseteq messages'
           /\ \A m \in messages' \ messages :
                 /\ m.conversationId \in Conversation
                 /\ m.sequence = nextMessageSequence[m.conversationId] + 1
                 /\ UNCHANGED lastReadSequence
<1>1. ASSUME NEW s \in Server, CommitMessage(s)
      PROVE  /\ messages' = messages \cup {Draft(tx[s])}
             /\ Draft(tx[s]).conversationId \in Conversation
             /\ Draft(tx[s]).sequence = nextMessageSequence[Draft(tx[s]).conversationId] + 1
             /\ UNCHANGED lastReadSequence
  <2>1. tx[s].pc = "inserted" /\ tx[s].conversationId \in Conversation
    BY <1>1, CallType DEF CommitMessage
  <2>2. tx[s].sequence = nextMessageSequence[tx[s].conversationId] + 1
    BY <2>1 DEF LogInv, HoldsNext, HoldsRow
  <2> QED
    BY <1>1, <2>1, <2>2 DEF CommitMessage, Draft
<1>2. ASSUME NEW c \in Conversation, NEW u \in User, NEW k \in LegacyId,
             LegacyInsert(c, u, k)
      PROVE  \E m : /\ messages' = messages \cup {m}
                    /\ m.conversationId \in Conversation
                    /\ m.sequence = nextMessageSequence[m.conversationId] + 1
                    /\ UNCHANGED lastReadSequence
  <2>1. PICK m : m = [conversationId |-> c, senderId |-> u, clientMessageId |-> k,
                      sequence |-> nextMessageSequence[c] + 1]
    OBVIOUS
  <2>2. m.conversationId = c /\ m.sequence = nextMessageSequence[c] + 1
    BY <2>1
  <2>3. messages' = messages \cup {m} /\ UNCHANGED lastReadSequence
    BY <1>2, <2>1 DEF LegacyInsert
  <2> QED
    BY <2>2, <2>3
<1>3. \/ UNCHANGED messages
      \/ \E s \in Server : CommitMessage(s)
      \/ \E c \in Conversation, u \in User, k \in LegacyId : LegacyInsert(c, u, k)
  BY DEF Next, Sending, MarkingRead, vars, rows, StartConversation, FindExisting,
     TakeSequence, InsertMessage, RecoverExisting, Abort, ReadCounter, ResolveTarget,
     WritePosition, AbandonMark
<1> QED
  BY <1>1, <1>2, <1>3

(* Commit order is sequence order: what becomes visible is numbered above            *)
(* everything that was visible, so a reader never has to look back.                  *)
THEOREM CommitOrder == Spec => CommitFollowsSequence
<1>1. TypeOK /\ LogInv /\ [Next]_vars =>
        [/\ messages \subseteq messages'
         /\ \A m \in messages' \ messages : \A x \in Rows(m.conversationId) :
                x.sequence < m.sequence]_vars
  <2> SUFFICES ASSUME TypeOK, LogInv, [Next]_vars,
                      NEW m \in messages' \ messages, NEW x \in Rows(m.conversationId)
               PROVE  x.sequence < m.sequence
    BY NewMessage
  <2>1. /\ m.conversationId \in Conversation
        /\ m.sequence = nextMessageSequence[m.conversationId] + 1
        /\ nextMessageSequence[m.conversationId] \in Nat
    BY NewMessage DEF TypeOK
  <2>2. x.sequence \in 1..nextMessageSequence[m.conversationId]
    BY DEF LogInv, Numbered, Rows
  <2> QED
    BY <2>1, <2>2
<1> QED
  BY <1>1, TypeCorrect, LogInvariant, PTL DEF Spec, CommitFollowsSequence

(* No read position covers a message before it is sent, whatever callers ask for.     *)
THEOREM BornUnread == Spec => NeverBornRead
<1>1. TypeOK /\ LogInv /\ [Next]_vars =>
        [\A m \in messages' \ messages : \A u \in User :
           lastReadSequence'[m.conversationId][u] < m.sequence]_vars
  <2> SUFFICES ASSUME TypeOK, LogInv, [Next]_vars,
                      NEW m \in messages' \ messages, NEW u \in User
               PROVE  lastReadSequence'[m.conversationId][u] < m.sequence
    OBVIOUS
  <2>1. /\ m.conversationId \in Conversation
        /\ m.sequence = nextMessageSequence[m.conversationId] + 1
        /\ lastReadSequence' = lastReadSequence
    BY NewMessage
  <2>2. /\ nextMessageSequence[m.conversationId] \in Nat
        /\ lastReadSequence[m.conversationId][u] \in Nat
        /\ lastReadSequence[m.conversationId][u] <= nextMessageSequence[m.conversationId]
    BY <2>1 DEF TypeOK, LogInv, PositionsWithin
  <2> QED
    BY <2>1, <2>2
<1> QED
  BY <1>1, TypeCorrect, LogInvariant, PTL DEF Spec, NeverBornRead

(* A read position never moves back, whichever markAsRead writes last.                *)
THEOREM ReadForward == Spec => PositionsOnlyAdvance
<1>1. TypeOK /\ [Next]_vars =>
        [\A c \in Conversation, u \in User :
           lastReadSequence'[c][u] >= lastReadSequence[c][u]]_vars
  <2> SUFFICES ASSUME TypeOK, [Next]_vars, NEW c \in Conversation, NEW u \in User
               PROVE  lastReadSequence'[c][u] >= lastReadSequence[c][u]
    OBVIOUS
  <2>1. ASSUME NEW k \in Marker, WritePosition(k)
        PROVE  lastReadSequence'[c][u] >= lastReadSequence[c][u]
    <3>1. mark[k].target \in Nat
      BY <2>1 DEF WritePosition, TypeOK, Marking, Idle
    <3>2. lastReadSequence'[c][u] \in
            {lastReadSequence[c][u], Larger(lastReadSequence[c][u], mark[k].target)}
      BY <2>1 DEF WritePosition, TypeOK
    <3> QED
      BY <3>1, <3>2 DEF Larger, TypeOK
  <2>2. UNCHANGED lastReadSequence \/ \E k \in Marker : WritePosition(k)
    BY DEF Next, Sending, MarkingRead, vars, rows, StartConversation, FindExisting,
       TakeSequence, InsertMessage, CommitMessage, RecoverExisting, Abort,
       LegacyInsert, ReadCounter, ResolveTarget, AbandonMark
  <2>3. lastReadSequence[c][u] \in Nat
    BY DEF TypeOK
  <2> QED
    BY <2>1, <2>2, <2>3
<1> QED
  BY <1>1, TypeCorrect, PTL DEF Spec, PositionsOnlyAdvance

-----------------------------------------------------------------------------
(* Refinement: committed messages in order of number are the abstract log.          *)

(* The number names its message.                                                   *)
LEMMA NumberNames ==
    ASSUME NEW M, NEW m \in M,
           \A x \in M : x.sequence = m.sequence => x = m
    PROVE  (CHOOSE x \in M : x.sequence = m.sequence) = m
OBVIOUS

(* Every message is in the log at its number, and nothing else is in the log.       *)
LogHolds(c, l) ==
    /\ DOMAIN l = 1..nextMessageSequence[c]
    /\ l \in Seq(User \X AnyId)
    /\ Len(l) = nextMessageSequence[c]
    /\ \A m \in Rows(c) : m.sequence \in DOMAIN l /\ l[m.sequence] = MessageKey(m)
    /\ \A n \in DOMAIN l : \E m \in Rows(c) : m.sequence = n /\ l[n] = MessageKey(m)

LEMMA LogEntries ==
    ASSUME TypeOK, LogInv, NEW c \in Conversation
    PROVE  LogHolds(c, LogOf(c))
<1>1. nextMessageSequence[c] \in Nat /\ \A m \in Rows(c) : MessageKey(m) \in User \X AnyId
  BY DEF TypeOK, Rows, Message, MessageKey
<1>2. \A n \in 1..nextMessageSequence[c] : \E m \in Rows(c) : m.sequence = n
  BY DEF LogInv, Numbered, Rows
<1>3. ASSUME NEW m \in Rows(c)
      PROVE  /\ m.sequence \in 1..nextMessageSequence[c]
             /\ (CHOOSE x \in Rows(c) : x.sequence = m.sequence) = m
  <2>1. m.sequence \in 1..nextMessageSequence[c]
    BY DEF LogInv, Numbered, Rows
  <2>2. \A x \in Rows(c) : x.sequence = m.sequence => x = m
    BY DEF LogInv, Numbered, Rows
  <2> QED
    BY <2>1, <2>2, NumberNames
<1>4. DOMAIN LogOf(c) = 1..nextMessageSequence[c]
  BY DEF LogOf
<1>5. ASSUME NEW m \in Rows(c)
      PROVE  LogOf(c)[m.sequence] = MessageKey(m)
  BY <1>3 DEF LogOf
<1>6. \A n \in 1..nextMessageSequence[c] : LogOf(c)[n] \in User \X AnyId
  BY <1>1, <1>2, <1>5
<1>7. LogOf(c) = [n \in 1..nextMessageSequence[c] |-> LogOf(c)[n]]
  BY DEF LogOf
<1>8. LogOf(c) \in Seq(User \X AnyId) /\ Len(LogOf(c)) = nextMessageSequence[c]
  <2> DEFINE l == LogOf(c)
             k == nextMessageSequence[c]
  <2>1. l = [n \in 1..k |-> l[n]] /\ k \in Nat /\ \A n \in 1..k : l[n] \in User \X AnyId
    BY <1>1, <1>6, <1>7
  <2> HIDE DEF l, k
  <2>2. l \in Seq(User \X AnyId) /\ Len(l) = k
    BY <2>1
  <2> QED
    BY <2>2 DEF l, k
<1> QED
  BY <1>2, <1>3, <1>4, <1>5, <1>8 DEF LogHolds

LogKept == \A c \in Conversation : LogHolds(c, LogOf(c))

(* A conversation with the same rows and the same counter has the same log.         *)
LEMMA SameLog ==
    ASSUME LogKept, LogKept', TypeOK, NEW d \in Conversation,
           Rows(d)' = Rows(d), nextMessageSequence'[d] = nextMessageSequence[d]
    PROVE  LogOf(d)' = LogOf(d)
<1> DEFINE l == LogOf(d)
           k == nextMessageSequence[d]
           after == LogOf(d)'
<1>1. LogHolds(d, LogOf(d)) /\ LogHolds(d, LogOf(d))'
  BY DEF LogKept
<1>2. /\ l \in Seq(User \X AnyId) /\ after \in Seq(User \X AnyId)
      /\ Len(l) = k /\ Len(after) = k /\ k \in Nat
      /\ \A n \in 1..k : after[n] = l[n]
  <2>1. /\ k \in Nat
        /\ l \in Seq(User \X AnyId) /\ Len(l) = k /\ DOMAIN l = 1..k
        /\ \A n \in DOMAIN l : \E x \in Rows(d) : x.sequence = n /\ l[n] = MessageKey(x)
    BY <1>1 DEF LogHolds, TypeOK
  <2>2. /\ after \in Seq(User \X AnyId)
        /\ Len(after) = k
        /\ \A x \in Rows(d)' : after[x.sequence] = MessageKey(x)
    <3>1. LogHolds(d, LogOf(d))'
      BY <1>1
    <3> QED
      BY <3>1 DEF LogHolds, MessageKey
  <2> QED
    BY <2>1, <2>2
<1> HIDE DEF l, k, after
<1>3. after = l
  BY <1>2
<1> QED
  BY <1>3 DEF l, after

(* A log that keeps what it held and holds one more number is the log with the      *)
(* message of that number appended.                                                *)
LEMMA LogGrows ==
    ASSUME LogKept, LogKept', TypeOK, NEW m, NEW c \in Conversation,
           m.conversationId = c,
           messages' = messages \cup {m},
           m.sequence = nextMessageSequence[c] + 1,
           nextMessageSequence' = [nextMessageSequence EXCEPT ![c] = m.sequence]
    PROVE  /\ LogOf(c)' = Append(LogOf(c), MessageKey(m))
           /\ \A d \in Conversation : d # c => LogOf(d)' = LogOf(d)
           /\ [d \in Conversation |-> LogOf(d)'] =
                [[d \in Conversation |-> LogOf(d)] EXCEPT ![c] = Append(@, MessageKey(m))]
<1>1. /\ nextMessageSequence[c] \in Nat
      /\ nextMessageSequence'[c] = nextMessageSequence[c] + 1
      /\ \A d \in Conversation : d # c => nextMessageSequence'[d] = nextMessageSequence[d]
  BY DEF TypeOK
<1>2. Rows(c)' = Rows(c) \cup {m}
  BY DEF Rows
<1>3. \A d \in Conversation : d # c => Rows(d)' = Rows(d)
  BY DEF Rows
<1>4. LogOf(c)' = Append(LogOf(c), MessageKey(m))
  <2> DEFINE l == LogOf(c)
             k == nextMessageSequence[c]
             after == LogOf(c)'
             key == MessageKey(m)
  <2>1. /\ l \in Seq(User \X AnyId)
        /\ Len(l) = k
        /\ DOMAIN l = 1..k
        /\ \A n \in 1..k : \E x \in Rows(c) : x.sequence = n /\ l[n] = MessageKey(x)
    <3>1. LogHolds(c, LogOf(c))
      BY DEF LogKept
    <3> QED
      BY <3>1 DEF LogHolds
  <2>2. /\ after \in Seq(User \X AnyId)
        /\ Len(after) = k + 1
        /\ DOMAIN after = 1..(k + 1)
        /\ \A x \in Rows(c)' : after[x.sequence] = MessageKey(x)
    <3>1. LogHolds(c, LogOf(c))'
      BY DEF LogKept
    <3> QED
      BY <1>1, <3>1 DEF LogHolds, MessageKey
  <2>3. \A n \in 1..k : after[n] = l[n]
    BY <1>2, <2>1, <2>2
  <2>4. after[k + 1] = key
    BY <1>2, <2>2
  <2>5. key \in User \X AnyId
    BY <1>1, <2>2, <2>4
  <2> HIDE DEF l, k, after, key
  <2>6. after = Append(l, key)
    BY <1>1, <2>1, <2>2, <2>3, <2>4, <2>5 DEF k
  <2> QED
    BY <2>6 DEF l, after, key
<1>5. ASSUME NEW d \in Conversation, d # c
      PROVE  LogOf(d)' = LogOf(d)
  <2>1. Rows(d)' = Rows(d) /\ nextMessageSequence'[d] = nextMessageSequence[d]
    BY <1>1, <1>3, <1>5
  <2> QED
    BY <2>1, SameLog
<1> QED
  BY <1>4, <1>5

(* A key that no message has is not in the log.                                     *)
LEMMA NotYetSent ==
    ASSUME LogKept, NEW c \in Conversation, NEW i,
           \A x \in Rows(c) : MessageKey(x) # i
    PROVE  ~Log!Sent(c, i)
<1>1. /\ Len(LogOf(c)) = nextMessageSequence[c]
      /\ \A n \in 1..nextMessageSequence[c] :
            \E x \in Rows(c) : LogOf(c)[n] = MessageKey(x)
  <2>1. LogHolds(c, LogOf(c))
    BY DEF LogKept
  <2> QED
    BY <2>1 DEF LogHolds
<1> QED
  BY <1>1 DEF Log!Sent

(* A message that becomes visible is one Send of the log.                            *)
LEMMA VisibleIsSend ==
    ASSUME TypeOK, LogKept, LogKept', NEW m, NEW c \in Conversation,
           m.conversationId = c, c \in opened,
           MessageKey(m) \in User \X AnyId,
           \A x \in Rows(c) : MessageKey(x) # MessageKey(m),
           messages' = messages \cup {m},
           m.sequence = nextMessageSequence[c] + 1,
           nextMessageSequence' = [nextMessageSequence EXCEPT ![c] = m.sequence],
           events' = IF MessageKey(m) \in User \X LegacyId
                       THEN events ELSE events \cup {EventFor(m)},
           UNCHANGED <<opened, lastReadSequence>>
    PROVE  Log!Next
<1>1. ~Log!Sent(c, MessageKey(m))
  BY NotYetSent
<1>2. [d \in Conversation |-> LogOf(d)]' =
        [[d \in Conversation |-> LogOf(d)] EXCEPT ![c] = Append(@, MessageKey(m))]
  BY LogGrows
<1>3. {<<e.message.conversationId, MessageKey(e.message)>> : e \in events}' =
        IF MessageKey(m) \in User \X LegacyId
          THEN {<<e.message.conversationId, MessageKey(e.message)>> : e \in events}
          ELSE {<<e.message.conversationId, MessageKey(e.message)>> : e \in events}
                 \cup {<<c, MessageKey(m)>>}
  <2>1. EventFor(m).message = m
    BY DEF EventFor
  <2> QED
    BY <2>1 DEF MessageKey
<1>4. Log!Send(c, MessageKey(m))
  BY <1>1, <1>2, <1>3 DEF Log!Send
<1> QED
  BY <1>4 DEF Log!Next

LEMMA CommitIsSend ==
    ASSUME TypeOK, LogInv, LogKept, LogKept', NEW s \in Server, CommitMessage(s),
           tx[s].conversationId \in opened
    PROVE  Log!Next
<1> DEFINE m == Draft(tx[s])
<1>1. tx[s].pc = "inserted" /\ tx[s] \in Call({"absent", "sequenced", "inserted", "conflict"})
  BY CallType DEF CommitMessage
<1>2. /\ m.conversationId = tx[s].conversationId
      /\ m.senderId = tx[s].senderId
      /\ m.clientMessageId = tx[s].clientMessageId
      /\ m.sequence = tx[s].sequence
      /\ m.conversationId \in Conversation
      /\ m.senderId \in User
      /\ m.clientMessageId \in ClientId
  BY <1>1 DEF Draft, Call
<1>3. m.sequence = nextMessageSequence[m.conversationId] + 1
  BY <1>1, <1>2 DEF LogInv, HoldsNext, HoldsRow
<1>4. nextMessageSequence' = [nextMessageSequence EXCEPT ![m.conversationId] = m.sequence]
  <2>1. Larger(nextMessageSequence[m.conversationId], m.sequence) = m.sequence
    BY <1>2, <1>3 DEF Larger, TypeOK
  <2>2. nextMessageSequence' =
          [nextMessageSequence EXCEPT ![m.conversationId] =
             Larger(nextMessageSequence[m.conversationId], m.sequence)]
    BY DEF CommitMessage, CounterAfterInsert
  <2> QED
    BY <2>1, <2>2
<1>5. \A x \in Rows(m.conversationId) : MessageKey(x) # MessageKey(m)
  BY <1>1, <1>2 DEF LogInv, Unused, Existing, MessageKey
<1>6. MessageKey(m) \in User \X AnyId /\ MessageKey(m) \notin User \X LegacyId
  BY <1>2, IdsAssumption DEF MessageKey, AnyId
<1>7. /\ messages' = messages \cup {m}
      /\ events' = events \cup {EventFor(m)}
      /\ UNCHANGED <<opened, lastReadSequence>>
  BY DEF CommitMessage
<1> HIDE DEF m
<1> QED
  BY <1>2, <1>3, <1>4, <1>5, <1>6, <1>7, VisibleIsSend

LEMMA LegacyIsSend ==
    ASSUME TypeOK, LogKept, LogKept', NEW c \in Conversation, NEW u \in User,
           NEW k \in LegacyId, LegacyInsert(c, u, k)
    PROVE  Log!Next
<1> DEFINE m == [conversationId |-> c, senderId |-> u, clientMessageId |-> k,
                 sequence |-> nextMessageSequence[c] + 1]
<1>1. /\ m.conversationId = c
      /\ m.sequence = nextMessageSequence[c] + 1
      /\ MessageKey(m) = <<u, k>>
  BY DEF MessageKey
<1>2. \A x \in Rows(c) : MessageKey(x) # <<u, k>>
  BY DEF LegacyInsert, Rows, MessageKey
<1>3. /\ messages' = messages \cup {m}
      /\ nextMessageSequence' = [nextMessageSequence EXCEPT ![c] = nextMessageSequence[c] + 1]
      /\ c \in opened
      /\ UNCHANGED <<opened, events, lastReadSequence>>
  BY DEF LegacyInsert
<1> HIDE DEF m
<1>4. <<u, k>> \in User \X AnyId /\ <<u, k>> \in User \X LegacyId
  BY DEF AnyId
<1> QED
  BY <1>1, <1>2, <1>3, <1>4, VisibleIsSend

(* The write of markAsRead is one Read of the log.                                   *)
LEMMA WriteIsRead ==
    ASSUME TypeOK, LogInv, LogKept, LogKept', NEW k \in Marker, WritePosition(k),
           mark[k].conversationId \in opened
    PROVE  Log!Next
<1> DEFINE c == mark[k].conversationId
           u == mark[k].userId
           n == Larger(lastReadSequence[c][u], mark[k].target)
<1>1. /\ c \in Conversation /\ u \in User
      /\ mark[k].next \in Nat /\ mark[k].target \in Nat /\ mark[k] # Idle
  BY DEF WritePosition, TypeOK, Marking, Idle
<1>2. n \in lastReadSequence[c][u]..nextMessageSequence[c]
  <2>1. /\ mark[k].target <= mark[k].next
        /\ mark[k].next <= nextMessageSequence[c]
        /\ lastReadSequence[c][u] <= nextMessageSequence[c]
    BY <1>1 DEF LogInv, PositionsWithin, WritePosition
  <2>2. lastReadSequence[c][u] \in Nat /\ nextMessageSequence[c] \in Nat
    BY <1>1 DEF TypeOK
  <2> QED
    BY <1>1, <2>1, <2>2 DEF Larger
<1>3. Len(LogOf(c)) = nextMessageSequence[c]
  BY <1>1 DEF LogKept, LogHolds
<1>4. lastReadSequence' = [lastReadSequence EXCEPT ![c][u] = n]
  BY DEF WritePosition
<1>5. UNCHANGED <<opened, nextMessageSequence, messages, events>>
  BY DEF WritePosition
<1>6. \A d \in Conversation : LogOf(d)' = LogOf(d)
  BY <1>5, SameLog DEF Rows
<1> HIDE DEF c, u, n
<1>7. c \in opened
  BY DEF c
<1>8. Log!Read(c, u)
  BY <1>1, <1>2, <1>3, <1>4, <1>5, <1>6, <1>7 DEF Log!Read, MessageKey
<1> QED
  BY <1>1, <1>8 DEF Log!Next

(* A call runs on a conversation that exists.                                        *)
CallsOpened ==
    /\ \A s \in Server : tx[s] # Idle => tx[s].conversationId \in opened
    /\ \A k \in Marker : mark[k] # Idle => mark[k].conversationId \in opened

LEMMA CallsOpenedStep ==
    ASSUME TypeOK, CallsOpened, [Next]_vars
    PROVE  CallsOpened'
<1>1. opened \subseteq opened'
  BY DEF Next, Sending, MarkingRead, vars, rows, StartConversation, FindExisting,
     TakeSequence, InsertMessage, CommitMessage, RecoverExisting, Abort,
     LegacyInsert, ReadCounter, ResolveTarget, WritePosition, AbandonMark
<1>2. ASSUME NEW s \in Server, tx'[s] # Idle
      PROVE  tx'[s].conversationId \in opened'
  <2>1. CASE tx'[s] = tx[s]
    BY <1>1, <1>2, <2>1 DEF CallsOpened
  <2>2. ASSUME NEW c \in Conversation, NEW u \in User, NEW k \in ClientId,
               FindExisting(s, c, u, k)
        PROVE  tx'[s].conversationId \in opened'
    BY <1>1, <1>2, <2>1, <2>2 DEF FindExisting, TypeOK
  <2>3. CASE TakeSequence(s) \/ InsertMessage(s)
    <3>1. tx[s] \in Call({"absent", "sequenced", "inserted", "conflict"}) /\ tx[s] # Idle
      BY <2>3, CallType DEF TakeSequence, InsertMessage, Idle
    <3>2. tx'[s].conversationId = tx[s].conversationId
      BY <2>3, <3>1 DEF TakeSequence, InsertMessage, TypeOK, Call
    <3> QED
      BY <1>1, <3>1, <3>2 DEF CallsOpened
  <2>4. CASE CommitMessage(s) \/ RecoverExisting(s) \/ Abort(s)
    BY <1>2, <2>4 DEF CommitMessage, RecoverExisting, Abort, TypeOK
  <2>5. \/ tx'[s] = tx[s]
        \/ Sending(s)
    <3>1. ASSUME NEW t \in Server, Sending(t), t # s
          PROVE  tx'[s] = tx[s]
      BY <3>1 DEF Sending, FindExisting, TakeSequence, InsertMessage, CommitMessage,
         RecoverExisting, Abort, TypeOK
    <3>2. UNCHANGED tx \/ \E t \in Server : Sending(t)
      BY DEF Next, MarkingRead, vars, StartConversation, LegacyInsert, ReadCounter,
         ResolveTarget, WritePosition, AbandonMark
    <3> QED
      BY <3>1, <3>2
  <2> QED
    BY <2>1, <2>2, <2>3, <2>4, <2>5 DEF Sending
<1>3. ASSUME NEW k \in Marker, mark'[k] # Idle
      PROVE  mark'[k].conversationId \in opened'
  <2>1. CASE mark'[k] = mark[k]
    BY <1>1, <1>3, <2>1 DEF CallsOpened
  <2>2. ASSUME NEW c \in Conversation, NEW u \in User, ReadCounter(k, c, u)
        PROVE  mark'[k].conversationId \in opened'
    BY <1>1, <2>2 DEF ReadCounter, TypeOK
  <2>3. CASE ResolveTarget(k)
    <3>1. mark[k] # Idle
      BY <2>3 DEF ResolveTarget, Idle
    <3>2. mark'[k].conversationId = mark[k].conversationId
      BY <2>3 DEF ResolveTarget, TypeOK
    <3> QED
      BY <1>1, <3>1, <3>2 DEF CallsOpened
  <2>4. CASE WritePosition(k) \/ AbandonMark(k)
    BY <1>3, <2>4 DEF WritePosition, AbandonMark, TypeOK
  <2>5. \/ mark'[k] = mark[k]
        \/ MarkingRead(k)
    BY DEF Next, Sending, MarkingRead, vars, rows, StartConversation, FindExisting,
       TakeSequence, InsertMessage, CommitMessage, RecoverExisting, Abort,
       LegacyInsert, ReadCounter, ResolveTarget, WritePosition, AbandonMark, TypeOK
  <2> QED
    BY <2>1, <2>2, <2>3, <2>4, <2>5 DEF MarkingRead
<1> QED
  BY <1>2, <1>3 DEF CallsOpened

LEMMA InitIsInit ==
    ASSUME Init
    PROVE  Log!Init
<1>1. \A c \in Conversation : LogOf(c) = <<>>
  <2>1. \A c \in Conversation : 1..nextMessageSequence[c] = {}
    BY DEF Init
  <2> QED
    BY <2>1 DEF LogOf
<1> QED
  BY <1>1 DEF Init, Log!Init

LEMMA StepIsStep ==
    ASSUME TypeOK, LogInv, LogKept, LogKept', CallsOpened, [Next]_vars
    PROVE  [Log!Next]_Log!vars
<1>1. ASSUME UNCHANGED <<nextMessageSequence, messages>>
      PROVE  UNCHANGED [c \in Conversation |-> LogOf(c)]
  BY <1>1, SameLog DEF Rows
<1>2. ASSUME UNCHANGED rows
      PROVE  UNCHANGED Log!vars
  BY <1>1, <1>2 DEF rows, Log!vars, MessageKey
<1>3. ASSUME NEW c \in Conversation, StartConversation(c)
      PROVE  Log!Next
  <2>1. Log!Open(c)
    BY <1>1, <1>3 DEF StartConversation, Log!Open, MessageKey
  <2> QED
    BY <2>1 DEF Log!Next
<1>4. ASSUME NEW s \in Server, Sending(s)
      PROVE  Log!Next \/ UNCHANGED rows
  <2>1. CASE CommitMessage(s)
    <3>1. tx[s] # Idle
      BY <2>1 DEF CommitMessage, Idle
    <3>2. tx[s].conversationId \in opened
      BY <3>1 DEF CallsOpened
    <3> QED
      BY <2>1, <3>2, CommitIsSend
  <2> QED
    BY <1>4, <2>1 DEF Sending, FindExisting, TakeSequence, InsertMessage, RecoverExisting,
       Abort
<1>5. ASSUME NEW k \in Marker, MarkingRead(k)
      PROVE  Log!Next \/ UNCHANGED rows
  <2>1. CASE WritePosition(k)
    <3>1. mark[k] # Idle
      BY <2>1 DEF WritePosition, Idle
    <3>2. mark[k].conversationId \in opened
      BY <3>1 DEF CallsOpened
    <3> QED
      BY <2>1, <3>2, WriteIsRead
  <2> QED
    BY <1>5, <2>1 DEF MarkingRead, ReadCounter, ResolveTarget, AbandonMark
<1>6. CASE UNCHANGED vars
  BY <1>2, <1>6 DEF vars
<1> QED
  BY <1>2, <1>3, <1>4, <1>5, <1>6, LegacyIsSend DEF Next

(* Every interleaving of createMessage, markAsRead and the previous backend's inserts  *)
(* is a behaviour of the abstract log: no caller can tell the transactions, locks and  *)
(* retries from a log to which each message is appended once.                          *)
THEOREM LogImplemented == Spec => ImplementsLog
<1>1. Init => CallsOpened
  BY DEF Init, CallsOpened
<1>2. TypeOK /\ CallsOpened /\ [Next]_vars => CallsOpened'
  BY CallsOpenedStep
<1>3. TypeOK /\ LogInv => LogKept
  BY LogEntries DEF LogKept
<1>4. Init => Log!Init
  BY InitIsInit
<1>5. TypeOK /\ LogInv /\ LogKept /\ LogKept' /\ CallsOpened /\ [Next]_vars
        => [Log!Next]_Log!vars
  BY StepIsStep
<1> QED
  BY <1>1, <1>2, <1>3, <1>4, <1>5, TypeCorrect, LogInvariant, PTL
  DEF Spec, ImplementsLog, Log!Spec

-----------------------------------------------------------------------------
(* Windows: what a page is, given that numbers have no gaps.                        *)

(* Rows that carry the numbers of an interval, each once, are as many.               *)
LEMMA CountedByNumber ==
    ASSUME NEW S, NEW a \in Int, NEW b \in Int, NumbersOf(S) = a..b,
           \A m, x \in S : m.sequence = x.sequence => m = x
    PROVE  IsFiniteSet(S) /\ Cardinality(S) = IF a > b THEN 0 ELSE b - a + 1
<1> DEFINE f == [n \in a..b |-> CHOOSE m \in S : m.sequence = n]
<1>1. \A n \in a..b : f[n] \in S /\ f[n].sequence = n
  BY DEF NumbersOf
<1>2. \A m \in S : m.sequence \in a..b /\ f[m.sequence] = m
  BY <1>1 DEF NumbersOf
<1> HIDE DEF f
<1>3. f \in [a..b -> S]
  BY <1>1 DEF f
<1>4. f \in Bijection(a..b, S)
  BY <1>1, <1>2, <1>3, Zenon DEF Bijection, Injection, Surjection, IsInjective
<1> QED
  BY <1>4, FS_Interval, FS_Bijection DEF ExistsBijection

(* Smallest and greatest number of an interval.                                     *)
LEMMA IntervalEnds ==
    ASSUME NEW a \in Int, NEW b \in Int, a <= b
    PROVE  Min(a..b) = a /\ Max(a..b) = b
<1>1. a \in a..b /\ b \in a..b
  OBVIOUS
<1>2. \A n \in a..b : a <= n /\ b >= n
  OBVIOUS
<1>3. \A n \in a..b : (n <= a => n = a) /\ (n >= b => n = b)
  OBVIOUS
<1>4. Min(a..b) = a
  BY <1>1, <1>2, <1>3 DEF Min
<1>5. Max(a..b) = b
  BY <1>1, <1>2, <1>3 DEF Max
<1> QED
  BY <1>4, <1>5

Between(c, a, b) == {m \in Rows(c) : a <= m.sequence /\ m.sequence <= b}

(* Between two numbers that exist there is a message for each.                       *)
LEMMA BetweenIsCounted ==
    ASSUME TypeOK, SequencesAreGapless, NEW c \in Conversation,
           NEW a \in Nat \ {0}, NEW b \in Nat, b <= nextMessageSequence[c]
    PROVE  /\ NumbersOf(Between(c, a, b)) = a..b
           /\ IsFiniteSet(Between(c, a, b))
           /\ Cardinality(Between(c, a, b)) = IF a > b THEN 0 ELSE b - a + 1
<1>1. nextMessageSequence[c] \in Nat
  BY DEF TypeOK
<1>2. /\ \A m \in Rows(c) : m.sequence \in 1..nextMessageSequence[c]
      /\ \A n \in 1..nextMessageSequence[c] : \E m \in Rows(c) : m.sequence = n
      /\ \A m, x \in Rows(c) : m.sequence = x.sequence => m = x
  BY DEF SequencesAreGapless
<1>3. \A n \in a..b : \E m \in Between(c, a, b) : m.sequence = n
  <2> TAKE n \in a..b
  <2>1. n \in 1..nextMessageSequence[c] /\ a <= n /\ n <= b
    BY <1>1
  <2> QED
    BY <2>1, <1>2 DEF Between
<1>4. \A m \in Between(c, a, b) : m.sequence \in a..b
  BY <1>1, <1>2 DEF Between
<1>5. NumbersOf(Between(c, a, b)) = a..b
  BY <1>3, <1>4 DEF NumbersOf
<1> QED
  BY <1>2, <1>5, CountedByNumber DEF Between

(* A page after a cursor is the numbers that follow it, as many as fit.              *)
LEMMA PageAfter ==
    ASSUME TypeOK, SequencesAreGapless, NEW c \in Conversation, NEW n \in Nat,
           n <= nextMessageSequence[c], OldestOf(After(c, n)) # {}
    PROVE  \E k \in Nat : /\ n < k /\ k <= nextMessageSequence[c]
                          /\ Max(NumbersOf(OldestOf(After(c, n)))) = k
                          /\ OldestOf(After(c, n)) = Between(c, n + 1, k)
<1> DEFINE top == nextMessageSequence[c]
           k == IF top < n + PageLimit THEN top ELSE n + PageLimit
<1>1. top \in Nat /\ PageLimit \in Nat \ {0} /\ k \in Nat /\ k <= top
  BY PageLimitAssumption DEF TypeOK
<1>2. \A m \in Rows(c) : m.sequence \in 1..top
  BY DEF SequencesAreGapless
<1>3. ASSUME NEW m \in After(c, n)
      PROVE  Cardinality({x \in After(c, n) : x.sequence < m.sequence})
               = m.sequence - n - 1
  <2>1. m.sequence \in 1..top /\ n < m.sequence
    BY <1>2 DEF After
  <2>2. {x \in After(c, n) : x.sequence < m.sequence} = Between(c, n + 1, m.sequence - 1)
    BY <1>1, <1>2, <2>1 DEF After, Between
  <2>3. m.sequence - 1 \in Nat /\ m.sequence - 1 <= top /\ n + 1 \in Nat \ {0}
    BY <1>1, <2>1
  <2>4. Cardinality(Between(c, n + 1, m.sequence - 1))
          = IF n + 1 > m.sequence - 1 THEN 0 ELSE (m.sequence - 1) - (n + 1) + 1
    BY <2>3, BetweenIsCounted
  <2> QED
    BY <2>1, <2>2, <2>4
<1>4. OldestOf(After(c, n)) = Between(c, n + 1, k)
  <2>1. \A m \in After(c, n) :
           m.sequence \in 1..top /\ n < m.sequence
           /\ (m.sequence - n - 1 < PageLimit <=> m.sequence <= k)
    BY <1>1, <1>2 DEF After
  <2>2. \A m \in Rows(c) : m \in After(c, n) <=> n + 1 <= m.sequence
    BY <1>2 DEF After
  <2>3. After(c, n) \subseteq Rows(c)
    BY DEF After
  <2> QED
    BY <1>3, <2>1, <2>2, <2>3 DEF OldestOf, Between
<1>5. n < k
  <2> SUFFICES ASSUME k <= n PROVE FALSE
    BY <1>1
  <2>1. \A m \in Rows(c) : ~(n + 1 <= m.sequence /\ m.sequence <= k)
    BY <1>1, <1>2
  <2> QED
    BY <1>4, <2>1 DEF Between
<1>6. NumbersOf(Between(c, n + 1, k)) = (n + 1)..k
  BY <1>1, BetweenIsCounted
<1>7. Max((n + 1)..k) = k
  BY <1>1, <1>5, IntervalEnds
<1> HIDE DEF k
<1> QED
  BY <1>1, <1>4, <1>5, <1>6, <1>7

(* The newest page of the numbers up to b ends at b, starts where the limit says,     *)
(* and is everything if the rest does not exceed the limit.                           *)
LEMMA PageBefore ==
    ASSUME TypeOK, SequencesAreGapless, NEW c \in Conversation, NEW b \in Nat,
           b <= nextMessageSequence[c]
    PROVE  \E a \in Nat \ {0} :
              /\ NewestOf(Between(c, 1, b)) = Between(c, a, b)
              /\ a <= b + 1
              /\ Between(c, a, b) = {} <=> b = 0
              /\ b # 0 => /\ Min(NumbersOf(NewestOf(Between(c, 1, b)))) = a
                          /\ Max(NumbersOf(NewestOf(Between(c, 1, b)))) = b
              /\ ~HasMore(Between(c, 1, b)) => a = 1
<1> DEFINE R == Between(c, 1, b)
           a == IF b < PageLimit THEN 1 ELSE b - PageLimit + 1
<1>1. /\ nextMessageSequence[c] \in Nat /\ PageLimit \in Nat \ {0}
      /\ a \in Nat \ {0} /\ a <= b + 1
  BY PageLimitAssumption DEF TypeOK
<1>2. \A m \in Rows(c) : m.sequence \in 1..nextMessageSequence[c]
  BY DEF SequencesAreGapless
<1>3. ASSUME NEW m \in R
      PROVE  Cardinality({x \in R : x.sequence > m.sequence}) = b - m.sequence
  <2>1. m.sequence \in Nat /\ 1 <= m.sequence /\ m.sequence <= b
    BY <1>2 DEF Between
  <2>2. {x \in R : x.sequence > m.sequence} = Between(c, m.sequence + 1, b)
    BY <1>2, <2>1 DEF Between
  <2>3. Cardinality(Between(c, m.sequence + 1, b))
          = IF m.sequence + 1 > b THEN 0 ELSE b - (m.sequence + 1) + 1
    BY <2>1, BetweenIsCounted
  <2>4. Cardinality(Between(c, m.sequence + 1, b)) = b - m.sequence
    BY <2>1, <2>3
  <2> QED
    BY <2>2, <2>4, Zenon
<1>4. NewestOf(R) = Between(c, a, b)
  <2>1. \A m \in Rows(c) : m \in R => (b - m.sequence < PageLimit <=> a <= m.sequence)
    BY <1>1, <1>2 DEF Between
  <2>2. \A m \in Rows(c) : m \in R <=> m.sequence <= b
    BY <1>2 DEF Between
  <2>3. R \subseteq Rows(c)
    BY DEF Between
  <2>4. NewestOf(R) = {m \in R : b - m.sequence < PageLimit}
    BY <1>3 DEF NewestOf
  <2> QED
    BY <2>1, <2>2, <2>3, <2>4 DEF Between
<1>5. NumbersOf(Between(c, a, b)) = a..b
  BY <1>1, BetweenIsCounted
<1>6. b # 0 => a <= b
  BY <1>1
<1>7. Between(c, a, b) = {} <=> b = 0
  <2>1. CASE b = 0
    BY <1>2, <1>1, <2>1 DEF Between
  <2>2. CASE b # 0
    BY <1>1, <1>5, <1>6, <2>2 DEF NumbersOf
  <2> QED
    BY <2>1, <2>2
<1>8. b # 0 => Min(a..b) = a /\ Max(a..b) = b
  BY <1>1, <1>6, IntervalEnds
<1>9. ~HasMore(R) => a = 1
  <2>1. Cardinality(R) = b
    <3>1. Cardinality(R) = IF 1 > b THEN 0 ELSE b - 1 + 1
      BY BetweenIsCounted
    <3> QED
      BY <3>1
  <2> QED
    BY <1>1, <2>1 DEF HasMore
<1> HIDE DEF a
<1> QED
  BY <1>1, <1>4, <1>5, <1>7, <1>8, <1>9

(* The invariant: a window is typed, ends at a number that exists, has no gap, and       *)
(* begins at 1 once the server has reported that nothing is older.                      *)
WindowOK(d) ==
    LET w == view[d] IN
    /\ w \in Window
    /\ w.high <= nextMessageSequence[Watches[d]]
    /\ w.low <= w.high + 1
    /\ w.seen = Between(Watches[d], w.low, w.high)
    /\ w.first => w.low = 1

WindowInv ==
    /\ view \in [Device -> Window]
    /\ \A d \in Device : WindowOK(d)

(* New rows are numbered above the old counter, which leaves every window as it is.     *)
LEMMA WindowsOutlastRows ==
    ASSUME TypeOK, TypeOK', SequencesAreGapless, SequencesAreGapless', WindowInv,
           UNCHANGED view, messages \subseteq messages',
           \A m \in messages' \ messages : \A x \in Rows(m.conversationId) :
              x.sequence < m.sequence
    PROVE  WindowInv'
<1> SUFFICES ASSUME NEW d \in Device PROVE WindowOK(d)'
  BY DEF WindowInv
<1> DEFINE c == Watches[d]
           top == nextMessageSequence[c]
<1>1. c \in Conversation /\ top \in Nat /\ top' \in Nat
  BY WatchesAssumption DEF TypeOK
<1>2. view[d] \in Window /\ view[d].high \in Nat /\ view[d].high <= top
  BY DEF WindowInv, WindowOK, Window
<1>3. Rows(c) \subseteq Rows(c)'
  BY DEF Rows
<1>4. /\ \A m \in Rows(c)' : m.sequence \in 1..top'
      /\ \A n \in 1..top : \E m \in Rows(c) : m.sequence = n
  BY <1>1 DEF SequencesAreGapless
<1>5. top <= top'
  <2>1. CASE top = 0
    BY <1>1, <2>1
  <2>2. CASE top # 0
    <3>1. PICK m \in Rows(c) : m.sequence = top
      BY <1>1, <1>4, <2>2
    <3> QED
      BY <1>1, <1>3, <1>4, <3>1
  <2> QED
    BY <2>1, <2>2
<1>6. ASSUME NEW m \in Rows(c)', m.sequence <= top
      PROVE  m \in Rows(c)
  <2>1. m.sequence \in 1..top
    BY <1>1, <1>4, <1>6
  <2>2. PICK x \in Rows(c) : x.sequence = m.sequence
    BY <1>4, <2>1
  <2>3. m \in messages' /\ m.conversationId = c
    BY DEF Rows
  <2>4. ~(x.sequence < m.sequence)
    BY <1>1, <2>1, <2>2
  <2> QED
    BY <2>2, <2>3, <2>4 DEF Rows
<1>7. Between(c, view[d].low, view[d].high) = Between(c, view[d].low, view[d].high)'
  BY <1>1, <1>2, <1>3, <1>4, <1>6 DEF Between
<1> QED
  BY <1>1, <1>2, <1>5, <1>7 DEF WindowInv, WindowOK

(* A window is its four fields.                                                          *)
LEMMA SameWindow ==
    ASSUME NEW x \in Window, NEW y \in Window,
           x.low = y.low, x.high = y.high, x.seen = y.seen, x.first <=> y.first
    PROVE  x = y
  BY DEF Window

LEMMA ExtendedUp ==
    ASSUME NEW w \in Window, NEW n \in Nat, NEW S \in SUBSET Message
    PROVE  [w EXCEPT !.high = n, !.seen = S]
             = [low |-> w.low, high |-> n, seen |-> S, first |-> w.first]
<1> DEFINE x == [w EXCEPT !.high = n, !.seen = S]
           y == [low |-> w.low, high |-> n, seen |-> S, first |-> w.first]
<1>1. x \in Window /\ y \in Window
  BY DEF Window
<1>2. x.low = y.low /\ x.high = y.high /\ x.seen = y.seen /\ (x.first <=> y.first)
  BY DEF Window
<1> HIDE DEF x, y
<1>3. x = y
  BY <1>1, <1>2, SameWindow
<1> QED
  BY <1>3 DEF x, y

LEMMA ExtendedDown ==
    ASSUME NEW w \in Window, NEW n \in Nat \ {0}, NEW S \in SUBSET Message, NEW f \in BOOLEAN
    PROVE  [w EXCEPT !.low = n, !.seen = S, !.first = f]
             = [low |-> n, high |-> w.high, seen |-> S, first |-> f]
<1> DEFINE x == [w EXCEPT !.low = n, !.seen = S, !.first = f]
           y == [low |-> n, high |-> w.high, seen |-> S, first |-> f]
<1>1. x \in Window /\ y \in Window
  BY DEF Window
<1>2. x.low = y.low /\ x.high = y.high /\ x.seen = y.seen /\ (x.first <=> y.first)
  BY DEF Window
<1> HIDE DEF x, y
<1>3. x = y
  BY <1>1, <1>2, SameWindow
<1> QED
  BY <1>3 DEF x, y

(* Every page extends a window by the numbers next to it, or begins one.                 *)
LEMMA PagesFit ==
    ASSUME TypeOK, SequencesAreGapless, WindowInv, NEW d \in Device, UNCHANGED vars,
           LoadLatest(d) \/ LoadAll(d) \/ CatchUp(d) \/ LoadOlder(d)
    PROVE  WindowInv'
<1> DEFINE c == Watches[d]
           w == view[d]
           top == nextMessageSequence[c]
<1>1. /\ c \in Conversation /\ top \in Nat /\ view \in [Device -> Window] /\ w \in Window
      /\ w.low \in Nat \ {0} /\ w.high \in Nat /\ w.high <= top /\ w.low <= w.high + 1
      /\ w.seen = Between(c, w.low, w.high)
      /\ w.first => w.low = 1
  BY WatchesAssumption DEF TypeOK, WindowInv, WindowOK, Window
<1>2. /\ \A m \in Rows(c) : m.sequence \in 1..top
      /\ Rows(c) \subseteq Message
      /\ Rows(c) = Between(c, 1, top)
  BY <1>1 DEF SequencesAreGapless, Between, Rows, TypeOK
<1> DEFINE Becomes(a, b, f) ==
             /\ a <= b + 1 /\ b <= top /\ (f => a = 1)
             /\ view' = [view EXCEPT ![d] =
                  [low |-> a, high |-> b, seen |-> Between(c, a, b), first |-> f]]
<1>3. SUFFICES \E a \in Nat \ {0}, b \in Nat, f \in BOOLEAN : Becomes(a, b, f)
  <2>1. PICK a \in Nat \ {0}, b \in Nat, f \in BOOLEAN : Becomes(a, b, f)
    BY <1>3
  <2>2. [low |-> a, high |-> b, seen |-> Between(c, a, b), first |-> f] \in Window
    BY <1>2 DEF Between, Window
  <2>3. view' \in [Device -> Window]
    BY <1>1, <2>1, <2>2
  <2>4. \A x, y : \A e \in Device : Between(Watches[e], x, y)' = Between(Watches[e], x, y)
    BY DEF vars, rows, Between, Rows
  <2>5. nextMessageSequence' = nextMessageSequence
    BY DEF vars, rows
  <2>6. view'[d] = [low |-> a, high |-> b, seen |-> Between(c, a, b), first |-> f]
    BY <1>1, <2>1
  <2>7. WindowOK(d)'
    BY <1>1, <2>1, <2>2, <2>4, <2>5, <2>6 DEF WindowOK
  <2>8. ASSUME NEW e \in Device, e # d PROVE WindowOK(e)'
    <3>1. view'[e] = view[e] /\ WindowOK(e)
      BY <1>1, <2>1, <2>8 DEF WindowInv
    <3>2. messages' = messages
      BY DEF vars, rows
    <3> QED
      BY <2>5, <3>1, <3>2 DEF WindowOK, Between, Rows
  <2> QED
    BY <2>3, <2>7, <2>8 DEF WindowInv
<1> HIDE DEF Becomes
<1>4. CASE LoadLatest(d)
  <2>1. PICK a \in Nat \ {0} :
             /\ NewestOf(Rows(c)) = Between(c, a, top)
             /\ a <= top + 1
             /\ Between(c, a, top) = {} <=> top = 0
             /\ top # 0 => /\ Min(NumbersOf(NewestOf(Rows(c)))) = a
                           /\ Max(NumbersOf(NewestOf(Rows(c)))) = top
             /\ ~HasMore(Rows(c)) => a = 1
    BY <1>1, <1>2, PageBefore
  <2>2. top # 0
    BY <1>4, <2>1 DEF LoadLatest
  <2>3. HasMore(Rows(c)) \in BOOLEAN
    BY DEF HasMore
  <2>4. view' = [view EXCEPT ![d] = [low |-> a, high |-> top, seen |-> Between(c, a, top),
                                     first |-> ~HasMore(Rows(c))]]
    BY <1>4, <2>1, <2>2 DEF LoadLatest
  <2>5. Becomes(a, top, ~HasMore(Rows(c)))
    BY <1>1, <2>1, <2>4 DEF Becomes
  <2> QED
    BY <1>1, <2>1, <2>3, <2>5
<1>5. CASE LoadAll(d)
  <2>1. NumbersOf(Rows(c)) = 1..top
    BY <1>1 DEF NumbersOf, SequencesAreGapless
  <2>2. top # 0
    BY <1>1, <1>2, <1>5 DEF LoadAll
  <2>3. Max(NumbersOf(Rows(c))) = top
    BY <1>1, <2>1, <2>2, IntervalEnds
  <2>4. view' = [view EXCEPT ![d] = [low |-> 1, high |-> top, seen |-> Between(c, 1, top),
                                     first |-> TRUE]]
    BY <1>2, <1>5, <2>3 DEF LoadAll
  <2>5. Becomes(1, top, TRUE) /\ 1 \in Nat \ {0} /\ TRUE \in BOOLEAN
    BY <1>1, <2>4 DEF Becomes
  <2> QED
    BY <1>1, <2>5, Zenon
<1>6. CASE CatchUp(d)
  <2>1. PICK k \in Nat : /\ w.high < k /\ k <= top
                         /\ Max(NumbersOf(OldestOf(After(c, w.high)))) = k
                         /\ OldestOf(After(c, w.high)) = Between(c, w.high + 1, k)
    BY <1>1, <1>6, PageAfter DEF CatchUp
  <2>2. w.seen \cup Between(c, w.high + 1, k) = Between(c, w.low, k)
    BY <1>1, <1>2, <2>1 DEF Between
  <2>3. view' = [view EXCEPT ![d].high = k, ![d].seen = @ \cup Between(c, w.high + 1, k)]
    BY <1>6, <2>1 DEF CatchUp
  <2>4. view' = [view EXCEPT ![d] = [low |-> w.low, high |-> k, seen |-> Between(c, w.low, k),
                                     first |-> w.first]]
    <3>1. view' = [view EXCEPT ![d] = [w EXCEPT !.high = k, !.seen = Between(c, w.low, k)]]
      BY <1>1, <2>2, <2>3
    <3>2. [w EXCEPT !.high = k, !.seen = Between(c, w.low, k)]
            = [low |-> w.low, high |-> k, seen |-> Between(c, w.low, k), first |-> w.first]
      <4>1. Between(c, w.low, k) \in SUBSET Message
        BY <1>2 DEF Between
      <4> QED
        BY <1>1, <4>1, ExtendedUp
    <3> QED
      BY <3>1, <3>2
  <2>5. w.first \in BOOLEAN /\ w.low <= k + 1
    BY <1>1, <2>1 DEF Window
  <2>6. Becomes(w.low, k, w.first)
    BY <1>1, <2>1, <2>4, <2>5 DEF Becomes
  <2> QED
    BY <1>1, <2>1, <2>5, <2>6
<1>7. CASE LoadOlder(d)
  <2> DEFINE R == Before(c, w.low)
             b == w.low - 1
  <2>1. b \in Nat /\ b <= top /\ b = w.low - 1 /\ R = Between(c, 1, b)
    BY <1>1, <1>2 DEF Before, Between
  <2> HIDE DEF R, b
  <2>2. PICK a \in Nat \ {0} :
             /\ NewestOf(R) = Between(c, a, b)
             /\ a <= b + 1
             /\ Between(c, a, b) = {} <=> b = 0
             /\ b # 0 => /\ Min(NumbersOf(NewestOf(R))) = a
                         /\ Max(NumbersOf(NewestOf(R))) = b
             /\ ~HasMore(R) => a = 1
    <3>1. c \in Conversation /\ b \in Nat /\ b <= top
      BY <1>1, <2>1
    <3> HIDE DEF c, w, top
    <3>2. \E a \in Nat \ {0} :
             /\ NewestOf(Between(c, 1, b)) = Between(c, a, b)
             /\ a <= b + 1
             /\ Between(c, a, b) = {} <=> b = 0
             /\ b # 0 => /\ Min(NumbersOf(NewestOf(Between(c, 1, b)))) = a
                         /\ Max(NumbersOf(NewestOf(Between(c, 1, b)))) = b
             /\ ~HasMore(Between(c, 1, b)) => a = 1
      BY <3>1, PageBefore DEF top
    <3> QED
      BY <2>1, <3>2
  <2>3. (IF NewestOf(R) = {} THEN w.low ELSE Min(NumbersOf(NewestOf(R)))) = a
    <3>1. CASE b = 0
      BY <1>1, <2>1, <2>2, <3>1
    <3>2. CASE b # 0
      BY <2>2, <3>2
    <3> QED
      BY <3>1, <3>2
  <2>4. w.low <= w.high
    <3>1. PICK m \in Rows(c) : w.low <= m.sequence /\ m.sequence <= w.high
      BY <1>1, <1>7 DEF LoadOlder, Between
    <3> QED
      BY <1>1, <1>2, <3>1
  <2>5. w.seen \cup Between(c, a, b) = Between(c, a, w.high)
    BY <1>1, <1>2, <2>1, <2>2, <2>4 DEF Between
  <2>6. view' = [view EXCEPT ![d].low = a, ![d].seen = @ \cup Between(c, a, b),
                             ![d].first = ~HasMore(R)]
    BY <1>7, <2>2, <2>3 DEF LoadOlder, R
  <2>7. view' = [view EXCEPT ![d] = [low |-> a, high |-> w.high,
                                     seen |-> Between(c, a, w.high), first |-> ~HasMore(R)]]
    <3>1. view' = [view EXCEPT ![d] = [w EXCEPT !.low = a, !.seen = Between(c, a, w.high),
                                                !.first = ~HasMore(R)]]
      BY <1>1, <2>5, <2>6
    <3>2. [w EXCEPT !.low = a, !.seen = Between(c, a, w.high), !.first = ~HasMore(R)]
            = [low |-> a, high |-> w.high, seen |-> Between(c, a, w.high),
               first |-> ~HasMore(R)]
      <4>1. Between(c, a, w.high) \in SUBSET Message
        BY <1>2 DEF Between
      <4>2. (~HasMore(R)) \in BOOLEAN
        OBVIOUS
      <4> QED
        BY <1>1, <4>1, <4>2, ExtendedDown
    <3> QED
      BY <3>1, <3>2
  <2>8. HasMore(R) \in BOOLEAN
    BY DEF HasMore
  <2>9. a <= w.high + 1
    BY <1>1, <2>1, <2>2, <2>4
  <2>10. Becomes(a, w.high, ~HasMore(R))
    BY <1>1, <2>2, <2>7, <2>9 DEF Becomes
  <2> QED
    BY <1>1, <2>2, <2>8, <2>10
<1> QED
  BY <1>4, <1>5, <1>6, <1>7

(* However senders commit between a device's pages, its window has no hole: with the     *)
(* commit order of createMessage, a cursor never passes a message still to come.        *)
THEOREM WindowsHaveNoHoles == SyncSpec => []WindowIsComplete
<1>1. SyncInit => Init /\ WindowInv
  <2> SUFFICES ASSUME SyncInit PROVE Init /\ WindowInv
    OBVIOUS
  <2>1. Init
    BY DEF SyncInit
  <2>2. \A d \in Device : nextMessageSequence[Watches[d]] = 0 /\ Rows(Watches[d]) = {}
    BY <2>1, WatchesAssumption DEF Init, Rows
  <2> QED
    BY <2>1, <2>2 DEF SyncInit, WindowInv, WindowOK, Window, Between
<1>2. [SyncNext]_syncVars => [Next]_vars
  BY DEF SyncNext, syncVars, LoadLatest, LoadAll, CatchUp, LoadOlder
<1>3. /\ TypeOK /\ TypeOK' /\ SequencesAreGapless /\ SequencesAreGapless'
      /\ [/\ messages \subseteq messages'
          /\ \A m \in messages' \ messages : \A x \in Rows(m.conversationId) :
                x.sequence < m.sequence]_vars
      /\ WindowInv /\ [SyncNext]_syncVars
      => WindowInv'
  <2> SUFFICES ASSUME TypeOK, TypeOK', SequencesAreGapless, SequencesAreGapless',
                      [/\ messages \subseteq messages'
                       /\ \A m \in messages' \ messages : \A x \in Rows(m.conversationId) :
                             x.sequence < m.sequence]_vars,
                      WindowInv, [SyncNext]_syncVars
               PROVE  WindowInv'
    OBVIOUS
  <2>1. CASE UNCHANGED view
    <3>1. CASE UNCHANGED vars
      <4>1. messages' = messages
        BY <3>1 DEF vars, rows
      <4> QED
        BY <2>1, <4>1, WindowsOutlastRows
    <3>2. CASE ~UNCHANGED vars
      BY <2>1, <3>2, WindowsOutlastRows
    <3> QED
      BY <3>1, <3>2
  <2>2. ASSUME NEW d \in Device, LoadLatest(d) \/ LoadAll(d) \/ CatchUp(d) \/ LoadOlder(d)
        PROVE  WindowInv'
    <3>1. UNCHANGED vars
      BY <2>2 DEF LoadLatest, LoadAll, CatchUp, LoadOlder
    <3> QED
      BY <2>2, <3>1, PagesFit
  <2> QED
    BY <2>1, <2>2 DEF SyncNext, syncVars
<1>4. TypeOK /\ SequencesAreGapless /\ WindowInv => WindowIsComplete
  <2> SUFFICES ASSUME TypeOK, SequencesAreGapless, WindowInv, NEW d \in Device
               PROVE  /\ view[d].seen = Between(Watches[d], view[d].low, view[d].high)
                      /\ view[d].first => Before(Watches[d], view[d].low) = {}
    BY DEF WindowIsComplete, Between
  <2>1. /\ view[d].seen = Between(Watches[d], view[d].low, view[d].high)
        /\ view[d].first => view[d].low = 1
    BY DEF WindowInv, WindowOK
  <2>2. Watches[d] \in Conversation /\ nextMessageSequence[Watches[d]] \in Nat
    BY WatchesAssumption DEF TypeOK
  <2>3. \A m \in Rows(Watches[d]) : m.sequence \in 1..nextMessageSequence[Watches[d]]
    BY <2>2 DEF SequencesAreGapless
  <2>4. Before(Watches[d], 1) = {}
    BY <2>2, <2>3 DEF Before
  <2> QED
    BY <2>1, <2>4
<1>5. SyncSpec => Spec
  BY <1>1, <1>2, PTL DEF SyncSpec, Spec
<1> QED
  BY <1>1, <1>3, <1>4, <1>5, TypeCorrect, Gapless, CommitOrder, PTL
  DEF SyncSpec, CommitFollowsSequence

=============================================================================
