--------------------------- MODULE ConversationLog ---------------------------
(***************************************************************************)
(* What messaging promises, without transactions, locks or retries: every  *)
(* conversation is one log to which a message identity is appended at most  *)
(* once, a notification is owed for each appended message from the instant  *)
(* it is in the log, and each member has a read position that only moves    *)
(* forward and never runs past the end of the log.                          *)
(***************************************************************************)
EXTENDS Naturals, Sequences

CONSTANTS
    Conversation,   \* conversations that may be started
    MessageId,      \* identities under which a message may be sent
    Silent,         \* identities whose messages owe no notification
    User            \* people who may be members

VARIABLES
    opened,         \* conversations that exist
    log,            \* log[c]: the identities sent in c, in order
    owed,           \* <<c, i>> pairs for which a notification is recorded
    position        \* position[c][u]: how much of log[c] member u has read

vars == <<opened, log, owed, position>>

Init ==
    /\ opened = {}
    /\ log = [c \in Conversation |-> <<>>]
    /\ owed = {}
    /\ position = [c \in Conversation |-> [u \in User |-> 0]]

Sent(c, i) == \E n \in 1..Len(log[c]) : log[c][n] = i

Open(c) ==
    /\ opened' = opened \cup {c}
    /\ UNCHANGED <<log, owed, position>>

Send(c, i) ==
    /\ c \in opened
    /\ ~Sent(c, i)
    /\ log' = [log EXCEPT ![c] = Append(@, i)]
    /\ owed' = IF i \in Silent THEN owed ELSE owed \cup {<<c, i>>}
    /\ UNCHANGED <<opened, position>>

Read(c, u) ==
    /\ c \in opened
    /\ \E n \in position[c][u]..Len(log[c]) :
           position' = [position EXCEPT ![c][u] = n]
    /\ UNCHANGED <<opened, log, owed>>

Next ==
    \E c \in Conversation :
        \/ Open(c)
        \/ \E i \in MessageId : Send(c, i)
        \/ \E u \in User : Read(c, u)

Spec == Init /\ [][Next]_vars

=============================================================================
