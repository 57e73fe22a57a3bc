---------------------------- MODULE MCOutboxRelay ----------------------------
(* The relay on two events of one conversation. *)
EXTENDS OutboxRelay, TLC

MCConversationOf == [e \in Event |-> CHOOSE c \in Conversation : TRUE]
MCSymmetry == Permutations(Worker)

=============================================================================
