---------------------------- MODULE MCMessageSync ----------------------------
(* Readers paging through one conversation that two members are writing to. *)
EXTENDS MessageSync, TLC

CONSTANTS ana, ben

MCUser == {ana, ben}
MCBuyer == [c \in Conversation |-> ana]
MCSeller == [c \in Conversation |-> ben]
MCWatches == [d \in Device |-> CHOOSE c \in Conversation : TRUE]

=============================================================================
