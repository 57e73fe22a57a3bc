----------------------------- MODULE MCPairAlerts -----------------------------
(* One user's alert and another's listing. *)
EXTENDS PairAlerts, TLC

MCOwnerOf == [x \in Alert \cup Listing |-> IF x \in Alert THEN "ana" ELSE "ben"]
MCUsers == {"ana", "ben"}
MCFits == {<<"lid", "a lid">>}
MCSymmetry == Permutations(Worker) \cup Permutations(Listing)

(* Bound: two changes, a change and a failure, or two failures. *)
MCTwoAtMost == changes + faults <= 2

=============================================================================
