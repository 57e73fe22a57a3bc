----------------------------- MODULE Announcement -----------------------------
(***************************************************************************)
(* What announcing a match promises of one match, without workers, rows or    *)
(* statements: one call at a time has it to announce, every party is told at   *)
(* most once in each attempt, an attempt counts as made only if it reached     *)
(* them all, and one that did not is either taken back and made again, or is   *)
(* lost with the call that was making it.  Matching and PairAlerts both        *)
(* implement it, the one for the two owners of a match, the other for the      *)
(* owner of an alert.                                                          *)
(***************************************************************************)
EXTENDS Naturals

CONSTANT Parties        \* who is to be told

VARIABLES
    phase,      \* "FREE", "TELLING", "RETURNING" when the telling has failed, and then
                \* "DONE" or "LOST" for good, as long as there is a match
    told        \* how often each party has been told since the attempt began

vars == <<phase, told>>

Nobody == [x \in Parties |-> 0]

Init == phase = "FREE" /\ told = Nobody

Begin ==
    /\ phase = "FREE"
    /\ phase' = "TELLING"
    /\ UNCHANGED told

(* Those who are reached are told now.  An error may be reported though all were.    *)
Tell(reached) ==
    /\ phase = "TELLING"
    /\ told' = [x \in Parties |-> IF x \in reached THEN told[x] + 1 ELSE told[x]]
    /\ phase' \in IF reached = Parties THEN {"DONE", "RETURNING"} ELSE {"RETURNING"}

TakeBack ==
    /\ phase = "RETURNING"
    /\ phase' = "FREE"
    /\ told' = Nobody

(* The call that was announcing ends without having done or taken back its work. *)
Abandon ==
    /\ phase \in {"TELLING", "RETURNING"}
    /\ phase' = IF \A x \in Parties : told[x] > 0 THEN "DONE" ELSE "LOST"
    /\ UNCHANGED told

(* The match is deleted, whatever had become of its announcement. *)
Forget ==
    /\ phase # "FREE"
    /\ phase' = "FREE"
    /\ told' = Nobody

Next ==
    \/ Begin
    \/ \E reached \in SUBSET Parties : Tell(reached)
    \/ TakeBack
    \/ Abandon
    \/ Forget

Spec == Init /\ [][Next]_vars

=============================================================================
