---------------------------- MODULE EventDelivery ----------------------------
(***************************************************************************)
(* What the outbox promises of committed events, without workers, leases,     *)
(* chunks or statements: an event stays open until it is settled for good, it  *)
(* is published only if the queue has it, the queue gets it no oftener than it *)
(* was attempted, and it is given up only after all its attempts.             *)
(***************************************************************************)
EXTENDS Naturals

CONSTANTS
    Event,          \* events that may be committed
    MaxAttempts     \* attempts before an event may be given up

VARIABLES
    outcome,        \* "NONE" before the commit, then "OPEN", then one of two for good
    attempts,       \* attempts to hand an event to the queue
    accepted        \* how often the queue has taken it

vars == <<outcome, attempts, accepted>>

Init ==
    /\ outcome = [e \in Event |-> "NONE"]
    /\ attempts = [e \in Event |-> 0]
    /\ accepted = [e \in Event |-> 0]

Open(S) == \A e \in S : outcome[e] = "OPEN"

Commit(e) ==
    /\ outcome[e] = "NONE"
    /\ outcome' = [outcome EXCEPT ![e] = "OPEN"]
    /\ UNCHANGED <<attempts, accepted>>

Attempt(S) ==
    /\ Open(S)
    /\ attempts' = [e \in Event |-> IF e \in S THEN attempts[e] + 1 ELSE attempts[e]]
    /\ UNCHANGED <<outcome, accepted>>

(* The queue takes events, settled ones included, each for an attempt of its own. *)
Accept(S) ==
    /\ \A e \in S : accepted[e] < attempts[e]
    /\ accepted' = [e \in Event |-> IF e \in S THEN accepted[e] + 1 ELSE accepted[e]]
    /\ UNCHANGED <<outcome, attempts>>

Publish(S) ==
    /\ Open(S)
    /\ \A e \in S : accepted[e] > 0
    /\ outcome' = [e \in Event |-> IF e \in S THEN "PUBLISHED" ELSE outcome[e]]
    /\ UNCHANGED <<attempts, accepted>>

GiveUp(e) ==
    /\ outcome[e] = "OPEN"
    /\ attempts[e] >= MaxAttempts
    /\ outcome' = [outcome EXCEPT ![e] = "FAILED"]
    /\ UNCHANGED <<attempts, accepted>>

Next ==
    \/ \E e \in Event : Commit(e) \/ GiveUp(e)
    \/ \E S \in SUBSET Event : Attempt(S) \/ Accept(S) \/ Publish(S)

Spec == Init /\ [][Next]_vars

=============================================================================
