------------------------------ MODULE Catalogue ------------------------------
(***************************************************************************)
(* What the listings promise, as if whoever changes one read and wrote it in  *)
(* one instant: no versions, no calls in progress, no attachments in a         *)
(* registry of their own.  A status follows the table from the status there    *)
(* is, an image is taken from the uploads nobody uses, and what a listing no   *)
(* longer shows can be used again until it is thrown away.                    *)
(***************************************************************************)
CONSTANTS
    Listing,
    GuestListing,   \* the ones that are not edited, but swept
    Upload

VARIABLES
    status,         \* of a listing, "NONE" before it is published
    shown,          \* its images
    free,           \* uploads that nobody uses
    known,          \* uploads there have been
    moderated       \* listings whose status an administrator has set

vars == <<status, shown, free, known, moderated>>

Init ==
    /\ status = [l \in Listing |-> "NONE"]
    /\ shown = [l \in Listing |-> {}]
    /\ free = {}
    /\ known = {}
    /\ moderated = {}

Arrive(u) ==
    /\ u \notin known
    /\ known' = known \cup {u}
    /\ free' = free \cup {u}
    /\ UNCHANGED <<status, shown, moderated>>

ThrowAway(u) ==
    /\ u \in free
    /\ free' = free \ {u}
    /\ UNCHANGED <<status, shown, known, moderated>>

Publish(l, S) ==
    /\ status[l] = "NONE"
    /\ S \subseteq free
    /\ status' = [status EXCEPT ![l] = "ACTIVE"]
    /\ shown' = [shown EXCEPT ![l] = S]
    /\ free' = free \ S
    /\ UNCHANGED <<known, moderated>>

(* The table binds whom no administrator has overruled. *)
Leads(from, to) ==
    \/ to = from
    \/ from = "ACTIVE" /\ to \in {"PAUSED", "COMPLETED"}
    \/ from = "PAUSED" /\ to \in {"ACTIVE", "COMPLETED"}
    \/ from = "EXPIRED" /\ to = "ACTIVE"

Sets(l, st) ==
    /\ status[l] # "NONE"
    /\ Leads(status[l], st) \/ l \in moderated
    /\ status' = [status EXCEPT ![l] = st]

(* A completed listing is not edited. *)
Edit(l, S, st) ==
    /\ l \notin GuestListing
    /\ status[l] # "COMPLETED" \/ l \in moderated
    /\ Sets(l, st)
    /\ S \ shown[l] \subseteq free
    /\ shown' = [shown EXCEPT ![l] = S]
    /\ free' = (free \ S) \cup (shown[l] \ S)
    /\ UNCHANGED <<known, moderated>>

GuestSets(l, st) ==
    /\ l \in GuestListing
    /\ Sets(l, st)
    /\ UNCHANGED <<shown, free, known, moderated>>

Remove(l) ==
    /\ l \notin GuestListing
    /\ status[l] # "NONE"
    /\ status' = [status EXCEPT ![l] = "DELETED"]
    /\ shown' = [shown EXCEPT ![l] = {}]
    /\ free' = free \cup shown[l]
    /\ UNCHANGED <<known, moderated>>

Moderate(l, st) ==
    /\ status[l] # "NONE"
    /\ status' = [status EXCEPT ![l] = st]
    /\ moderated' = moderated \cup {l}
    /\ UNCHANGED <<shown, free, known>>

Expire(D) ==
    /\ \A l \in D : l \notin GuestListing /\ status[l] = "ACTIVE"
    /\ status' = [l \in Listing |-> IF l \in D THEN "EXPIRED" ELSE status[l]]
    /\ UNCHANGED <<shown, free, known, moderated>>

(* Guests' listings whose time is over go, with their images.  One that an       *)
(* administrator has dealt with may lose its images only.                        *)
Sweep(E) ==
    LET D == {l \in E : status[l] \in {"ACTIVE", "PAUSED", "EXPIRED", "COMPLETED"}} IN
    /\ E \ D \subseteq moderated
    /\ status' = [l \in Listing |-> IF l \in D THEN "DELETED" ELSE status[l]]
    /\ shown' = [l \in Listing |-> IF l \in E THEN {} ELSE shown[l]]
    /\ free' = free \cup UNION {shown[l] : l \in E}
    /\ UNCHANGED <<known, moderated>>

Statuses == {"ACTIVE", "PAUSED", "COMPLETED", "EXPIRED", "FLAGGED", "DELETED"}

Next ==
    \/ \E u \in Upload : Arrive(u) \/ ThrowAway(u)
    \/ \E l \in Listing :
          \/ \E S \in SUBSET Upload : Publish(l, S)
          \/ \E S \in SUBSET Upload, st \in Statuses : Edit(l, S, st)
          \/ \E st \in Statuses : GuestSets(l, st) \/ Moderate(l, st)
          \/ Remove(l)
    \/ \E D \in SUBSET Listing : Expire(D)
    \/ \E E \in SUBSET GuestListing : Sweep(E)

Spec == Init /\ [][Next]_vars

=============================================================================
