------------------------------ MODULE PairAlerts ------------------------------
(***************************************************************************)
(* PairAlertsService: standing searches of users, matched against listings     *)
(* from both sides.  The job of an alert's version looks for listings, keeps    *)
(* those that fit and deletes the alert's other matches; the job of a           *)
(* listing's version looks for alerts.  Neither locks anything, and within a     *)
(* run the matches are saved side by side: a Promise.all does not stop the       *)
(* others when one of them fails, so saves may outlive their run.                *)
(*                                                                         *)
(* The caps (200 candidates, 25 matches) are not reached.  The lease of a job    *)
(* may have expired whenever it is PROCESSING; its attempts are counted in the    *)
(* module Matching, and here a job that fails is always tried again.             *)
(***************************************************************************)
EXTENDS Naturals

CONSTANTS
    Alert,          \* alert ids
    Listing,        \* listing ids
    GuestListing,   \* those created by guests
    Users,          \* user ids
    OwnerOf,        \* "userId" of each alert and listing
    Need,           \* what an alert asks for
    Offer,          \* what a listing says it is; a WANTED listing offers nothing that fits
    Fits,           \* the pairs whose score reaches the threshold
    Worker,         \* jobs in progress at one time
    Marks,          \* what users make of a match: VIEWED, DISMISSED
    MaxChanges,     \* bound: changes people make
    MaxFaults,      \* bound: statements that fail and workers that are killed
    Unread          \* a run that has yet to read its entity

Version == 1..(MaxChanges + 1)
Job == [kind : {"alert"}, id : Alert, version : Version]
       \cup [kind : {"listing"}, id : Listing, version : Version]

ASSUME PairAlertsAssumption ==
    /\ GuestListing \subseteq Listing
    /\ OwnerOf \in [Alert \cup Listing -> Users]
    /\ Fits \subseteq Need \X Offer
    /\ Marks \subseteq {"VIEWED", "DISMISSED"}
    /\ MaxChanges \in Nat /\ MaxFaults \in Nat
    /\ Unread \notin Need \cup Offer

VARIABLES
    alert,      \* alert[a]: its "status" ("ABSENT" before and "DELETED" after), "version"
                \* and what it asks for; its "matchedVersion" is read by nothing
    listing,    \* listing[l]: "ACTIVE" or another status, "version" and what it offers
    job,        \* "MatchingJob"."status" of a version's job
    match,      \* match[a][l]: the PairAlertMatch row, or NoRow
    created,    \* created[a][l]: how many rows of the pair there have been
    worker,     \* the jobs in progress
    saves,      \* calls of saveMatch that have not returned
    told,       \* history: notices of the pair's row since the claim was last given back
    lost,       \* history: rows whose claim outlived the call that made it
    late,       \* history: pairs last written by a run whose alert or listing had changed
    switched,   \* history: listings whose status changed at the version they have
    changes,    \* how many people have made
    faults      \* how many errors and crashes there were

vars == <<alert, listing, job, match, created, worker, saves, told, lost, late, switched,
          changes, faults>>

rows == <<match, created>>
bounds == <<changes, faults>>

NoRow == [id |-> 0, alertVersion |-> 0, listingVersion |-> 0, notified |-> FALSE,
          status |-> "NONE"]
Idle == [pc |-> "idle"]
InProgress == [pc : {"reading", "searching", "saving", "completing", "releasing"},
               job : Job,
               content : Need \cup Offer \cup {Unread},
               kept : SUBSET Listing,               \* by the run of an alert
               seen : [Listing -> Version]]         \* the versions when it searched

Save == [by : Worker, orphaned : Nat,       \* orphaned: by which fault, 0 when awaited
         alert : Alert, alertVersion : Version,
         listing : Listing, listingVersion : Version,
         pc : {"saving", "claiming", "telling", "returning"},
         id : Nat]                          \* the row it has written, 0 before

AlertRow == [status : {"ABSENT", "ACTIVE", "PAUSED", "ARCHIVED", "DELETED"},
             version : Version, need : Need]
ListingRow == [status : {"ACTIVE", "OTHER"}, version : Version, offer : Offer]
MatchRow == [id : Nat \ {0}, alertVersion : Version, listingVersion : Version,
             notified : BOOLEAN, status : {"PENDING", "VIEWED", "DISMISSED"}]

TypeOK ==
    /\ alert \in [Alert -> AlertRow]
    /\ listing \in [Listing -> ListingRow]
    /\ job \in [Job -> {"ABSENT", "PENDING", "PROCESSING", "COMPLETED"}]
    /\ match \in [Alert -> [Listing -> {NoRow} \cup MatchRow]]
    /\ created \in [Alert -> [Listing -> Nat]]
    /\ worker \in [Worker -> {Idle} \cup InProgress]
    /\ saves \subseteq Save
    /\ told \in [Alert -> [Listing -> Nat]]
    /\ lost \subseteq Alert \X Listing \X Nat
    /\ late \subseteq Alert \X Listing
    /\ switched \subseteq Listing
    /\ changes \in 0..MaxChanges
    /\ faults \in Nat

JobOf(kind, x, v) == [kind |-> kind, id |-> x, version |-> v]

(* The listings have been created, each with the job of its first version.            *)
Init ==
    /\ alert \in [Alert -> [status : {"ABSENT"}, version : {1}, need : Need]]
    /\ listing \in [Listing -> [status : {"ACTIVE"}, version : {1}, offer : Offer]]
    /\ job = [j \in Job |-> IF j.kind = "listing" /\ j.version = 1 THEN "PENDING" ELSE "ABSENT"]
    /\ match = [a \in Alert |-> [l \in Listing |-> NoRow]]
    /\ created = [a \in Alert |-> [l \in Listing |-> 0]]
    /\ worker = [w \in Worker |-> Idle]
    /\ saves = {}
    /\ told = [a \in Alert |-> [l \in Listing |-> 0]]
    /\ lost = {} /\ late = {} /\ switched = {}
    /\ changes = 0 /\ faults = 0

-----------------------------------------------------------------------------
(* What users do with their alerts.                                                     *)
Change == changes < MaxChanges /\ changes' = changes + 1

Enqueue(j) == job' = [job EXCEPT ![j] = IF @ = "ABSENT" THEN "PENDING" ELSE @]

Create(a) ==
    /\ alert[a].status = "ABSENT"
    /\ alert' = [alert EXCEPT ![a].status = "ACTIVE"]
    /\ Enqueue(JobOf("alert", a, 1))
    /\ UNCHANGED <<listing, rows, worker, saves, told, lost, late, switched, bounds>>

(* Mutant: an edit keeps the version. *)
EditedInPlace(a, s, n) == [alert[a] EXCEPT !.status = s, !.need = n]

Edited(a, s, n) == [alert[a] EXCEPT !.status = s, !.need = n, !.version = @ + 1]

(* update: any change is a new version, and its job is queued if the alert is ACTIVE.     *)
Update(a) ==
    /\ alert[a].status \notin {"ABSENT", "DELETED"}
    /\ Change
    /\ \E s \in {"ACTIVE", "PAUSED", "ARCHIVED"}, n \in Need :
        /\ alert' = [alert EXCEPT ![a] = Edited(a, s, n)]
        /\ IF s = "ACTIVE" THEN Enqueue(JobOf("alert", a, alert'[a].version))
           ELSE UNCHANGED job
    /\ late' = {p \in late : p[1] # a}
    /\ UNCHANGED <<listing, rows, worker, saves, told, lost, switched, faults>>

(* remove: the matches go with their alert (onDelete: Cascade). *)
Remove(a) ==
    /\ alert[a].status \notin {"ABSENT", "DELETED"}
    /\ Change
    /\ alert' = [alert EXCEPT ![a].status = "DELETED"]
    /\ match' = [match EXCEPT ![a] = [l \in Listing |-> NoRow]]
    /\ UNCHANGED <<listing, job, created, worker, saves, told, lost, late, switched, faults>>

(* updateMatchStatus *)
Mark(a, l, s) ==
    /\ match[a][l] # NoRow
    /\ match[a][l].status # s
    /\ Change
    /\ match' = [match EXCEPT ![a][l].status = s]
    /\ UNCHANGED <<alert, listing, job, created, worker, saves, told, lost, late, switched,
                   faults>>

-----------------------------------------------------------------------------
(* What happens to listings: an edit is a new version with its job; a removal, an expiry  *)
(* and a guest's change of status are a new version without one; an administrator       *)
(* changes the status alone.                                                            *)
EditListing(l) ==
    /\ Change
    /\ \E s \in {"ACTIVE", "OTHER"}, o \in Offer :
        listing' = [listing EXCEPT ![l] = [status |-> s, version |-> @.version + 1, offer |-> o]]
    /\ Enqueue(JobOf("listing", l, listing[l].version + 1))
    /\ late' = {p \in late : p[2] # l}
    /\ switched' = switched \ {l}
    /\ UNCHANGED <<alert, rows, worker, saves, told, lost, faults>>

SwitchListing(l) ==
    /\ Change
    /\ \E s \in {"ACTIVE", "OTHER"} \ {listing[l].status}, raised \in {0, 1} :
        /\ raised = 1 => s = "OTHER" \/ l \in GuestListing
        /\ listing' = [listing EXCEPT ![l].status = s, ![l].version = @ + raised]
        /\ switched' = IF raised = 1 THEN switched \ {l} ELSE switched \cup {l}
    /\ late' = {p \in late : p[2] # l}
    /\ UNCHANGED <<alert, job, rows, worker, saves, told, lost, faults>>

(* runDailyBackfill: ACTIVE listings whose version has had no job.  There is none for     *)
(* alerts.                                                                                *)
Unqueued(l) == listing[l].status = "ACTIVE" /\ job[JobOf("listing", l, listing[l].version)] = "ABSENT"

Backfill(l) ==
    /\ Unqueued(l)
    /\ Enqueue(JobOf("listing", l, listing[l].version))
    /\ UNCHANGED <<alert, listing, rows, worker, saves, told, lost, late, switched, bounds>>

-----------------------------------------------------------------------------
(* A job in progress. *)
At(w, pc) == worker[w].pc = pc
Goto(w, pc) == worker' = [worker EXCEPT ![w].pc = pc]
Done(w, pc) ==      \* with what it has read
    worker' = [worker EXCEPT ![w] = [pc |-> pc, job |-> @.job, content |-> Unread, kept |-> {},
                                     seen |-> [l \in Listing |-> 1]]]
Entity(w) == worker[w].job.id
OfAlert(w) == worker[w] # Idle /\ worker[w].job.kind = "alert"

Claim(w, j) ==
    /\ worker[w] = Idle
    /\ job[j] \in {"PENDING", "PROCESSING"}
    /\ job' = [job EXCEPT ![j] = "PROCESSING"]
    /\ worker' = [worker EXCEPT ![w] = [pc |-> "reading", job |-> j, content |-> Unread,
                                        kept |-> {}, seen |-> [l \in Listing |-> 1]]]
    /\ UNCHANGED <<alert, listing, rows, saves, told, lost, late, switched, bounds>>

(* The entity must be ACTIVE and at the version of the job; its content is read with it. *)
Current(j) ==
    IF j.kind = "alert" THEN alert[j.id].status = "ACTIVE" /\ alert[j.id].version = j.version
    ELSE listing[j.id].status = "ACTIVE" /\ listing[j.id].version = j.version

Read(w) ==
    /\ At(w, "reading")
    /\ IF Current(worker[w].job)
       THEN worker' = [worker EXCEPT ![w].pc = "searching",
                                     ![w].content = IF OfAlert(w) THEN alert[Entity(w)].need
                                                    ELSE listing[Entity(w)].offer]
       ELSE Goto(w, "completing")
    /\ UNCHANGED <<alert, listing, job, rows, saves, told, lost, late, switched, bounds>>

(* score, against the threshold *)
Fit(need, offer) == <<need, offer>> \in Fits

NewSave(w, a, av, l, lv) ==
    [by |-> w, orphaned |-> 0, alert |-> a, alertVersion |-> av,
     listing |-> l, listingVersion |-> lv, pc |-> "saving", id |-> 0]

(* findSurfaceListingsForAlert and the semantic lookup: ACTIVE listings of others.  A     *)
(* guest's listing is nobody's own here.                                                 *)
ListingsFound(a, need) ==
    {l \in Listing : /\ listing[l].status = "ACTIVE"
                     /\ l \in GuestListing \/ OwnerOf[l] # OwnerOf[a]
                     /\ Fit(need, listing[l].offer)}

SearchListings(w) ==
    /\ At(w, "searching") /\ OfAlert(w)
    /\ LET a == Entity(w)
           found == ListingsFound(a, worker[w].content)
       IN  /\ saves' = saves \cup {NewSave(w, a, worker[w].job.version, l, listing[l].version)
                                        : l \in found}
           /\ worker' = [worker EXCEPT ![w].pc = "saving", ![w].kept = found,
                                       ![w].content = Unread,
                                       ![w].seen = [l \in Listing |-> listing[l].version]]
    /\ UNCHANGED <<alert, listing, job, rows, told, lost, late, switched, bounds>>

(* findSurfaceAlertsForListing: ACTIVE alerts of others. *)
AlertsFound(l, offer) ==
    {a \in Alert : /\ alert[a].status = "ACTIVE"
                   /\ OwnerOf[a] # OwnerOf[l]
                   /\ Fit(alert[a].need, offer)}

SearchAlerts(w) ==
    /\ At(w, "searching") /\ ~OfAlert(w)
    /\ LET l == Entity(w) IN
       saves' = saves \cup {NewSave(w, a, alert[a].version, l, worker[w].job.version)
                                : a \in AlertsFound(l, worker[w].content)}
    /\ worker' = [worker EXCEPT ![w].pc = "saving", ![w].content = Unread]
    /\ UNCHANGED <<alert, listing, job, rows, told, lost, late, switched, bounds>>

Awaited(w) == {s \in saves : s.by = w /\ s.orphaned = 0}

(* Mutant: the deletion does not spare what was kept. *)
PrunedAll(a, kept) == Listing

(* The deleteMany: whatever the run did not keep, even what was saved since it searched. *)
Pruned(a, kept) == {l \in Listing \ kept : match[a][l] # NoRow}

Prune(w) ==
    /\ At(w, "saving") /\ OfAlert(w)
    /\ Awaited(w) = {}
    /\ LET a == Entity(w)
           gone == Pruned(a, worker[w].kept)
           stale == {l \in gone : \/ worker[w].seen[l] # listing[l].version
                                  \/ worker[w].job.version # alert[a].version}
       IN  /\ match' = [match EXCEPT ![a] = [l \in Listing |-> IF l \in gone THEN NoRow ELSE @[l]]]
           /\ late' = late \cup {<<a, l>> : l \in stale}
    /\ Done(w, "completing")
    /\ UNCHANGED <<alert, listing, job, created, saves, told, lost, switched, bounds>>

(* processPending settles a job that is still PROCESSING. *)
Settle(w, s) ==
    /\ job' = [job EXCEPT ![worker[w].job] = IF @ = "PROCESSING" THEN s ELSE @]
    /\ worker' = [worker EXCEPT ![w] = Idle]
    /\ UNCHANGED <<alert, listing, rows, saves, told, lost, late, switched, bounds>>

(* The run of a listing ends when its saves have returned. *)
Complete(w) ==
    /\ \/ At(w, "completing")
       \/ At(w, "saving") /\ ~OfAlert(w) /\ Awaited(w) = {}
    /\ Settle(w, "COMPLETED")

Release(w) == At(w, "releasing") /\ Settle(w, "PENDING")

-----------------------------------------------------------------------------
(* saveMatch, one statement at a time. *)
RowOf(s) == match[s.alert][s.listing]
Continue(s, pc) == saves' = (saves \ {s}) \cup {[s EXCEPT !.pc = pc]}
Return(s) == saves' = saves \ {s}

(* Mutant: a match that is found again is PENDING again. *)
UpsertedAnew(s) ==
    [id |-> IF RowOf(s) = NoRow THEN created[s.alert][s.listing] + 1 ELSE RowOf(s).id,
     alertVersion |-> s.alertVersion, listingVersion |-> s.listingVersion,
     notified |-> RowOf(s).notified, status |-> "PENDING"]

(* Mutant: the versions of the moment. *)
UpsertedFresh(s) ==
    [id |-> IF RowOf(s) = NoRow THEN created[s.alert][s.listing] + 1 ELSE RowOf(s).id,
     alertVersion |-> alert[s.alert].version, listingVersion |-> listing[s.listing].version,
     notified |-> RowOf(s).notified,
     status |-> IF RowOf(s) = NoRow THEN "PENDING" ELSE RowOf(s).status]

Upserted(s) ==
    [id |-> IF RowOf(s) = NoRow THEN created[s.alert][s.listing] + 1 ELSE RowOf(s).id,
     alertVersion |-> s.alertVersion, listingVersion |-> s.listingVersion,
     notified |-> RowOf(s).notified,
     status |-> IF RowOf(s) = NoRow THEN "PENDING" ELSE RowOf(s).status]

Stale(s) ==
    \/ s.alertVersion # alert[s.alert].version
    \/ s.listingVersion # listing[s.listing].version

Upsert(s) ==
    /\ s.pc = "saving"
    /\ alert[s.alert].status # "DELETED"
    /\ LET new == Upserted(s)
           fresh == RowOf(s) = NoRow
           after == [s EXCEPT !.id = new.id, !.pc = "claiming"]
       IN  /\ match' = [match EXCEPT ![s.alert][s.listing] = new]
           /\ created' = [created EXCEPT ![s.alert][s.listing] = IF fresh THEN new.id ELSE @]
           /\ told' = [told EXCEPT ![s.alert][s.listing] = IF fresh THEN 0 ELSE @]
           /\ saves' = (saves \ {s}) \cup (IF new.notified THEN {} ELSE {after})
    /\ late' = IF Stale(s) THEN late \cup {<<s.alert, s.listing>>}
               ELSE late \ {<<s.alert, s.listing>>}
    /\ UNCHANGED <<alert, listing, job, worker, lost, switched, bounds>>

(* Mutant: the claim does not name the row. *)
ClaimableUnkeyed(s) == ~RowOf(s).notified

(* Mutant: the claim does not look at "notifiedAt". *)
ClaimableAgain(s) == RowOf(s).id = s.id

(* The UPDATE ... WHERE id AND "notifiedAt" IS NULL. *)
Claimable(s) == RowOf(s).id = s.id /\ ~RowOf(s).notified

ClaimNotice(s) ==
    /\ s.pc = "claiming"
    /\ IF Claimable(s)
       THEN /\ match' = [match EXCEPT ![s.alert][s.listing].notified = TRUE]
            /\ Continue(s, "telling")
       ELSE Return(s) /\ UNCHANGED match
    /\ UNCHANGED <<alert, listing, job, created, worker, told, lost, late, switched, bounds>>

(* createNotification.  It may report an error whether or not its row was inserted.       *)
Count(s) == told' = [told EXCEPT ![s.alert][s.listing] = IF RowOf(s).id = s.id THEN @ + 1 ELSE @]

Tell(s) ==
    /\ s.pc = "telling"
    /\ Count(s)
    /\ Return(s)
    /\ UNCHANGED <<alert, listing, job, rows, worker, lost, late, switched, bounds>>

Fault == faults < MaxFaults /\ faults' = faults + 1

TellFails(s) ==
    /\ s.pc = "telling"
    /\ Fault
    /\ Count(s) \/ UNCHANGED told
    /\ Continue(s, "returning")
    /\ UNCHANGED <<alert, listing, job, rows, worker, lost, late, switched, changes>>

(* Mutant: the claim is kept. *)
KeepClaim(s) ==
    /\ s.pc = "returning"
    /\ RowOf(s).id = s.id
    /\ Return(s)
    /\ UNCHANGED <<alert, listing, job, rows, worker, told, lost, late, switched, bounds>>

(* The catch gives the claim back and swallows the error. *)
GiveBack(s) ==
    /\ s.pc = "returning"
    /\ RowOf(s).id = s.id
    /\ match' = [match EXCEPT ![s.alert][s.listing].notified = FALSE]
    /\ told' = [told EXCEPT ![s.alert][s.listing] = 0]
    /\ Return(s)
    /\ UNCHANGED <<alert, listing, job, created, worker, lost, late, switched, bounds>>

(* A save throws: its run is over, the saves beside it go on without one.                *)
Orphaned(s, n) ==
    {IF x.by = s.by /\ x.orphaned = 0 THEN [x EXCEPT !.orphaned = n] ELSE x : x \in saves \ {s}}

SaveThrows(s) ==
    /\ faults' = faults + 1
    /\ lost' = IF s.pc = "returning" THEN lost \cup {<<s.alert, s.listing, s.id>>} ELSE lost
    /\ IF s.orphaned = 0
       THEN saves' = Orphaned(s, faults + 1) /\ Done(s.by, "releasing")
       ELSE saves' = saves \ {s} /\ UNCHANGED worker
    /\ UNCHANGED <<alert, listing, job, rows, told, late, switched, changes>>

(* The alert's row is gone (foreign key), or the match's row is (update of no row).       *)
SaveImpossible(s) ==
    /\ \/ s.pc = "saving" /\ alert[s.alert].status = "DELETED"
       \/ s.pc = "returning" /\ RowOf(s).id # s.id
    /\ SaveThrows(s)

SaveFails(s) == s.pc # "telling" /\ faults < MaxFaults /\ SaveThrows(s)

(* Another statement of the run fails. *)
RunFails(w) ==
    /\ \/ worker[w].pc \in {"reading", "searching", "completing"}
       \/ At(w, "saving") /\ Awaited(w) = {}
    /\ Fault
    /\ Done(w, "releasing")
    /\ UNCHANGED <<alert, listing, job, rows, saves, told, lost, late, switched, changes>>

(* The invocation is killed with all it was doing; the job stays PROCESSING.             *)
Crash(w) ==
    /\ worker[w] # Idle
    /\ Fault
    /\ LET own == {s \in saves : s.by = w} IN
       /\ saves' = saves \ own
       /\ lost' = lost \cup {<<s.alert, s.listing, s.id>> :
                                s \in {x \in own : x.pc \in {"telling", "returning"}}}
    /\ worker' = [worker EXCEPT ![w] = Idle]
    /\ UNCHANGED <<alert, listing, job, rows, told, late, switched, changes>>

-----------------------------------------------------------------------------
Run(w) ==
    \/ Read(w) \/ SearchListings(w) \/ SearchAlerts(w) \/ Prune(w)
    \/ Complete(w) \/ Release(w) \/ RunFails(w)

Saving(s) ==
    \/ Upsert(s) \/ ClaimNotice(s) \/ Tell(s) \/ TellFails(s) \/ GiveBack(s)
    \/ SaveImpossible(s) \/ SaveFails(s)

Next ==
    \/ \E a \in Alert : Create(a) \/ Update(a) \/ Remove(a)
    \/ \E a \in Alert, l \in Listing, s \in Marks : Mark(a, l, s)
    \/ \E l \in Listing : EditListing(l) \/ SwitchListing(l) \/ Backfill(l)
    \/ \E w \in Worker, j \in Job : Claim(w, j)
    \/ \E w \in Worker : Run(w) \/ Crash(w)
    \/ \E s \in saves : Saving(s)

Spec == Init /\ [][Next]_vars

-----------------------------------------------------------------------------
(* findForUser: what an owner is shown of an alert. *)
Shown(a, l) ==
    /\ alert[a].status \in {"ACTIVE", "PAUSED"}
    /\ match[a][l] # NoRow
    /\ match[a][l].status # "DISMISSED"
    /\ listing[l].status = "ACTIVE"
    /\ match[a][l].alertVersion = alert[a].version
    /\ match[a][l].listingVersion = listing[l].version

FitsNow(a, l) == Fit(alert[a].need, listing[l].offer)

(* A listing shown under an alert fits what both say now, whatever was edited while the   *)
(* run that found it was under way (pair-alerts.service.ts:91).                           *)
ShownAlertsFit == \A a \in Alert, l \in Listing : Shown(a, l) => FitsNow(a, l)

Settled ==
    /\ \A w \in Worker : worker[w] = Idle
    /\ saves = {}
    /\ \A j \in Job : job[j] \in {"ABSENT", "COMPLETED"}
    /\ ~\E l \in Listing : Unqueued(l)

Due(a, l) ==
    /\ alert[a].status = "ACTIVE"
    /\ listing[l].status = "ACTIVE"
    /\ OwnerOf[a] # OwnerOf[l]
    /\ FitsNow(a, l)
    /\ l \notin switched

Found(a, l) == Shown(a, l) \/ match[a][l].status = "DISMISSED"

(* When every job is done, a listing that fits an alert has been found for it, whichever   *)
(* of the two was changed last and whatever failed meanwhile; only a run whose reads were   *)
(* outdated when it wrote or deleted can hide it (pair-alerts.service.ts:210).              *)
SettledAlertShown ==
    Settled => \A a \in Alert, l \in Listing :
                    Due(a, l) /\ <<a, l>> \notin late => Found(a, l)

(* "creates a private alert match when a qualifying listing appears"
   (pair-alerts.service.spec.ts), without the exception for outdated reads.              *)
QualifyingIsMatched ==
    Settled => \A a \in Alert, l \in Listing : Due(a, l) => Found(a, l)

(* However many runs find a match at once, its row is announced once, and once more only   *)
(* after a failed notice gave the claim back (pair-alerts.service.ts:573).                  *)
MatchToldOnce == \A a \in Alert, l \in Listing : told[a][l] <= 1

(* "notifiedAt" stands for a user who was told: it is set only while the call that set it   *)
(* is still telling, afterwards, or if that call was lost (pair-alerts.service.ts:576, 589). *)
NotifiedMeansTold ==
    \A a \in Alert, l \in Listing :
        LET id == match[a][l].id IN
        match[a][l].notified =>
            \/ told[a][l] > 0
            \/ <<a, l, id>> \in lost
            \/ \E s \in saves : /\ s.alert = a /\ s.listing = l /\ s.id = id
                                /\ s.pc \in {"telling", "returning"}

(* Where the announcement of an alert's match with a listing stands.                       *)
Held(a, l, pc) ==
    \E s \in saves : /\ s.alert = a /\ s.listing = l /\ s.id = match[a][l].id
                     /\ s.pc = pc

Phase(a, l) ==
    IF ~match[a][l].notified THEN "FREE"
    ELSE IF Held(a, l, "telling") THEN "TELLING"
    ELSE IF Held(a, l, "returning") THEN "RETURNING"
    ELSE IF told[a][l] > 0 THEN "DONE" ELSE "LOST"

Notice(a, l) ==
    INSTANCE Announcement WITH
        Parties <- {a},
        phase <- Phase(a, l),
        told <- [x \in {a} |-> IF match[a][l] = NoRow THEN 0 ELSE told[a][l]]

(* Every match of an alert is announced as Announcement has it, by whatever saves write     *)
(* and claim its row, and though the row be deleted and written anew under them             *)
(* (pair-alerts.service.ts:573).                                                           *)
ImplementsAnnouncement ==
    /\ \A a \in Alert, l \in Listing : Notice(a, l)!Init
    /\ [][\A a \in Alert, l \in Listing : [Notice(a, l)!Next]_(Notice(a, l)!vars)]_vars

(* What a user dismissed is not shown again while neither the alert nor the listing        *)
(* changes: no run resets the mark, and only an outdated one can delete the row that        *)
(* carries it (pair-alerts.service.ts:210, 556).                                            *)
Dismissed(a, l) == match[a][l].status = "DISMISSED" /\ Due(a, l)

StaysDismissed ==
    \A a \in Alert, l \in Listing :
        Dismissed(a, l) => \/ match'[a][l].status = "DISMISSED"
                           \/ alert'[a] # alert[a] \/ listing'[l] # listing[l]
                           \/ <<a, l>> \in late'
                           \/ match'[a][l].status = "VIEWED" /\ changes' # changes
DismissedStays == [][StaysDismissed]_vars

=============================================================================
