--------------------------- MODULE PairAlertsProofs ---------------------------
(***************************************************************************)
(* What PairAlerts promises of any number of alerts, listings, jobs in       *)
(* progress, changes, errors and crashes.                                   *)
(***************************************************************************)
EXTENDS PairAlerts, TLAPS

-----------------------------------------------------------------------------
(* Types, with what they rest on: the number of changes bounds the versions, a save  *)
(* that somebody waits for belongs to a run at its saves, and one that has written    *)
(* its row names it.                                                                 *)
VersionBound ==
    /\ \A a \in Alert : alert[a].version <= changes + 1
    /\ \A l \in Listing : listing[l].version <= changes + 1

SavesOK ==
    \A s \in saves :
        /\ s.orphaned = 0 => worker[s.by].pc = "saving"
        /\ s.pc # "saving" => s.id # 0

TypeInv == TypeOK /\ VersionBound /\ SavesOK

Steps == {"reading", "searching", "saving", "completing", "releasing"}

LEMMA FirstVersion == 1 \in Version
BY PairAlertsAssumption DEF Version

LEMMA RunType ==
    ASSUME TypeOK, NEW w \in Worker
    PROVE  /\ worker[w] = Idle \/ worker[w] \in InProgress
           /\ worker[w].pc \in Steps => worker[w] \in InProgress
           /\ worker[w] \in InProgress => worker[w] # Idle /\ worker[w].pc \in Steps
BY DEF TypeOK, Idle, InProgress, Steps

LEMMA JobType ==
    ASSUME NEW j \in Job
    PROVE  /\ j.version \in Version
           /\ j.kind = "alert" => j.id \in Alert
           /\ j.kind # "alert" => j.kind = "listing" /\ j.id \in Listing
BY DEF Job

LEMMA VersionFacts ==
    ASSUME TypeOK
    PROVE  /\ Version \subseteq Nat /\ MaxChanges \in Nat /\ changes \in Nat
           /\ \A a \in Alert : alert[a] \in AlertRow /\ alert[a].version \in Version
           /\ \A l \in Listing : listing[l] \in ListingRow /\ listing[l].version \in Version
<1>1. Version \subseteq Nat /\ MaxChanges \in Nat /\ changes \in Nat
  BY PairAlertsAssumption DEF Version, TypeOK
<1>2. (\A a \in Alert : alert[a] \in AlertRow) /\ (\A l \in Listing : listing[l] \in ListingRow)
  BY DEF TypeOK
<1> QED
  BY <1>1, <1>2 DEF AlertRow, ListingRow

LEMMA SaveType ==
    ASSUME TypeOK, NEW s \in saves
    PROVE  /\ s \in Save
           /\ s.by \in Worker /\ s.orphaned \in Nat /\ s.id \in Nat
           /\ s.alert \in Alert /\ s.alertVersion \in Version
           /\ s.listing \in Listing /\ s.listingVersion \in Version
           /\ s.pc \in {"saving", "claiming", "telling", "returning"}
BY DEF TypeOK, Save

LEMMA RowType ==
    ASSUME TypeOK, NEW a \in Alert, NEW l \in Listing
    PROVE  /\ match[a][l] = NoRow \/ match[a][l] \in MatchRow
           /\ match[a][l].id \in Nat /\ match[a][l].notified \in BOOLEAN
           /\ match[a][l].id = 0 <=> match[a][l] = NoRow
           /\ created[a][l] \in Nat /\ told[a][l] \in Nat
<1>1. \/ match[a][l] = NoRow
      \/ match[a][l] \in MatchRow
  BY DEF TypeOK
<1>2. created[a][l] \in Nat /\ told[a][l] \in Nat
  BY DEF TypeOK
<1>3. NoRow.id = 0 /\ NoRow.notified \in BOOLEAN
  BY DEF NoRow
<1>4. CASE match[a][l] = NoRow
  BY <1>1, <1>2, <1>3, <1>4
<1>5. CASE match[a][l] # NoRow
  BY <1>1, <1>2, <1>5 DEF MatchRow
<1> QED
  BY <1>4, <1>5

LEMMA RowUpdates ==
    /\ \A r \in AlertRow, s \in {"ACTIVE", "PAUSED", "ARCHIVED", "DELETED"} :
          /\ [r EXCEPT !.status = s] \in AlertRow
          /\ [r EXCEPT !.status = s].version = r.version
    /\ \A r \in ListingRow, s \in {"ACTIVE", "OTHER"}, v \in Version :
          /\ [r EXCEPT !.status = s, !.version = v] \in ListingRow
          /\ [r EXCEPT !.status = s, !.version = v].version = v
    /\ \A r \in MatchRow, s \in {"PENDING", "VIEWED", "DISMISSED"} :
          [r EXCEPT !.status = s] \in MatchRow
    /\ \A r \in MatchRow, b \in BOOLEAN : [r EXCEPT !.notified = b] \in MatchRow
BY DEF AlertRow, ListingRow, MatchRow

(* A run that is over has read nothing yet of the next. *)
LEMMA DoneType ==
    ASSUME TypeOK, NEW w \in Worker, worker[w] \in InProgress, NEW pc \in Steps, Done(w, pc)
    PROVE  worker' \in [Worker -> {Idle} \cup InProgress]
<1>1. [pc |-> pc, job |-> worker[w].job, content |-> Unread, kept |-> {},
       seen |-> [l \in Listing |-> 1]] \in InProgress
  BY FirstVersion DEF InProgress, Steps
<1> QED
  BY <1>1 DEF Done, TypeOK

(* Marking a save's progress keeps its type. *)
LEMMA ContinueType ==
    ASSUME TypeOK, NEW s \in saves, NEW pc \in {"saving", "claiming", "telling", "returning"}
    PROVE  [s EXCEPT !.pc = pc] \in Save
BY SaveType DEF Save

LEMMA OrphanedType ==
    ASSUME TypeOK, NEW s \in saves
    PROVE  /\ Orphaned(s, faults + 1) \subseteq Save
           /\ \A x \in Orphaned(s, faults + 1) :
                 /\ x.orphaned = 0 => x \in saves /\ x.by # s.by
                 /\ \E y \in saves \ {s} : /\ x.alert = y.alert /\ x.listing = y.listing
                                           /\ x.alertVersion = y.alertVersion
                                           /\ x.listingVersion = y.listingVersion
                                           /\ x.pc = y.pc /\ x.id = y.id
<1>1. faults + 1 \in Nat /\ faults + 1 # 0
  BY DEF TypeOK
<1>2. \A x \in saves : [x EXCEPT !.orphaned = faults + 1] \in Save
  BY <1>1, SaveType DEF Save
<1>3. \A x \in saves :
         LET y == [x EXCEPT !.orphaned = faults + 1] IN
         /\ y.orphaned = faults + 1
         /\ y.alert = x.alert /\ y.listing = x.listing
         /\ y.alertVersion = x.alertVersion /\ y.listingVersion = x.listingVersion
         /\ y.pc = x.pc /\ y.id = x.id
  BY SaveType DEF Save
<1>4. \A x \in Orphaned(s, faults + 1) : \E y \in saves \ {s} :
         \/ x = y /\ ~(y.by = s.by /\ y.orphaned = 0)
         \/ x = [y EXCEPT !.orphaned = faults + 1]
  BY DEF Orphaned
<1>5. ASSUME NEW x \in Orphaned(s, faults + 1)
      PROVE  /\ x \in Save
             /\ x.orphaned = 0 => x \in saves /\ x.by # s.by
             /\ \E y \in saves \ {s} : /\ x.alert = y.alert /\ x.listing = y.listing
                                       /\ x.alertVersion = y.alertVersion
                                       /\ x.listingVersion = y.listingVersion
                                       /\ x.pc = y.pc /\ x.id = y.id
  <2>1. PICK y \in saves \ {s} : \/ x = y /\ ~(y.by = s.by /\ y.orphaned = 0)
                                 \/ x = [y EXCEPT !.orphaned = faults + 1]
    BY <1>4, <1>5
  <2>2. CASE x = y /\ ~(y.by = s.by /\ y.orphaned = 0)
    BY <2>2, SaveType
  <2>3. CASE x = [y EXCEPT !.orphaned = faults + 1]
    BY <1>1, <1>2, <1>3, <2>3
  <2> QED
    BY <2>1, <2>2, <2>3
<1> QED
  BY <1>5

-----------------------------------------------------------------------------
(* What people do changes no run and no save. *)
LEMMA PeopleType ==
    ASSUME TypeInv,
           \/ \E a \in Alert : Create(a) \/ Update(a) \/ Remove(a)
           \/ \E a \in Alert, l \in Listing, s \in Marks : Mark(a, l, s)
           \/ \E l \in Listing : EditListing(l) \/ SwitchListing(l) \/ Backfill(l)
    PROVE  TypeInv'
<1>1. \A j : Enqueue(j) => job' \in [Job -> {"ABSENT", "PENDING", "PROCESSING", "COMPLETED"}]
  BY DEF Enqueue, TypeInv, TypeOK
<1>2. MaxChanges \in Nat /\ changes \in Nat /\ \A n \in Nat : n <= MaxChanges => n + 1 \in Version
  BY PairAlertsAssumption DEF Version, TypeInv, TypeOK
<1>3. UNCHANGED <<saves, worker>> => SavesOK'
  BY DEF TypeInv, SavesOK
<1>4. ASSUME NEW a \in Alert, Create(a) PROVE TypeInv'
  <2>1. job' \in [Job -> {"ABSENT", "PENDING", "PROCESSING", "COMPLETED"}]
    BY <1>1, <1>4 DEF Create
  <2>2. /\ alert' \in [Alert -> AlertRow]
        /\ \A b \in Alert : alert'[b].version = alert[b].version
    BY <1>4, RowUpdates DEF Create, TypeInv, TypeOK
  <2>3. UNCHANGED <<listing, match, created, worker, saves, told, lost, late, switched, changes,
                    faults>>
    BY <1>4 DEF Create, rows, bounds
  <2> QED
    BY <1>3, <2>1, <2>2, <2>3 DEF TypeInv, TypeOK, VersionBound
<1>5. ASSUME NEW a \in Alert, Update(a) PROVE TypeInv'
  <2>1. PICK s \in {"ACTIVE", "PAUSED", "ARCHIVED"}, n \in Need :
           /\ alert' = [alert EXCEPT ![a] = Edited(a, s, n)]
           /\ IF s = "ACTIVE" THEN Enqueue(JobOf("alert", a, alert'[a].version))
              ELSE UNCHANGED job
    BY <1>5 DEF Update
  <2>2. alert[a].version \in Nat /\ alert[a].version <= changes + 1 /\ changes' = changes + 1
        /\ changes + 1 <= MaxChanges
    BY <1>5, VersionFacts DEF Update, Change, TypeInv, VersionBound
  <2>3. alert[a].version + 1 \in Version
    BY <2>2, <1>2 DEF Version
  <2>4. alert[a] \in AlertRow
    BY DEF TypeInv, TypeOK
  <2>5. Edited(a, s, n) \in AlertRow /\ Edited(a, s, n).version = alert[a].version + 1
    BY <2>3, <2>4 DEF Edited, AlertRow
  <2>6. /\ alert' \in [Alert -> AlertRow]
        /\ \A b \in Alert : \/ alert'[b].version = alert[b].version
                            \/ alert'[b].version = alert[a].version + 1
    BY <2>1, <2>3, <2>5 DEF TypeInv, TypeOK
  <2>7. VersionBound'
    <3>1. UNCHANGED listing
      BY <1>5 DEF Update
    <3>2. \A b \in Alert : alert[b].version \in Nat /\ alert[b].version <= changes + 1
      BY VersionFacts DEF TypeInv, VersionBound
    <3>3. \A l \in Listing : listing[l].version \in Nat /\ listing[l].version <= changes + 1
      BY VersionFacts DEF TypeInv, VersionBound
    <3> QED
      BY <1>2, <2>2, <2>6, <3>1, <3>2, <3>3 DEF VersionBound
  <2>8. job' \in [Job -> {"ABSENT", "PENDING", "PROCESSING", "COMPLETED"}]
    BY <1>1, <2>1 DEF TypeInv, TypeOK
  <2>9. /\ late' \subseteq late
        /\ UNCHANGED <<listing, match, created, worker, saves, told, lost, switched, faults>>
    BY <1>5 DEF Update, rows
  <2> QED
    BY <1>2, <1>3, <2>2, <2>6, <2>7, <2>8, <2>9 DEF TypeInv, TypeOK
<1>6. ASSUME NEW a \in Alert, Remove(a) PROVE TypeInv'
  <2>1. /\ alert' \in [Alert -> AlertRow]
        /\ \A b \in Alert : alert'[b].version = alert[b].version
    BY <1>6, RowUpdates DEF Remove, TypeInv, TypeOK
  <2>2. changes' = changes + 1 /\ changes' \in 0..MaxChanges
    BY <1>2, <1>6 DEF Remove, Change
  <2>3. match' \in [Alert -> [Listing -> {NoRow} \cup MatchRow]]
    BY <1>6 DEF Remove, TypeInv, TypeOK
  <2>4. UNCHANGED <<listing, job, created, worker, saves, told, lost, late, switched, faults>>
    BY <1>6 DEF Remove
  <2>5. VersionBound'
    <3>1. changes' = changes + 1 /\ changes \in Nat
      BY <2>2, VersionFacts DEF TypeInv
    <3> QED
      BY <2>1, <2>4, <3>1, VersionFacts DEF TypeInv, VersionBound
  <2> QED
    BY <1>3, <2>1, <2>2, <2>3, <2>4, <2>5 DEF TypeInv, TypeOK
<1>7. ASSUME NEW a \in Alert, NEW l \in Listing, NEW s \in Marks, Mark(a, l, s) PROVE TypeInv'
  <2>1. s \in {"PENDING", "VIEWED", "DISMISSED"}
    BY PairAlertsAssumption
  <2>2. match[a][l] \in MatchRow
    BY <1>7, RowType DEF Mark, TypeInv
  <2>3. match' \in [Alert -> [Listing -> {NoRow} \cup MatchRow]]
    <3>1. [match[a][l] EXCEPT !.status = s] \in MatchRow
      BY <2>1, <2>2, RowUpdates
    <3> QED
      BY <1>7, <3>1 DEF Mark, TypeInv, TypeOK
  <2>4. changes' = changes + 1 /\ changes + 1 \in 0..MaxChanges /\ changes \in Nat
    BY <1>2, <1>7 DEF Mark, Change
  <2>5. UNCHANGED <<alert, listing, job, created, worker, saves, told, lost, late, switched,
                    faults>>
    BY <1>7 DEF Mark
  <2>6. VersionBound'
    BY <2>4, <2>5, VersionFacts DEF TypeInv, VersionBound
  <2> QED
    BY <1>3, <2>3, <2>4, <2>5, <2>6 DEF TypeInv, TypeOK
<1>8. ASSUME NEW l \in Listing, EditListing(l) PROVE TypeInv'
  <2>1. PICK s \in {"ACTIVE", "OTHER"}, o \in Offer :
           listing' = [listing EXCEPT ![l] = [status |-> s, version |-> @.version + 1, offer |-> o]]
    BY <1>8 DEF EditListing
  <2>2. listing[l].version \in Nat /\ listing[l].version <= changes + 1 /\ changes' = changes + 1
        /\ changes + 1 <= MaxChanges
    BY <1>8, VersionFacts DEF EditListing, Change, TypeInv, VersionBound
  <2>3. listing[l].version + 1 \in Version
    BY <2>2, <1>2 DEF Version
  <2>4. /\ listing' \in [Listing -> ListingRow]
        /\ \A k \in Listing : \/ listing'[k].version = listing[k].version
                              \/ listing'[k].version = listing[l].version + 1
    <3>1. [status |-> s, version |-> listing[l].version + 1, offer |-> o] \in ListingRow
      BY <2>3 DEF ListingRow
    <3> QED
      BY <2>1, <3>1 DEF TypeInv, TypeOK
  <2>5. VersionBound'
    <3>1. UNCHANGED alert
      BY <1>8 DEF EditListing
    <3>2. \A b \in Alert : alert[b].version \in Nat /\ alert[b].version <= changes + 1
      BY VersionFacts DEF TypeInv, VersionBound
    <3>3. \A k \in Listing : listing[k].version \in Nat /\ listing[k].version <= changes + 1
      BY VersionFacts DEF TypeInv, VersionBound
    <3> QED
      BY <1>2, <2>2, <2>4, <3>1, <3>2, <3>3 DEF VersionBound
  <2>6. job' \in [Job -> {"ABSENT", "PENDING", "PROCESSING", "COMPLETED"}]
    BY <1>1, <1>8 DEF EditListing
  <2>7. /\ late' \subseteq late /\ switched' \subseteq switched
        /\ UNCHANGED <<alert, match, created, worker, saves, told, lost, faults>>
    BY <1>8 DEF EditListing, rows
  <2> QED
    BY <1>2, <1>3, <2>2, <2>4, <2>5, <2>6, <2>7 DEF TypeInv, TypeOK
<1>9. ASSUME NEW l \in Listing, SwitchListing(l) PROVE TypeInv'
  <2>1. PICK s \in {"ACTIVE", "OTHER"}, raised \in {0, 1} :
           listing' = [listing EXCEPT ![l].status = s, ![l].version = @ + raised]
    BY <1>9 DEF SwitchListing
  <2>2. listing[l].version \in Nat /\ listing[l].version <= changes + 1 /\ changes' = changes + 1
        /\ changes + 1 <= MaxChanges
    BY <1>9, VersionFacts DEF SwitchListing, Change, TypeInv, VersionBound
  <2>3. listing[l].version + raised \in Version
    BY <2>2, <1>2, VersionFacts DEF TypeInv
  <2>4. /\ listing' \in [Listing -> ListingRow]
        /\ listing'[l].version = listing[l].version + raised
        /\ \A k \in Listing : k # l => listing'[k] = listing[k]
    <3>1. listing[l] \in ListingRow
      BY VersionFacts DEF TypeInv
    <3>2. listing' = [listing EXCEPT ![l] =
             [listing[l] EXCEPT !.status = s, !.version = listing[l].version + raised]]
      BY <2>1
    <3>3. PICK v \in Version : v = listing[l].version + raised
      BY <2>3
    <3> DEFINE r == [listing[l] EXCEPT !.status = s, !.version = v]
    <3>4. r \in ListingRow /\ r.version = v
      BY <3>1 DEF ListingRow
    <3> HIDE DEF r
    <3>5. listing' = [listing EXCEPT ![l] = r]
      BY <3>2, <3>3 DEF r
    <3> QED
      BY <3>3, <3>4, <3>5 DEF TypeInv, TypeOK
  <2>5. VersionBound'
    <3>1. UNCHANGED alert
      BY <1>9 DEF SwitchListing
    <3>2. \A b \in Alert : alert[b].version \in Nat /\ alert[b].version <= changes + 1
      BY VersionFacts DEF TypeInv, VersionBound
    <3>3. \A k \in Listing : listing[k].version \in Nat /\ listing[k].version <= changes + 1
      BY VersionFacts DEF TypeInv, VersionBound
    <3> QED
      BY <1>2, <2>2, <2>4, <3>1, <3>2, <3>3 DEF VersionBound
  <2>6. switched' \subseteq Listing /\ late' \subseteq Alert \X Listing
        /\ UNCHANGED <<alert, job, match, created, worker, saves, told, lost, faults>>
    BY <1>9 DEF SwitchListing, TypeInv, TypeOK, rows
  <2> QED
    BY <1>2, <1>3, <2>2, <2>4, <2>5, <2>6 DEF TypeInv, TypeOK
<1>10. ASSUME NEW l \in Listing, Backfill(l) PROVE TypeInv'
  BY <1>1, <1>3, <1>10 DEF Backfill, Enqueue, TypeInv, TypeOK, VersionBound, rows, bounds
<1> QED
  BY <1>4, <1>5, <1>6, <1>7, <1>8, <1>9, <1>10

-----------------------------------------------------------------------------
(* Runs. *)
LEMMA NewSaveType ==
    ASSUME NEW w \in Worker, NEW a \in Alert, NEW av \in Version,
           NEW l \in Listing, NEW lv \in Version
    PROVE  /\ NewSave(w, a, av, l, lv) \in Save
           /\ NewSave(w, a, av, l, lv).by = w
           /\ NewSave(w, a, av, l, lv).pc = "saving"
           /\ NewSave(w, a, av, l, lv).id = 0
           /\ NewSave(w, a, av, l, lv).alert = a /\ NewSave(w, a, av, l, lv).alertVersion = av
           /\ NewSave(w, a, av, l, lv).listing = l /\ NewSave(w, a, av, l, lv).listingVersion = lv
BY DEF NewSave, Save

LEMMA RunKind ==
    ASSUME TypeOK, NEW w \in Worker, worker[w].pc \in Steps
    PROVE  /\ worker[w] \in InProgress /\ worker[w].job \in Job /\ worker[w].job.version \in Version
           /\ OfAlert(w) => Entity(w) \in Alert /\ worker[w].job.kind = "alert"
           /\ ~OfAlert(w) => Entity(w) \in Listing /\ worker[w].job.kind = "listing"
<1>1. worker[w] \in InProgress /\ worker[w] # Idle
  BY RunType
<1>2. worker[w].job \in Job
  BY <1>1 DEF InProgress
<1> QED
  BY <1>1, <1>2, JobType DEF OfAlert, Entity

(* A run that is not at its saves has none to wait for; what happens to other runs does *)
(* not concern its own.                                                                 *)
LEMMA StillAwaited ==
    ASSUME SavesOK, NEW w \in Worker, saves' = saves,
           \A v \in Worker : v # w => worker'[v] = worker[v],
           \A s \in saves : s.by \in Worker,
           worker'[w].pc = "saving" \/ worker[w].pc # "saving" \/ Awaited(w) = {}
    PROVE  SavesOK'
BY DEF SavesOK, Awaited

LEMMA RunTypes ==
    ASSUME TypeInv, NEW w \in Worker, Run(w)
    PROVE  TypeInv'
<1>1. \A s \in saves : s \in Save /\ s.by \in Worker
  BY SaveType DEF TypeInv
<1>2. CASE Read(w)
  <2>1. worker[w].pc = "reading" /\ worker[w] \in InProgress
    BY <1>2, RunType DEF TypeInv, Read, At, Steps
  <2>2. ASSUME Current(worker[w].job)
        PROVE  (IF OfAlert(w) THEN alert[Entity(w)].need ELSE listing[Entity(w)].offer)
                  \in Need \cup Offer \cup {Unread}
    BY <2>1, RunKind, VersionFacts DEF TypeInv, AlertRow, ListingRow, Steps
  <2>3. PICK c \in Need \cup Offer \cup {Unread}, pc \in Steps :
           worker' = [worker EXCEPT ![w] = [worker[w] EXCEPT !.pc = pc, !.content = c]]
           /\ pc # "saving"
    <3>1. CASE Current(worker[w].job)
      <4>1. PICK c \in Need \cup Offer \cup {Unread} :
               c = IF OfAlert(w) THEN alert[Entity(w)].need ELSE listing[Entity(w)].offer
        BY <2>2, <3>1
      <4>2. worker' = [worker EXCEPT ![w] = [worker[w] EXCEPT !.pc = "searching", !.content = c]]
        BY <1>2, <3>1, <4>1 DEF Read
      <4> QED
        BY <4>2 DEF Steps
    <3>2. CASE ~Current(worker[w].job)
      <4>1. worker' = [worker EXCEPT ![w] = [worker[w] EXCEPT !.pc = "completing"]]
        BY <1>2, <3>2 DEF Read, Goto
      <4>2. [worker[w] EXCEPT !.pc = "completing"]
              = [worker[w] EXCEPT !.pc = "completing", !.content = worker[w].content]
            /\ worker[w].content \in Need \cup Offer \cup {Unread}
        BY <2>1 DEF InProgress
      <4> QED
        BY <4>1, <4>2 DEF Steps
    <3> QED
      BY <3>1, <3>2
  <2>4. [worker[w] EXCEPT !.pc = pc, !.content = c] \in InProgress
    BY <2>1 DEF InProgress, Steps
  <2>5. UNCHANGED <<alert, listing, job, match, created, saves, told, lost, late, switched,
                    changes, faults>>
    BY <1>2 DEF Read, rows, bounds
  <2>6. worker' \in [Worker -> {Idle} \cup InProgress]
    BY <2>3, <2>4 DEF TypeInv, TypeOK
  <2>7. SavesOK'
    BY <1>1, <2>1, <2>3, <2>5, StillAwaited DEF TypeInv, TypeOK
  <2> QED
    BY <2>5, <2>6, <2>7 DEF TypeInv, TypeOK, VersionBound
<1>3. CASE SearchListings(w)
  <2>1. worker[w].pc = "searching" /\ worker[w] \in InProgress /\ Entity(w) \in Alert
        /\ worker[w].job.version \in Version
    BY <1>3, RunKind DEF TypeInv, SearchListings, At, Steps
  <2> DEFINE found == ListingsFound(Entity(w), worker[w].content)
             new == {NewSave(w, Entity(w), worker[w].job.version, l, listing[l].version) : l \in found}
             run == [worker[w] EXCEPT !.pc = "saving", !.kept = found, !.content = Unread,
                                      !.seen = [l \in Listing |-> listing[l].version]]
  <2>2. found \subseteq Listing
    BY DEF ListingsFound
  <2>3. \A s \in new : s \in Save /\ s.by = w /\ s.pc = "saving"
    BY <2>1, <2>2, NewSaveType, VersionFacts DEF TypeInv
  <2>4. run \in InProgress /\ run.pc = "saving"
    <3>1. [l \in Listing |-> listing[l].version] \in [Listing -> Version]
      BY VersionFacts DEF TypeInv
    <3> QED
      BY <2>1, <2>2, <3>1 DEF InProgress
  <2>5. /\ saves' = saves \cup new
        /\ worker' = [worker EXCEPT ![w] = run]
        /\ UNCHANGED <<alert, listing, job, match, created, told, lost, late, switched,
                       changes, faults>>
    BY <1>3 DEF SearchListings, rows, bounds
  <2> HIDE DEF new, run
  <2>6. SavesOK' /\ worker' \in [Worker -> {Idle} \cup InProgress] /\ saves' \subseteq Save
    BY <1>1, <2>3, <2>4, <2>5 DEF TypeInv, TypeOK, SavesOK
  <2> QED
    BY <2>5, <2>6 DEF TypeInv, TypeOK, VersionBound
<1>4. CASE SearchAlerts(w)
  <2>1. worker[w].pc = "searching" /\ worker[w] \in InProgress /\ Entity(w) \in Listing
        /\ worker[w].job.version \in Version
    BY <1>4, RunKind DEF TypeInv, SearchAlerts, At, Steps
  <2> DEFINE new == {NewSave(w, a, alert[a].version, Entity(w), worker[w].job.version)
                        : a \in AlertsFound(Entity(w), worker[w].content)}
             run == [worker[w] EXCEPT !.pc = "saving", !.content = Unread]
  <2>2. \A s \in new : s \in Save /\ s.by = w /\ s.pc = "saving"
    BY <2>1, NewSaveType, VersionFacts DEF TypeInv, AlertsFound
  <2>3. run \in InProgress /\ run.pc = "saving"
    BY <2>1 DEF InProgress
  <2>4. /\ saves' = saves \cup new
        /\ worker' = [worker EXCEPT ![w] = run]
        /\ UNCHANGED <<alert, listing, job, match, created, told, lost, late, switched,
                       changes, faults>>
    BY <1>4 DEF SearchAlerts, rows, bounds
  <2> HIDE DEF new, run
  <2>5. SavesOK' /\ worker' \in [Worker -> {Idle} \cup InProgress] /\ saves' \subseteq Save
    BY <1>1, <2>2, <2>3, <2>4 DEF TypeInv, TypeOK, SavesOK
  <2> QED
    BY <2>4, <2>5 DEF TypeInv, TypeOK, VersionBound
<1>5. CASE Prune(w)
  <2>1. worker[w] \in InProgress /\ Entity(w) \in Alert /\ Awaited(w) = {}
    BY <1>5, RunKind DEF TypeInv, Prune, At, Steps
  <2>2. worker' \in [Worker -> {Idle} \cup InProgress]
    BY <1>5, <2>1, DoneType DEF TypeInv, Prune, Steps
  <2>3. \A v \in Worker : v # w => worker'[v] = worker[v]
    BY <1>5 DEF Prune, Done, TypeInv, TypeOK
  <2>4. match' \in [Alert -> [Listing -> {NoRow} \cup MatchRow]]
    BY <1>5, <2>1 DEF Prune, TypeInv, TypeOK
  <2>5. late' \subseteq Alert \X Listing
    BY <1>5, <2>1 DEF Prune, Pruned, TypeInv, TypeOK
  <2>6. UNCHANGED <<alert, listing, job, created, saves, told, lost, switched, changes, faults>>
    BY <1>5 DEF Prune, bounds
  <2>7. SavesOK'
    BY <1>1, <2>1, <2>3, <2>6, StillAwaited DEF TypeInv
  <2> QED
    BY <2>2, <2>4, <2>5, <2>6, <2>7 DEF TypeInv, TypeOK, VersionBound
<1>6. CASE Complete(w) \/ Release(w)
  <2>1. PICK s \in {"COMPLETED", "PENDING"} : Settle(w, s)
    BY <1>6 DEF Complete, Release
  <2>2. worker[w].pc # "saving" \/ Awaited(w) = {}
    BY <1>6 DEF Complete, Release, At
  <2>3. /\ job' \in [Job -> {"ABSENT", "PENDING", "PROCESSING", "COMPLETED"}]
        /\ worker' \in [Worker -> {Idle} \cup InProgress]
        /\ \A v \in Worker : v # w => worker'[v] = worker[v]
        /\ UNCHANGED <<alert, listing, match, created, saves, told, lost, late, switched,
                       changes, faults>>
    BY <2>1 DEF Settle, rows, bounds, TypeInv, TypeOK
  <2>4. SavesOK'
    BY <1>1, <2>2, <2>3, StillAwaited DEF TypeInv
  <2> QED
    BY <2>3, <2>4 DEF TypeInv, TypeOK, VersionBound
<1>7. CASE RunFails(w)
  <2>1. worker[w] \in InProgress /\ (worker[w].pc # "saving" \/ Awaited(w) = {})
    BY <1>7, RunType DEF TypeInv, RunFails, At, Steps
  <2>2. worker' \in [Worker -> {Idle} \cup InProgress]
    BY <1>7, <2>1, DoneType DEF TypeInv, RunFails, Steps
  <2>3. /\ \A v \in Worker : v # w => worker'[v] = worker[v]
        /\ faults' \in Nat
        /\ UNCHANGED <<alert, listing, job, match, created, saves, told, lost, late, switched,
                       changes>>
    BY <1>7 DEF RunFails, Fault, Done, TypeInv, TypeOK, rows
  <2>4. SavesOK'
    BY <1>1, <2>1, <2>3, StillAwaited DEF TypeInv
  <2> QED
    BY <2>2, <2>3, <2>4 DEF TypeInv, TypeOK, VersionBound
<1> QED
  BY <1>2, <1>3, <1>4, <1>5, <1>6, <1>7 DEF Run

LEMMA ClaimTypes ==
    ASSUME TypeInv, NEW w \in Worker, NEW j \in Job, Claim(w, j)
    PROVE  TypeInv'
<1>1. [pc |-> "reading", job |-> j, content |-> Unread, kept |-> {},
       seen |-> [l \in Listing |-> 1]] \in InProgress
  BY FirstVersion DEF InProgress
<1>2. /\ job' \in [Job -> {"ABSENT", "PENDING", "PROCESSING", "COMPLETED"}]
      /\ worker' \in [Worker -> {Idle} \cup InProgress]
      /\ \A v \in Worker : v # w => worker'[v] = worker[v]
      /\ UNCHANGED <<alert, listing, match, created, saves, told, lost, late, switched,
                     changes, faults>>
  BY <1>1 DEF Claim, TypeInv, TypeOK, rows, bounds
<1>3. worker[w].pc # "saving"
  BY DEF Claim, Idle
<1>4. SavesOK'
  BY <1>2, <1>3, StillAwaited, SaveType DEF TypeInv
<1> QED
  BY <1>2, <1>4 DEF TypeInv, TypeOK, VersionBound

LEMMA CrashTypes ==
    ASSUME TypeInv, NEW w \in Worker, Crash(w)
    PROVE  TypeInv'
<1>1. /\ saves' = saves \ {s \in saves : s.by = w}
      /\ lost' = lost \cup {<<s.alert, s.listing, s.id>> :
                    s \in {x \in saves : x.by = w /\ x.pc \in {"telling", "returning"}}}
      /\ worker' = [worker EXCEPT ![w] = Idle]
      /\ faults' = faults + 1
      /\ UNCHANGED <<alert, listing, job, match, created, told, late, switched, changes>>
  BY DEF Crash, Fault, rows
<1>2. lost' \subseteq Alert \X Listing \X Nat
  BY <1>1, SaveType DEF TypeInv, TypeOK
<1>3. worker' \in [Worker -> {Idle} \cup InProgress]
  BY <1>1 DEF TypeInv, TypeOK
<1>4. SavesOK'
  BY <1>1 DEF TypeInv, TypeOK, SavesOK
<1>5. saves' \subseteq Save /\ faults' \in Nat
  BY <1>1 DEF TypeInv, TypeOK
<1> QED
  BY <1>1, <1>2, <1>3, <1>4, <1>5 DEF TypeInv, TypeOK, VersionBound

(* A save that throws leaves its run without saves to wait for. *)
LEMMA ThrowTypes ==
    ASSUME TypeInv, NEW s \in saves, SaveThrows(s)
    PROVE  TypeInv'
<1>1. /\ faults' = faults + 1 /\ faults' \in Nat
      /\ UNCHANGED <<alert, listing, job, match, created, told, late, switched, changes>>
  BY DEF SaveThrows, rows, TypeInv, TypeOK
<1>2. lost' \subseteq Alert \X Listing \X Nat
  <2>1. s.alert \in Alert /\ s.listing \in Listing /\ s.id \in Nat
    BY SaveType DEF TypeInv
  <2> QED
    BY <2>1 DEF SaveThrows, TypeInv, TypeOK
<1>3. /\ saves' \subseteq Save
      /\ SavesOK'
      /\ worker' \in [Worker -> {Idle} \cup InProgress]
  <2>1. CASE s.orphaned = 0
    <3>1. saves' = Orphaned(s, faults + 1) /\ Done(s.by, "releasing")
      BY <2>1 DEF SaveThrows
    <3>2. worker[s.by] \in InProgress /\ s.by \in Worker
      BY <2>1, SaveType, RunType DEF TypeInv, SavesOK, Steps
    <3>3. worker' \in [Worker -> {Idle} \cup InProgress]
      BY <3>1, <3>2, DoneType DEF TypeInv, Steps
    <3>4. \A v \in Worker : v # s.by => worker'[v] = worker[v]
      BY <3>1 DEF Done, TypeInv, TypeOK
    <3> QED
      BY <3>1, <3>3, <3>4, OrphanedType, SaveType DEF TypeInv, SavesOK
  <2>2. CASE s.orphaned # 0
    BY <2>2 DEF SaveThrows, TypeInv, TypeOK, SavesOK
  <2> QED
    BY <2>1, <2>2
<1> QED
  BY <1>1, <1>2, <1>3 DEF TypeInv, TypeOK, VersionBound

LEMMA ContinueKeeps ==
    ASSUME TypeInv, NEW s \in saves, NEW pc \in {"saving", "claiming", "telling", "returning"},
           s.pc # "saving", Continue(s, pc) \/ Return(s), UNCHANGED worker
    PROVE  saves' \subseteq Save /\ SavesOK'
<1>1. [s EXCEPT !.pc = pc] \in Save
  BY ContinueType DEF TypeInv
<1>2. /\ [s EXCEPT !.pc = pc].by = s.by /\ [s EXCEPT !.pc = pc].orphaned = s.orphaned
      /\ [s EXCEPT !.pc = pc].id = s.id
  BY SaveType DEF Save, TypeInv
<1> QED
  BY <1>1, <1>2 DEF Continue, Return, TypeInv, TypeOK, SavesOK

LEMMA UpsertedType ==
    ASSUME TypeOK, NEW s \in saves
    PROVE  /\ Upserted(s) \in MatchRow
           /\ RowOf(s) = NoRow => Upserted(s).id = created[s.alert][s.listing] + 1
                                  /\ Upserted(s).notified = FALSE
           /\ RowOf(s) # NoRow => Upserted(s).id = RowOf(s).id
                                  /\ Upserted(s).notified = RowOf(s).notified
           /\ Upserted(s).alertVersion = s.alertVersion
           /\ Upserted(s).listingVersion = s.listingVersion
<1>1. s.alert \in Alert /\ s.listing \in Listing
      /\ s.alertVersion \in Version /\ s.listingVersion \in Version
  BY SaveType
<1>2. created[s.alert][s.listing] + 1 \in Nat \ {0}
  BY <1>1, RowType
<1>3. RowOf(s) # NoRow => RowOf(s) \in MatchRow
  BY <1>1, RowType DEF RowOf
<1>4. NoRow.notified = FALSE
  BY DEF NoRow
<1>5. CASE RowOf(s) = NoRow
  <2>1. Upserted(s) = [id |-> created[s.alert][s.listing] + 1, alertVersion |-> s.alertVersion,
                       listingVersion |-> s.listingVersion, notified |-> FALSE,
                       status |-> "PENDING"]
    BY <1>4, <1>5 DEF Upserted
  <2> QED
    BY <1>1, <1>2, <1>5, <2>1 DEF MatchRow
<1>6. CASE RowOf(s) # NoRow
  <2>1. Upserted(s) = [id |-> RowOf(s).id, alertVersion |-> s.alertVersion,
                       listingVersion |-> s.listingVersion, notified |-> RowOf(s).notified,
                       status |-> RowOf(s).status]
    BY <1>6 DEF Upserted
  <2>2. RowOf(s).id \in Nat \ {0} /\ RowOf(s).notified \in BOOLEAN
        /\ RowOf(s).status \in {"PENDING", "VIEWED", "DISMISSED"}
    BY <1>3, <1>6 DEF MatchRow
  <2> QED
    BY <1>1, <1>6, <2>1, <2>2 DEF MatchRow
<1> QED
  BY <1>5, <1>6

LEMMA UpsertSaves ==
    ASSUME TypeOK, NEW s \in saves, Upsert(s)
    PROVE  \E x \in Save :
              /\ x.by = s.by /\ x.orphaned = s.orphaned /\ x.pc = "claiming"
              /\ x.id = Upserted(s).id
              /\ x.alert = s.alert /\ x.alertVersion = s.alertVersion
              /\ x.listing = s.listing /\ x.listingVersion = s.listingVersion
              /\ saves' \subseteq (saves \ {s}) \cup {x}
              /\ saves \ {s} \subseteq saves'
<1> DEFINE x == [s EXCEPT !.id = Upserted(s).id, !.pc = "claiming"]
<1>1. Upserted(s).id \in Nat
  BY UpsertedType DEF MatchRow
<1>2. /\ x \in Save
      /\ x.by = s.by /\ x.orphaned = s.orphaned /\ x.pc = "claiming"
      /\ x.id = Upserted(s).id
      /\ x.alert = s.alert /\ x.alertVersion = s.alertVersion
      /\ x.listing = s.listing /\ x.listingVersion = s.listingVersion
  BY <1>1, SaveType DEF Save
<1>3. saves' = (saves \ {s}) \cup (IF Upserted(s).notified THEN {} ELSE {x})
  BY DEF Upsert
<1> HIDE DEF x
<1> QED
  BY <1>2, <1>3

LEMMA SavingTypes ==
    ASSUME TypeInv, NEW s \in saves, Saving(s)
    PROVE  TypeInv'
<1>1. s.alert \in Alert /\ s.listing \in Listing /\ s.id \in Nat /\ s.by \in Worker
  BY SaveType DEF TypeInv
<1>2. CASE Upsert(s)
  <2>1. Upserted(s) \in MatchRow /\ Upserted(s).id \in Nat \ {0}
    BY UpsertedType DEF TypeInv, MatchRow
  <2>2. PICK x \in Save : /\ x.by = s.by /\ x.orphaned = s.orphaned /\ x.id = Upserted(s).id
                          /\ saves' \subseteq (saves \ {s}) \cup {x}
    BY <1>2, UpsertSaves DEF TypeInv
  <2>3. /\ match' = [match EXCEPT ![s.alert][s.listing] = Upserted(s)]
        /\ created' = [created EXCEPT ![s.alert][s.listing] =
                          IF RowOf(s) = NoRow THEN Upserted(s).id ELSE @]
        /\ told' = [told EXCEPT ![s.alert][s.listing] = IF RowOf(s) = NoRow THEN 0 ELSE @]
        /\ late' \subseteq late \cup {<<s.alert, s.listing>>}
        /\ UNCHANGED <<alert, listing, job, worker, lost, switched, changes, faults>>
    BY <1>2 DEF Upsert, bounds
  <2>4. match' \in [Alert -> [Listing -> {NoRow} \cup MatchRow]]
    BY <1>1, <2>1, <2>3 DEF TypeInv, TypeOK
  <2>5. created' \in [Alert -> [Listing -> Nat]] /\ told' \in [Alert -> [Listing -> Nat]]
    BY <1>1, <2>1, <2>3 DEF TypeInv, TypeOK
  <2>6. saves' \subseteq Save /\ SavesOK' /\ late' \subseteq Alert \X Listing
    BY <1>1, <2>1, <2>2, <2>3 DEF TypeInv, TypeOK, SavesOK
  <2> QED
    BY <2>3, <2>4, <2>5, <2>6 DEF TypeInv, TypeOK, VersionBound
<1>3. CASE ClaimNotice(s)
  <2>1. match' \in [Alert -> [Listing -> {NoRow} \cup MatchRow]]
    <3>1. CASE Claimable(s)
      <4>1. RowOf(s) \in MatchRow
        BY <1>1, <1>3, <3>1, RowType DEF RowOf, Claimable, ClaimNotice, TypeInv, SavesOK
      <4>2. [RowOf(s) EXCEPT !.notified = TRUE] \in MatchRow
        BY <4>1, RowUpdates
      <4>3. match' = [match EXCEPT ![s.alert][s.listing] = [RowOf(s) EXCEPT !.notified = TRUE]]
        BY <1>3, <3>1 DEF ClaimNotice, RowOf
      <4> QED
        BY <1>1, <4>2, <4>3 DEF TypeInv, TypeOK
    <3>2. CASE ~Claimable(s)
      BY <1>3, <3>2 DEF ClaimNotice, TypeInv, TypeOK
    <3> QED
      BY <3>1, <3>2
  <2>2. Continue(s, "telling") \/ Return(s)
    BY <1>3 DEF ClaimNotice
  <2>3. UNCHANGED <<alert, listing, job, created, worker, told, lost, late, switched, changes,
                    faults>>
    BY <1>3 DEF ClaimNotice, bounds
  <2>4. saves' \subseteq Save /\ SavesOK'
    BY <1>3, <2>2, <2>3, ContinueKeeps DEF ClaimNotice
  <2> QED
    BY <2>1, <2>3, <2>4 DEF TypeInv, TypeOK, VersionBound
<1>4. CASE Tell(s) \/ TellFails(s)
  <2>1. told' \in [Alert -> [Listing -> Nat]]
    <3>1. Count(s) \/ UNCHANGED told
      BY <1>4 DEF Tell, TellFails
    <3>2. told[s.alert][s.listing] \in Nat
      BY <1>1, RowType DEF TypeInv
    <3> DEFINE n == IF RowOf(s).id = s.id THEN told[s.alert][s.listing] + 1
                                          ELSE told[s.alert][s.listing]
    <3>3. n \in Nat
      BY <3>2
    <3>4. Count(s) => told' = [told EXCEPT ![s.alert][s.listing] = n]
      BY DEF Count
    <3> HIDE DEF n
    <3>5. CASE Count(s)
      <4>1. told' = [told EXCEPT ![s.alert][s.listing] = n]
        BY <3>4, <3>5
      <4>2. [told[s.alert] EXCEPT ![s.listing] = n] \in [Listing -> Nat]
        BY <1>1, <3>3 DEF TypeInv, TypeOK
      <4> QED
        BY <1>1, <4>1, <4>2 DEF TypeInv, TypeOK
    <3>6. CASE UNCHANGED told
      BY <3>6 DEF TypeInv, TypeOK
    <3> QED
      BY <3>1, <3>5, <3>6
  <2>2. Continue(s, "returning") \/ Return(s)
    BY <1>4 DEF Tell, TellFails
  <2>3. faults' \in Nat /\ s.pc = "telling"
    BY <1>4 DEF Tell, TellFails, Fault, bounds, TypeInv, TypeOK
  <2>4. UNCHANGED <<alert, listing, job, match, created, worker, lost, late, switched, changes>>
    BY <1>4 DEF Tell, TellFails, rows, bounds
  <2>5. saves' \subseteq Save /\ SavesOK'
    BY <2>2, <2>4, <2>3, ContinueKeeps
  <2> QED
    BY <2>1, <2>4, <2>5, <2>3 DEF TypeInv, TypeOK, VersionBound
<1>5. CASE GiveBack(s)
  <2>1. /\ match' = [match EXCEPT ![s.alert][s.listing] = [RowOf(s) EXCEPT !.notified = FALSE]]
        /\ told' = [told EXCEPT ![s.alert][s.listing] = 0]
        /\ UNCHANGED <<alert, listing, job, created, worker, lost, late, switched, changes,
                       faults>>
    BY <1>5 DEF GiveBack, RowOf, bounds
  <2>2. [RowOf(s) EXCEPT !.notified = FALSE] \in MatchRow
    <3>1. RowOf(s) \in MatchRow
      BY <1>1, <1>5, RowType DEF RowOf, GiveBack, TypeInv, SavesOK
    <3> QED
      BY <3>1, RowUpdates
  <2>3. match' \in [Alert -> [Listing -> {NoRow} \cup MatchRow]]
    BY <1>1, <2>1, <2>2 DEF TypeInv, TypeOK
  <2>4. told' \in [Alert -> [Listing -> Nat]]
    BY <1>1, <2>1 DEF TypeInv, TypeOK
  <2>5. saves' \subseteq Save /\ SavesOK'
    BY <1>5, <2>1, ContinueKeeps DEF GiveBack
  <2> QED
    BY <2>1, <2>3, <2>4, <2>5 DEF TypeInv, TypeOK, VersionBound
<1>6. CASE SaveImpossible(s) \/ SaveFails(s)
  BY <1>6, ThrowTypes DEF SaveImpossible, SaveFails
<1> QED
  BY <1>2, <1>3, <1>4, <1>5, <1>6 DEF Saving

LEMMA TypeKept == TypeInv /\ [Next]_vars => TypeInv'
<1> SUFFICES ASSUME TypeInv, [Next]_vars PROVE TypeInv'
    OBVIOUS
<1>1. CASE UNCHANGED vars
  BY <1>1 DEF vars, rows, bounds, TypeInv, TypeOK, VersionBound, SavesOK
<1> QED
  BY <1>1, PeopleType, ClaimTypes, RunTypes, CrashTypes, SavingTypes DEF Next

(* Rows, runs, saves and what is remembered of them keep their types.                 *)
THEOREM TypeInvariant == Spec => []TypeInv
<1>1. Init => TypeInv
  <2> SUFFICES ASSUME Init PROVE TypeInv
    OBVIOUS
  <2>1. alert \in [Alert -> AlertRow] /\ listing \in [Listing -> ListingRow]
    BY FirstVersion DEF Init, AlertRow, ListingRow
  <2>2. (\A a \in Alert : alert[a].version = 1) /\ (\A l \in Listing : listing[l].version = 1)
    BY DEF Init
  <2>3. changes \in 0..MaxChanges
    BY PairAlertsAssumption DEF Init
  <2> QED
    BY <2>1, <2>2, <2>3 DEF Init, TypeInv, TypeOK, VersionBound, SavesOK
<1> QED
  BY <1>1, TypeKept, PTL DEF Spec

(* Every variable keeps its type, for any number of alerts, listings and runs.         *)
THEOREM TypeCorrect == Spec => []TypeOK
<1>1. TypeInv => TypeOK
  BY DEF TypeInv
<1> QED
  BY <1>1, TypeInvariant, PTL

-----------------------------------------------------------------------------
(* What is shown fits.  Runs, saves and rows carry the versions of what they looked at:  *)
(* those are never ahead of the alert and the listing, and as long as they are the       *)
(* current ones, what was seen still holds.                                              *)
NowAt(j) == IF j.kind = "alert" THEN alert[j.id].version ELSE listing[j.id].version

JobsPast == \A j \in Job : job[j] # "ABSENT" => j.version <= NowAt(j)

RunsPast == \A w \in Worker : worker[w].pc \in Steps => worker[w].job.version <= NowAt(worker[w].job)

ReadIsCurrent ==
    \A w \in Worker : worker[w].pc = "searching" /\ worker[w].job.version = NowAt(worker[w].job) =>
        worker[w].content = IF OfAlert(w) THEN alert[Entity(w)].need ELSE listing[Entity(w)].offer

Seen(v, u, a, l) ==
    /\ v <= alert[a].version /\ u <= listing[l].version
    /\ v = alert[a].version /\ u = listing[l].version => FitsNow(a, l)

SavesSeen == \A s \in saves : Seen(s.alertVersion, s.listingVersion, s.alert, s.listing)

RowsSeen ==
    \A a \in Alert, l \in Listing : match[a][l] # NoRow =>
        Seen(match[a][l].alertVersion, match[a][l].listingVersion, a, l)

SnapshotInv == JobsPast /\ RunsPast /\ ReadIsCurrent /\ SavesSeen /\ RowsSeen

(* A step only raises versions, and changes what an alert asks for or a listing offers     *)
(* together with its version.                                                            *)
Forward ==
    /\ \A a \in Alert :
          /\ alert[a].version <= alert'[a].version
          /\ alert[a].version = alert'[a].version => alert'[a].need = alert[a].need
    /\ \A l \in Listing :
          /\ listing[l].version <= listing'[l].version
          /\ listing[l].version = listing'[l].version => listing'[l].offer = listing[l].offer

LEMMA OnlyPeople ==
    ASSUME [Next]_vars
    PROVE  \/ UNCHANGED <<alert, listing>>
           \/ \E a \in Alert : Create(a) \/ Update(a) \/ Remove(a)
           \/ \E l \in Listing : EditListing(l) \/ SwitchListing(l)
BY DEF Next, vars, Run, Saving, Mark, Backfill, Claim, Crash, Read, SearchListings, SearchAlerts,
   Prune, Complete, Release, Settle, RunFails, Upsert, ClaimNotice, Tell, TellFails, GiveBack,
   SaveImpossible, SaveFails, SaveThrows

LEMMA ForwardStep ==
    ASSUME TypeInv, [Next]_vars
    PROVE  Forward
<1>1. /\ \A a \in Alert : alert[a] \in AlertRow /\ alert[a].version \in Nat
      /\ \A l \in Listing : listing[l] \in ListingRow /\ listing[l].version \in Nat
  BY VersionFacts DEF TypeInv
<1>2. CASE UNCHANGED <<alert, listing>>
  BY <1>1, <1>2 DEF Forward
<1>3. ASSUME NEW a \in Alert, Create(a) \/ Remove(a)
      PROVE  Forward
  <2>1. PICK s \in {"ACTIVE", "DELETED"} : alert' = [alert EXCEPT ![a] = [alert[a] EXCEPT !.status = s]]
    BY <1>3 DEF Create, Remove
  <2>2. [alert[a] EXCEPT !.status = s].version = alert[a].version
        /\ [alert[a] EXCEPT !.status = s].need = alert[a].need
    BY <1>1 DEF AlertRow
  <2>3. UNCHANGED listing
    BY <1>3 DEF Create, Remove
  <2> QED
    BY <1>1, <2>1, <2>2, <2>3 DEF Forward, TypeInv, TypeOK
<1>4. ASSUME NEW a \in Alert, Update(a)
      PROVE  Forward
  <2>1. PICK s \in {"ACTIVE", "PAUSED", "ARCHIVED"}, n \in Need :
           alert' = [alert EXCEPT ![a] = Edited(a, s, n)]
    BY <1>4 DEF Update
  <2>2. Edited(a, s, n).version = alert[a].version + 1
    BY <1>1 DEF Edited, AlertRow
  <2>3. UNCHANGED listing
    BY <1>4 DEF Update
  <2> QED
    BY <1>1, <2>1, <2>2, <2>3 DEF Forward, TypeInv, TypeOK
<1>5. ASSUME NEW l \in Listing, EditListing(l)
      PROVE  Forward
  <2>1. PICK s \in {"ACTIVE", "OTHER"}, o \in Offer :
           listing' = [listing EXCEPT ![l] = [status |-> s, version |-> @.version + 1, offer |-> o]]
    BY <1>5 DEF EditListing
  <2>2. UNCHANGED alert
    BY <1>5 DEF EditListing
  <2> QED
    BY <1>1, <2>1, <2>2 DEF Forward, TypeInv, TypeOK
<1>6. ASSUME NEW l \in Listing, SwitchListing(l)
      PROVE  Forward
  <2>1. PICK s \in {"ACTIVE", "OTHER"}, raised \in {0, 1} :
           listing' = [listing EXCEPT ![l].status = s, ![l].version = @ + raised]
    BY <1>6 DEF SwitchListing
  <2> DEFINE r == [listing[l] EXCEPT !.status = s, !.version = listing[l].version + raised]
  <2>2. r.version = listing[l].version + raised /\ r.offer = listing[l].offer
    BY <1>1 DEF ListingRow
  <2>3. listing' = [listing EXCEPT ![l] = r]
    BY <2>1
  <2> HIDE DEF r
  <2>4. UNCHANGED alert
    BY <1>6 DEF SwitchListing
  <2> QED
    BY <1>1, <2>2, <2>3, <2>4 DEF Forward, TypeInv, TypeOK
<1> QED
  BY <1>2, <1>3, <1>4, <1>5, <1>6, OnlyPeople

(* What has been seen stays true of the versions it was seen at. *)
LEMMA SeenStays ==
    ASSUME Forward, TypeInv, TypeInv', NEW v \in Version, NEW u \in Version,
           NEW a \in Alert, NEW l \in Listing, Seen(v, u, a, l)
    PROVE  Seen(v, u, a, l)'
<1>1. /\ alert[a].version \in Nat /\ alert'[a].version \in Nat
      /\ listing[l].version \in Nat /\ listing'[l].version \in Nat
      /\ v \in Nat /\ u \in Nat
  <2>1. alert'[a].version \in Nat /\ listing'[l].version \in Nat
    BY DEF TypeInv, TypeOK, AlertRow, ListingRow, Version
  <2> QED
    BY <2>1, VersionFacts DEF TypeInv
<1> QED
  BY <1>1 DEF Seen, Forward, FitsNow

(* A search looks at the content its run has read, which is current if the version is.     *)
LEMMA SearchSees ==
    ASSUME TypeInv, SnapshotInv, NEW w \in Worker, SearchListings(w) \/ SearchAlerts(w),
           NEW x \in saves', x \notin saves
    PROVE  x \in Save /\ Seen(x.alertVersion, x.listingVersion, x.alert, x.listing)
<1>1. worker[w].pc = "searching" /\ worker[w].pc \in Steps
  BY DEF SearchListings, SearchAlerts, At, Steps
<1>2. worker[w].job.version \in Version /\ worker[w].job.version <= NowAt(worker[w].job)
  BY <1>1, RunKind DEF TypeInv, SnapshotInv, RunsPast
<1>3. CASE SearchListings(w)
  <2>1. OfAlert(w) /\ Entity(w) \in Alert /\ NowAt(worker[w].job) = alert[Entity(w)].version
    BY <1>1, <1>3, RunKind DEF SearchListings, TypeInv, NowAt, Entity
  <2>2. PICK l \in ListingsFound(Entity(w), worker[w].content) :
           x = NewSave(w, Entity(w), worker[w].job.version, l, listing[l].version)
    BY <1>3 DEF SearchListings
  <2>3. l \in Listing /\ Fit(worker[w].content, listing[l].offer)
    BY DEF ListingsFound
  <2>4. /\ x \in Save /\ x.alert = Entity(w) /\ x.listing = l
        /\ x.alertVersion = worker[w].job.version /\ x.listingVersion = listing[l].version
    BY <1>2, <2>1, <2>2, <2>3, NewSaveType, VersionFacts DEF TypeInv
  <2>5. worker[w].job.version = alert[Entity(w)].version
           => worker[w].content = alert[Entity(w)].need
    BY <1>1, <2>1 DEF SnapshotInv, ReadIsCurrent
  <2> QED
    BY <1>2, <2>1, <2>3, <2>4, <2>5, VersionFacts DEF Seen, FitsNow, TypeInv
<1>4. CASE SearchAlerts(w)
  <2>1. ~OfAlert(w) /\ Entity(w) \in Listing /\ NowAt(worker[w].job) = listing[Entity(w)].version
    BY <1>1, <1>4, RunKind DEF SearchAlerts, TypeInv, NowAt, Entity
  <2>2. PICK a \in AlertsFound(Entity(w), worker[w].content) :
           x = NewSave(w, a, alert[a].version, Entity(w), worker[w].job.version)
    BY <1>4 DEF SearchAlerts
  <2>3. a \in Alert /\ Fit(alert[a].need, worker[w].content)
    BY DEF AlertsFound
  <2>4. /\ x \in Save /\ x.alert = a /\ x.listing = Entity(w)
        /\ x.alertVersion = alert[a].version /\ x.listingVersion = worker[w].job.version
    BY <1>2, <2>1, <2>2, <2>3, NewSaveType, VersionFacts DEF TypeInv
  <2>5. worker[w].job.version = listing[Entity(w)].version
           => worker[w].content = listing[Entity(w)].offer
    BY <1>1, <2>1 DEF SnapshotInv, ReadIsCurrent
  <2> QED
    BY <1>2, <2>1, <2>3, <2>4, <2>5, VersionFacts DEF Seen, FitsNow, TypeInv
<1> QED
  BY <1>3, <1>4

SamePair(x, y) ==
    /\ x.alert = y.alert /\ x.listing = y.listing
    /\ x.alertVersion = y.alertVersion /\ x.listingVersion = y.listingVersion

(* Other steps start no save. *)
LEMMA SavesFrom ==
    ASSUME TypeInv, [Next]_vars, NEW x \in saves'
    PROVE  \/ \E s \in saves : SamePair(x, s)
           \/ x \notin saves /\ \E w \in Worker : SearchListings(w) \/ SearchAlerts(w)
<1>1. CASE saves' \subseteq saves
  BY <1>1 DEF SamePair
<1>2. ASSUME NEW w \in Worker, SearchListings(w) \/ SearchAlerts(w)
      PROVE  \/ \E s \in saves : SamePair(x, s)
             \/ x \notin saves /\ \E v \in Worker : SearchListings(v) \/ SearchAlerts(v)
  BY <1>2 DEF SamePair
<1>3. ASSUME NEW s \in saves, NEW pc \in {"telling", "returning"}, Continue(s, pc)
      PROVE  \E y \in saves : SamePair(x, y)
  <2>1. SamePair([s EXCEPT !.pc = pc], s)
    BY SaveType DEF TypeInv, Save, SamePair
  <2> QED
    BY <1>3, <2>1 DEF Continue, SamePair
<1>4. ASSUME NEW s \in saves, Upsert(s)
      PROVE  \E y \in saves : SamePair(x, y)
  BY <1>4, UpsertSaves DEF TypeInv, SamePair
<1>5. ASSUME NEW s \in saves, SaveThrows(s)
      PROVE  \E y \in saves : SamePair(x, y)
  BY <1>5, OrphanedType DEF TypeInv, SamePair, SaveThrows
<1>6. \/ saves' \subseteq saves
      \/ \E w \in Worker : SearchListings(w) \/ SearchAlerts(w)
      \/ \E s \in saves : \/ Upsert(s) \/ SaveThrows(s)
                          \/ Continue(s, "telling") \/ Continue(s, "returning")
  BY DEF Next, vars, Create, Update, Remove, EditListing, SwitchListing, Mark, Backfill, Claim,
     Run, Crash, Read, Prune, Complete, Release, Settle, RunFails, Saving, ClaimNotice, Tell,
     TellFails, GiveBack, SaveImpossible, SaveFails, Return
<1> QED
  BY <1>1, <1>2, <1>3, <1>4, <1>5, <1>6

(* A row has the versions it had, or those of the save that has just written it.            *)
LEMMA RowsFrom ==
    ASSUME TypeInv, [Next]_vars, NEW a \in Alert, NEW l \in Listing, match'[a][l] # NoRow
    PROVE  \/ /\ match[a][l] # NoRow
              /\ match'[a][l].alertVersion = match[a][l].alertVersion
              /\ match'[a][l].listingVersion = match[a][l].listingVersion
           \/ \E s \in saves : /\ s.alert = a /\ s.listing = l
                               /\ match'[a][l].alertVersion = s.alertVersion
                               /\ match'[a][l].listingVersion = s.listingVersion
<1>1. CASE match'[a][l] = match[a][l]
  BY <1>1
<1>2. ASSUME NEW b \in Alert, NEW k \in Listing, NEW s \in Marks, Mark(b, k, s)
      PROVE  match[a][l] # NoRow /\ match'[a][l].alertVersion = match[a][l].alertVersion
             /\ match'[a][l].listingVersion = match[a][l].listingVersion
  <2>1. match[b][k] \in MatchRow /\ s \in {"PENDING", "VIEWED", "DISMISSED"}
    BY <1>2, RowType, PairAlertsAssumption DEF Mark, TypeInv
  <2>2. [match[b][k] EXCEPT !.status = s].alertVersion = match[b][k].alertVersion
        /\ [match[b][k] EXCEPT !.status = s].listingVersion = match[b][k].listingVersion
    BY <2>1 DEF MatchRow
  <2>3. match' = [match EXCEPT ![b][k] = [match[b][k] EXCEPT !.status = s]]
    BY <1>2 DEF Mark
  <2>4. match'[a][l] = IF a = b /\ l = k THEN [match[b][k] EXCEPT !.status = s] ELSE match[a][l]
    BY <2>3 DEF TypeInv, TypeOK
  <2> QED
    BY <1>2, <2>2, <2>4 DEF Mark
<1>3. ASSUME NEW s \in saves, Upsert(s), match'[a][l] # match[a][l]
      PROVE  /\ s.alert = a /\ s.listing = l
             /\ match'[a][l].alertVersion = s.alertVersion
             /\ match'[a][l].listingVersion = s.listingVersion
  <2>1. match' = [match EXCEPT ![s.alert][s.listing] = Upserted(s)]
    BY <1>3 DEF Upsert
  <2>2. s.alert \in Alert /\ s.listing \in Listing
    BY SaveType DEF TypeInv
  <2>3. match'[a][l] = IF a = s.alert /\ l = s.listing THEN Upserted(s) ELSE match[a][l]
    BY <2>1, <2>2 DEF TypeInv, TypeOK
  <2> QED
    BY <1>3, <2>3, UpsertedType DEF TypeInv
<1>4. ASSUME NEW s \in saves, ClaimNotice(s) \/ GiveBack(s)
      PROVE  \/ match'[a][l] = match[a][l]
             \/ /\ match[a][l] # NoRow
                /\ match'[a][l].alertVersion = match[a][l].alertVersion
                /\ match'[a][l].listingVersion = match[a][l].listingVersion
  <2>1. CASE UNCHANGED match
    BY <2>1
  <2>2. CASE ~UNCHANGED match
    <3>1. /\ s.pc # "saving" /\ RowOf(s).id = s.id
          /\ \E n \in BOOLEAN :
                match' = [match EXCEPT ![s.alert][s.listing] = [RowOf(s) EXCEPT !.notified = n]]
      BY <1>4, <2>2 DEF ClaimNotice, GiveBack, Claimable, RowOf
    <3>2. s.alert \in Alert /\ s.listing \in Listing /\ s.id # 0
      BY <3>1, SaveType DEF TypeInv, SavesOK
    <3>3. RowOf(s) \in MatchRow /\ RowOf(s) # NoRow
      BY <3>1, <3>2, RowType DEF TypeInv, RowOf
    <3>4. PICK n \in BOOLEAN :
             match' = [match EXCEPT ![s.alert][s.listing] = [RowOf(s) EXCEPT !.notified = n]]
      BY <3>1
    <3>5. /\ [RowOf(s) EXCEPT !.notified = n].alertVersion = RowOf(s).alertVersion
          /\ [RowOf(s) EXCEPT !.notified = n].listingVersion = RowOf(s).listingVersion
      BY <3>3 DEF MatchRow
    <3>6. match'[a][l] = IF a = s.alert /\ l = s.listing THEN [RowOf(s) EXCEPT !.notified = n]
                                                         ELSE match[a][l]
      BY <3>2, <3>4 DEF TypeInv, TypeOK
    <3> QED
      BY <3>3, <3>5, <3>6 DEF RowOf
  <2> QED
    BY <2>1, <2>2
<1>5. \/ match'[a][l] = match[a][l]
      \/ \E b \in Alert, k \in Listing, s \in Marks : Mark(b, k, s)
      \/ \E s \in saves : Upsert(s) \/ ClaimNotice(s) \/ GiveBack(s)
  <2>1. ASSUME NEW b \in Alert, Remove(b)
        PROVE  match'[a][l] = match[a][l]
    BY <2>1 DEF Remove, TypeInv, TypeOK
  <2>2. ASSUME NEW w \in Worker, Prune(w)
        PROVE  match'[a][l] = match[a][l]
    BY <2>2 DEF Prune, TypeInv, TypeOK
  <2>3. \/ UNCHANGED match
        \/ \E b \in Alert : Remove(b)
        \/ \E w \in Worker : Prune(w)
        \/ \E b \in Alert, k \in Listing, s \in Marks : Mark(b, k, s)
        \/ \E s \in saves : Upsert(s) \/ ClaimNotice(s) \/ GiveBack(s)
    BY DEF Next, vars, rows, Create, Update, EditListing, SwitchListing, Backfill, Claim,
       Run, Crash, Read, SearchListings, SearchAlerts, Complete, Release, Settle, RunFails,
       Saving, Tell, TellFails, SaveImpossible, SaveFails, SaveThrows
  <2> QED
    BY <2>1, <2>2, <2>3
<1> QED
  BY <1>1, <1>2, <1>3, <1>4, <1>5

(* A job is queued for the version its entity has. *)
LEMMA JobsFrom ==
    ASSUME TypeInv, [Next]_vars, NEW j \in Job, job'[j] # "ABSENT", job[j] = "ABSENT"
    PROVE  j.version <= NowAt(j)'
<1>1. \A kind, x, v : /\ JobOf(kind, x, v).kind = kind /\ JobOf(kind, x, v).id = x
                      /\ JobOf(kind, x, v).version = v
  BY DEF JobOf
<1>2. \A i : Enqueue(i) => i = j
  BY DEF Enqueue, TypeInv, TypeOK
<1>3. /\ \A a \in Alert : alert[a] \in AlertRow /\ alert[a].version \in Nat /\ alert[a].version >= 1
      /\ \A l \in Listing : listing[l] \in ListingRow /\ listing[l].version \in Nat
  BY VersionFacts DEF TypeInv, Version
<1>4. ASSUME NEW a \in Alert, Create(a)
      PROVE  j.version <= NowAt(j)'
  <2>1. j = JobOf("alert", a, 1)
    BY <1>2, <1>4 DEF Create
  <2>2. alert'[a].version = alert[a].version
    <3>1. [alert[a] EXCEPT !.status = "ACTIVE"].version = alert[a].version
      BY <1>3 DEF AlertRow
    <3> QED
      BY <1>4, <3>1 DEF Create, TypeInv, TypeOK
  <2> QED
    BY <1>1, <1>3, <2>1, <2>2 DEF NowAt
<1>5. ASSUME NEW a \in Alert, Update(a)
      PROVE  j.version <= NowAt(j)'
  <2>1. j = JobOf("alert", a, alert'[a].version)
    BY <1>2, <1>5 DEF Update
  <2>2. alert'[a].version \in Nat
    <3>1. alert' \in [Alert -> AlertRow]
      <4>1. TypeInv'
        BY <1>5, PeopleType
      <4> QED
        BY <4>1 DEF TypeInv, TypeOK
    <3> QED
      BY <3>1 DEF AlertRow, Version
  <2> QED
    BY <1>1, <2>1, <2>2 DEF NowAt
<1>6. ASSUME NEW l \in Listing, EditListing(l)
      PROVE  j.version <= NowAt(j)'
  <2>1. j = JobOf("listing", l, listing[l].version + 1)
    BY <1>2, <1>6 DEF EditListing
  <2>2. listing'[l].version = listing[l].version + 1
    BY <1>6 DEF EditListing, TypeInv, TypeOK
  <2> QED
    BY <1>1, <1>3, <2>1, <2>2 DEF NowAt
<1>7. ASSUME NEW l \in Listing, Backfill(l)
      PROVE  j.version <= NowAt(j)'
  <2>1. j = JobOf("listing", l, listing[l].version) /\ UNCHANGED listing
    BY <1>2, <1>7 DEF Backfill
  <2> QED
    BY <1>1, <1>3, <2>1 DEF NowAt
<1>8. \/ \E a \in Alert : Create(a) \/ Update(a)
      \/ \E l \in Listing : EditListing(l) \/ Backfill(l)
  <2>1. ASSUME NEW w \in Worker, NEW i \in Job, Claim(w, i)
        PROVE  FALSE
    BY <2>1 DEF Claim, TypeInv, TypeOK
  <2>2. ASSUME NEW w \in Worker, Complete(w) \/ Release(w)
        PROVE  FALSE
    BY <2>2 DEF Complete, Release, Settle, TypeInv, TypeOK
  <2>3. ~UNCHANGED job
    OBVIOUS
  <2> QED
    BY <2>1, <2>2, <2>3 DEF Next, vars, rows, Remove, SwitchListing, Mark,
       Run, Crash, Read, SearchListings, SearchAlerts, Prune, RunFails,
       Saving, Upsert, ClaimNotice, Tell, TellFails, GiveBack, SaveImpossible, SaveFails,
       SaveThrows
<1> QED
  BY <1>4, <1>5, <1>6, <1>7, <1>8

(* A run keeps its job; what it has read it keeps until it has searched.                     *)
LEMMA RunsFrom ==
    ASSUME TypeInv, [Next]_vars, NEW w \in Worker, worker'[w].pc \in Steps
    PROVE  \/ /\ worker[w].pc \in Steps /\ worker'[w].job = worker[w].job
              /\ worker'[w].pc = "searching" =>
                    \/ worker[w].pc = "searching" /\ worker'[w].content = worker[w].content
                    \/ /\ worker'[w].content = IF OfAlert(w) THEN alert[Entity(w)].need
                                               ELSE listing[Entity(w)].offer
                       /\ UNCHANGED <<alert, listing>>
           \/ /\ worker'[w].pc = "reading" /\ worker'[w].job \in Job
              /\ job[worker'[w].job] # "ABSENT"
<1>1. CASE worker'[w] = worker[w]
  BY <1>1
<1>2. ASSUME NEW j \in Job, Claim(w, j)
      PROVE  /\ worker'[w].pc = "reading" /\ worker'[w].job \in Job
             /\ job[worker'[w].job] # "ABSENT"
  BY <1>2 DEF Claim, TypeInv, TypeOK
<1>3. ASSUME NEW pc \in Steps \ {"searching"}, Done(w, pc), worker[w].pc \in Steps
      PROVE  worker'[w].job = worker[w].job /\ worker'[w].pc # "searching"
  BY <1>3 DEF Done, TypeInv, TypeOK
<1>4. CASE Read(w)
  <2>1. worker[w].pc \in Steps /\ worker[w] \in InProgress
    BY <1>4, RunType DEF Read, At, Steps, TypeInv
  <2>2. CASE Current(worker[w].job)
    <3> DEFINE c == IF OfAlert(w) THEN alert[Entity(w)].need ELSE listing[Entity(w)].offer
    <3>1. worker' = [worker EXCEPT ![w] = [worker[w] EXCEPT !.pc = "searching", !.content = c]]
      BY <1>4, <2>2 DEF Read
    <3>2. /\ [worker[w] EXCEPT !.pc = "searching", !.content = c].job = worker[w].job
          /\ [worker[w] EXCEPT !.pc = "searching", !.content = c].content = c
      BY <2>1 DEF InProgress
    <3>3. UNCHANGED <<alert, listing>>
      BY <1>4 DEF Read
    <3> HIDE DEF c
    <3>4. worker'[w].job = worker[w].job /\ worker'[w].content = c
      BY <3>1, <3>2 DEF TypeInv, TypeOK
    <3> QED
      BY <2>1, <3>3, <3>4 DEF c
  <2>3. CASE ~Current(worker[w].job)
    <3>1. worker' = [worker EXCEPT ![w] = [worker[w] EXCEPT !.pc = "completing"]]
      BY <1>4, <2>3 DEF Read, Goto
    <3>2. /\ [worker[w] EXCEPT !.pc = "completing"].job = worker[w].job
          /\ [worker[w] EXCEPT !.pc = "completing"].pc = "completing"
      BY <2>1 DEF InProgress
    <3> QED
      BY <2>1, <3>1, <3>2 DEF TypeInv, TypeOK
  <2> QED
    BY <2>2, <2>3
<1>5. CASE SearchListings(w) \/ SearchAlerts(w)
  <2>1. worker[w].pc \in Steps /\ worker[w] \in InProgress
    BY <1>5, RunType DEF SearchListings, SearchAlerts, At, Steps, TypeInv
  <2>2. worker'[w].job = worker[w].job /\ worker'[w].pc = "saving"
    BY <1>5, <2>1 DEF SearchListings, SearchAlerts, TypeInv, TypeOK, InProgress
  <2> QED
    BY <2>1, <2>2
<1>6. CASE Prune(w) \/ RunFails(w)
  <2>1. worker[w].pc \in Steps /\ (Done(w, "completing") \/ Done(w, "releasing"))
    BY <1>6 DEF Prune, RunFails, At, Steps
  <2> QED
    BY <1>3, <2>1 DEF Steps
<1>7. ASSUME NEW s \in saves, SaveThrows(s)
      PROVE  \/ worker'[w] = worker[w]
             \/ /\ worker[w].pc \in Steps /\ worker'[w].job = worker[w].job
                /\ worker'[w].pc # "searching"
  <2>1. CASE s.orphaned = 0 /\ s.by = w
    <3>1. worker[w].pc \in Steps /\ Done(w, "releasing")
      BY <1>7, <2>1 DEF SaveThrows, TypeInv, SavesOK, Steps
    <3> QED
      BY <1>3, <3>1 DEF Steps
  <2>2. CASE ~(s.orphaned = 0 /\ s.by = w)
    BY <1>7, <2>2 DEF SaveThrows, Done, TypeInv, TypeOK
  <2> QED
    BY <2>1, <2>2
<1>8. \/ worker'[w] = worker[w]
      \/ \E j \in Job : Claim(w, j)
      \/ Read(w) \/ SearchListings(w) \/ SearchAlerts(w) \/ Prune(w) \/ RunFails(w)
      \/ \E s \in saves : SaveThrows(s)
  <2>1. ASSUME NEW v \in Worker, Complete(v) \/ Release(v) \/ Crash(v)
        PROVE  worker'[w] = worker[w]
    <3>1. worker' = [worker EXCEPT ![v] = Idle]
      BY <2>1 DEF Complete, Release, Settle, Crash
    <3> QED
      BY <3>1 DEF TypeInv, TypeOK, Steps, Idle
  <2>2. ASSUME NEW v \in Worker, v # w,
               \/ \E j \in Job : Claim(v, j)
               \/ Read(v) \/ SearchListings(v) \/ SearchAlerts(v) \/ Prune(v) \/ RunFails(v)
        PROVE  worker'[w] = worker[w]
    BY <2>2 DEF Claim, Read, Goto, SearchListings, SearchAlerts, Prune, RunFails, Done,
       TypeInv, TypeOK
  <2>3. \/ UNCHANGED worker
        \/ \E v \in Worker, j \in Job : Claim(v, j)
        \/ \E v \in Worker : Run(v) \/ Crash(v)
        \/ \E s \in saves : SaveThrows(s)
    BY DEF Next, vars, Create, Update, Remove, EditListing, SwitchListing, Mark, Backfill,
       Saving, Upsert, ClaimNotice, Tell, TellFails, GiveBack, SaveImpossible, SaveFails
  <2> QED
    BY <2>1, <2>2, <2>3 DEF Run
<1> QED
  BY <1>1, <1>2, <1>4, <1>5, <1>6, <1>7, <1>8

LEMMA SnapshotStep ==
    ASSUME TypeInv, TypeInv', SnapshotInv, [Next]_vars
    PROVE  SnapshotInv'
<1>1. Forward
  BY ForwardStep
<1>2. ASSUME NEW j \in Job
      PROVE  /\ j.version \in Nat /\ NowAt(j) \in Nat /\ NowAt(j)' \in Nat
             /\ NowAt(j) <= NowAt(j)'
             /\ NowAt(j) = NowAt(j)' /\ j.kind = "alert" => alert'[j.id].need = alert[j.id].need
             /\ NowAt(j) = NowAt(j)' /\ j.kind # "alert" => listing'[j.id].offer = listing[j.id].offer
  <2>1. /\ \A a \in Alert : alert[a].version \in Nat /\ alert'[a].version \in Nat
        /\ \A l \in Listing : listing[l].version \in Nat /\ listing'[l].version \in Nat
    BY VersionFacts DEF TypeInv, TypeOK, AlertRow, ListingRow, Version
  <2> QED
    BY <1>1, <2>1, JobType, VersionFacts DEF Forward, NowAt, TypeInv
<1>3. JobsPast'
  <2> SUFFICES ASSUME NEW j \in Job, job'[j] # "ABSENT"
               PROVE  j.version <= NowAt(j)'
    BY DEF JobsPast, NowAt
  <2>1. CASE job[j] = "ABSENT"
    BY <2>1, JobsFrom
  <2>2. CASE job[j] # "ABSENT"
    BY <1>2, <2>2 DEF SnapshotInv, JobsPast
  <2> QED
    BY <2>1, <2>2
<1>4. ASSUME NEW w \in Worker, worker'[w].pc \in Steps, NEW j \in Job, worker'[w].job = j
      PROVE  /\ j.version <= NowAt(j)'
             /\ worker'[w].pc = "searching" /\ j.version = NowAt(j)' =>
                   worker'[w].content = IF j.kind = "alert" THEN alert'[j.id].need
                                        ELSE listing'[j.id].offer
  <2>1. CASE worker'[w].pc = "reading" /\ job[j] # "ABSENT"
    <3>1. j.version <= NowAt(j)
      BY <2>1 DEF SnapshotInv, JobsPast
    <3> QED
      BY <1>2, <2>1, <3>1
  <2>2. CASE /\ worker[w].pc \in Steps /\ worker[w].job = j
             /\ worker'[w].pc = "searching" =>
                    \/ worker[w].pc = "searching" /\ worker'[w].content = worker[w].content
                    \/ /\ worker'[w].content = IF OfAlert(w) THEN alert[Entity(w)].need
                                               ELSE listing[Entity(w)].offer
                       /\ UNCHANGED <<alert, listing>>
    <3>1. j.version <= NowAt(j)
      BY <2>2 DEF SnapshotInv, RunsPast
    <3>2. (OfAlert(w) <=> j.kind = "alert") /\ Entity(w) = j.id
      BY <2>2, RunType DEF OfAlert, Entity, TypeInv
    <3>3. worker[w].pc = "searching" /\ j.version = NowAt(j) =>
             worker[w].content = IF j.kind = "alert" THEN alert[j.id].need ELSE listing[j.id].offer
      BY <2>2, <3>2 DEF SnapshotInv, ReadIsCurrent
    <3>4. /\ j.version <= NowAt(j)'
          /\ j.version = NowAt(j)' => j.version = NowAt(j) /\ NowAt(j) = NowAt(j)'
      BY <1>2, <3>1
    <3>5. ASSUME worker'[w].pc = "searching", j.version = NowAt(j)'
          PROVE  worker'[w].content = IF j.kind = "alert" THEN alert'[j.id].need
                                      ELSE listing'[j.id].offer
      <4>1. CASE worker[w].pc = "searching" /\ worker'[w].content = worker[w].content
        BY <1>2, <3>3, <3>4, <3>5, <4>1
      <4>2. CASE /\ worker'[w].content = IF OfAlert(w) THEN alert[Entity(w)].need
                                         ELSE listing[Entity(w)].offer
                 /\ UNCHANGED <<alert, listing>>
        BY <3>2, <4>2
      <4> QED
        BY <2>2, <3>5, <4>1, <4>2
    <3> QED
      BY <3>4, <3>5
  <2> QED
    BY <1>4, <2>1, <2>2, RunsFrom
<1>5. RunsPast' /\ ReadIsCurrent'
  <2> SUFFICES ASSUME NEW w \in Worker, worker'[w].pc \in Steps
               PROVE  /\ worker'[w].job.version <= (NowAt(worker[w].job))'
                      /\ worker'[w].pc = "searching"
                            /\ worker'[w].job.version = (NowAt(worker[w].job))' =>
                            worker'[w].content = (IF OfAlert(w) THEN alert[Entity(w)].need
                                                  ELSE listing[Entity(w)].offer)'
    BY DEF RunsPast, ReadIsCurrent, Steps
  <2>1. worker'[w] \in InProgress /\ worker'[w] # Idle
    BY DEF TypeInv, TypeOK, Idle, Steps, InProgress
  <2>2. PICK j \in Job : j = worker'[w].job
    BY <2>1 DEF InProgress
  <2>3. (OfAlert(w)' <=> j.kind = "alert") /\ Entity(w)' = j.id
    BY <2>1, <2>2 DEF OfAlert, Entity
  <2>4. (NowAt(worker[w].job))' = NowAt(j)'
    BY <2>2 DEF NowAt
  <2> QED
    BY <1>4, <2>2, <2>3, <2>4
<1>6. SavesSeen'
  <2> SUFFICES ASSUME NEW x \in saves'
               PROVE  Seen(x.alertVersion, x.listingVersion, x.alert, x.listing)'
    BY DEF SavesSeen
  <2>1. ASSUME NEW s \in saves, SamePair(x, s)
        PROVE  Seen(x.alertVersion, x.listingVersion, x.alert, x.listing)'
    <3>1. Seen(s.alertVersion, s.listingVersion, s.alert, s.listing)'
      BY <1>1, SeenStays, SaveType DEF TypeInv, SnapshotInv, SavesSeen
    <3> QED
      BY <2>1, <3>1 DEF SamePair, Seen
  <2>2. ASSUME x \notin saves, NEW w \in Worker, SearchListings(w) \/ SearchAlerts(w)
        PROVE  Seen(x.alertVersion, x.listingVersion, x.alert, x.listing)'
    <3>1. Seen(x.alertVersion, x.listingVersion, x.alert, x.listing) /\ UNCHANGED <<alert, listing>>
      BY <2>2, SearchSees DEF SearchListings, SearchAlerts
    <3> QED
      BY <3>1 DEF Seen, FitsNow
  <2> QED
    BY <2>1, <2>2, SavesFrom
<1>7. RowsSeen'
  <2> SUFFICES ASSUME NEW a \in Alert, NEW l \in Listing, match'[a][l] # NoRow
               PROVE  Seen(match[a][l].alertVersion, match[a][l].listingVersion, a, l)'
    BY DEF RowsSeen
  <2>1. PICK v \in Version, u \in Version :
           /\ Seen(v, u, a, l)
           /\ match'[a][l].alertVersion = v /\ match'[a][l].listingVersion = u
    <3>1. CASE /\ match[a][l] # NoRow
               /\ match'[a][l].alertVersion = match[a][l].alertVersion
               /\ match'[a][l].listingVersion = match[a][l].listingVersion
      <4>1. match[a][l].alertVersion \in Version /\ match[a][l].listingVersion \in Version
        BY <3>1, RowType DEF TypeInv, MatchRow
      <4> QED
        BY <3>1, <4>1 DEF SnapshotInv, RowsSeen
    <3>2. ASSUME NEW s \in saves, s.alert = a, s.listing = l,
                 match'[a][l].alertVersion = s.alertVersion,
                 match'[a][l].listingVersion = s.listingVersion
          PROVE  \E v \in Version, u \in Version :
                   /\ Seen(v, u, a, l)
                   /\ match'[a][l].alertVersion = v /\ match'[a][l].listingVersion = u
      BY <3>2, SaveType DEF TypeInv, SnapshotInv, SavesSeen
    <3> QED
      BY <3>1, <3>2, RowsFrom
  <2>2. Seen(v, u, a, l)'
    BY <1>1, <2>1, SeenStays
  <2> QED
    BY <2>1, <2>2
<1> QED
  BY <1>3, <1>5, <1>6, <1>7 DEF SnapshotInv

(* Jobs, runs, saves and rows never carry a version that has yet to come, and what was   *)
(* seen of versions that are still current still holds.                                   *)
THEOREM SnapshotInvariant == Spec => []SnapshotInv
<1>1. Init => SnapshotInv
  <2> SUFFICES ASSUME Init PROVE SnapshotInv
    OBVIOUS
  <2>1. JobsPast
    BY JobType DEF Init, JobsPast, NowAt
  <2>2. RunsPast /\ ReadIsCurrent /\ SavesSeen /\ RowsSeen
    BY DEF Init, RunsPast, ReadIsCurrent, SavesSeen, RowsSeen, Idle, Steps
  <2> QED
    BY <2>1, <2>2 DEF SnapshotInv
<1>2. TypeInv /\ TypeInv' /\ SnapshotInv /\ [Next]_vars => SnapshotInv'
  BY SnapshotStep
<1> QED
  BY <1>1, <1>2, TypeInvariant, PTL DEF Spec

(* A listing shown under an alert fits what both say now, whatever was edited while the   *)
(* run that found it was under way.                                                       *)
THEOREM AlertsFit == Spec => []ShownAlertsFit
<1>1. SnapshotInv => ShownAlertsFit
  BY DEF SnapshotInv, RowsSeen, Seen, ShownAlertsFit, Shown
<1> QED
  BY <1>1, SnapshotInvariant, PTL

-----------------------------------------------------------------------------
(* Notices.  Rows of a pair and the saves that have written them are numbered; a row has   *)
(* at most one teller, the call that claimed it, and until that call has told anybody the   *)
(* row counts no notice.                                                                   *)
Teller(s, a, l) == s.alert = a /\ s.listing = l /\ s.pc \in {"telling", "returning"}

Numbered(a, l) ==
    /\ match[a][l].id <= created[a][l]
    /\ \A s \in saves : s.alert = a /\ s.listing = l => s.id <= created[a][l]

OneTeller(a, l) ==
    \A s, t \in saves : Teller(s, a, l) /\ Teller(t, a, l) /\ s.id = t.id => s = t

TellerHoldsClaim(a, l) ==
    \A s \in saves : Teller(s, a, l) /\ s.id = match[a][l].id =>
        match[a][l].notified /\ (s.pc = "telling" => told[a][l] = 0)

UnclaimedIsUntold(a, l) ==
    match[a][l].id # 0 /\ ~match[a][l].notified => told[a][l] = 0

Accounted(a, l) ==
    match[a][l].notified =>
        \/ told[a][l] > 0
        \/ <<a, l, match[a][l].id>> \in lost
        \/ \E s \in saves : Teller(s, a, l) /\ s.id = match[a][l].id

NoticeOf(a, l) ==
    /\ Numbered(a, l) /\ OneTeller(a, l)
    /\ TellerHoldsClaim(a, l) /\ UnclaimedIsUntold(a, l)
    /\ told[a][l] <= 1 /\ Accounted(a, l)

NoticeInv == \A a \in Alert, l \in Listing : NoticeOf(a, l)

SameProgress(x, y) ==
    x.alert = y.alert /\ x.listing = y.listing /\ x.id = y.id /\ x.pc = y.pc

(* Steps that neither tell, claim nor give back: saves begin, end or go on as they were,   *)
(* and rows stay or go.                                                                   *)
LEMMA NoticeFrame ==
    ASSUME TypeInv, NEW a \in Alert, NEW l \in Listing, NoticeOf(a, l),
           told'[a][l] = told[a][l], created'[a][l] = created[a][l], lost \subseteq lost',
           \/ match'[a][l] = NoRow
           \/ /\ match'[a][l].id = match[a][l].id
              /\ match'[a][l].notified = match[a][l].notified,
           \A x \in saves' : x.alert = a /\ x.listing = l =>
               \/ x.pc = "saving" /\ x.id = 0
               \/ \E y \in saves : SameProgress(x, y),
           OneTeller(a, l)',
           \A y \in saves : Teller(y, a, l) =>
               \/ <<a, l, y.id>> \in lost'
               \/ \E x \in saves' : SameProgress(x, y)
    PROVE  NoticeOf(a, l)'
<1>1. /\ match[a][l].id \in Nat /\ created[a][l] \in Nat
      /\ NoRow.id = 0 /\ NoRow.notified = FALSE
  BY RowType DEF TypeInv, NoRow
<1>2. \A y \in saves : Teller(y, a, l) => y.id # 0
  BY DEF TypeInv, SavesOK, Teller
<1>3. Numbered(a, l)'
  BY <1>1 DEF NoticeOf, Numbered, SameProgress
<1>4. TellerHoldsClaim(a, l)'
  <2> SUFFICES ASSUME NEW x \in saves', Teller(x, a, l), x.id = match'[a][l].id
               PROVE  match'[a][l].notified /\ (x.pc = "telling" => told'[a][l] = 0)
      BY DEF TellerHoldsClaim, Teller
  <2>1. PICK y \in saves : SameProgress(x, y)
      BY DEF Teller
  <2>2. Teller(y, a, l) /\ y.id = x.id /\ y.pc = x.pc
      BY <2>1 DEF SameProgress, Teller
  <2>3. match'[a][l].id = match[a][l].id /\ match'[a][l].notified = match[a][l].notified
      BY <1>1, <1>2, <2>2
  <2> QED
      BY <2>2, <2>3 DEF NoticeOf, TellerHoldsClaim
<1>5. UnclaimedIsUntold(a, l)'
  BY <1>1 DEF NoticeOf, UnclaimedIsUntold
<1>6. Accounted(a, l)'
  <2> SUFFICES ASSUME match'[a][l].notified
               PROVE  \/ told'[a][l] > 0
                      \/ <<a, l, match'[a][l].id>> \in lost'
                      \/ \E x \in saves' : Teller(x, a, l) /\ x.id = match'[a][l].id
      BY DEF Accounted, Teller
  <2>1. match'[a][l].id = match[a][l].id /\ match[a][l].notified
      BY <1>1
  <2>2. CASE told[a][l] > 0 \/ <<a, l, match[a][l].id>> \in lost
      BY <2>1, <2>2
  <2>3. ASSUME NEW y \in saves, Teller(y, a, l), y.id = match[a][l].id
        PROVE  \/ <<a, l, match'[a][l].id>> \in lost'
               \/ \E x \in saves' : Teller(x, a, l) /\ x.id = match'[a][l].id
      BY <2>1, <2>3 DEF SameProgress, Teller
  <2> QED
      BY <2>1, <2>2, <2>3 DEF NoticeOf, Accounted
<1> QED
  BY <1>3, <1>4, <1>5, <1>6 DEF NoticeOf

(* A pair is not concerned by a step that leaves its row and its saves alone. *)
LEMMA OtherPair ==
    ASSUME TypeInv, NEW a \in Alert, NEW l \in Listing, NoticeOf(a, l),
           told'[a][l] = told[a][l], created'[a][l] = created[a][l], lost \subseteq lost',
           match'[a][l] = match[a][l],
           \A x : x.alert = a /\ x.listing = l => (x \in saves' <=> x \in saves)
    PROVE  NoticeOf(a, l)'
<1>1. OneTeller(a, l)'
  BY DEF NoticeOf, OneTeller, Teller
<1>2. \A x \in saves' : x.alert = a /\ x.listing = l => \E y \in saves : SameProgress(x, y)
  BY DEF SameProgress
<1>3. \A y \in saves : Teller(y, a, l) => \E x \in saves' : SameProgress(x, y)
  BY DEF SameProgress, Teller
<1> QED
  BY <1>1, <1>2, <1>3, NoticeFrame

(* What people and the queue do. *)
People ==
    \/ \E a \in Alert : Create(a) \/ Update(a) \/ Remove(a)
    \/ \E a \in Alert, l \in Listing, s \in Marks : Mark(a, l, s)
    \/ \E l \in Listing : EditListing(l) \/ SwitchListing(l) \/ Backfill(l)
    \/ \E w \in Worker, j \in Job : Claim(w, j)

LEMMA PeopleKeep ==
    ASSUME TypeInv, People, NEW a \in Alert, NEW l \in Listing
    PROVE  /\ UNCHANGED <<created, saves, told, lost>>
           /\ \/ match'[a][l] = NoRow
              \/ /\ match'[a][l].id = match[a][l].id
                 /\ match'[a][l].notified = match[a][l].notified
<1>1. UNCHANGED <<created, saves, told, lost>>
  BY DEF People, Create, Update, Remove, Mark, EditListing, SwitchListing, Backfill, Claim, rows
<1>2. \/ match'[a][l] = NoRow
      \/ /\ match'[a][l].id = match[a][l].id
         /\ match'[a][l].notified = match[a][l].notified
  <2>1. ASSUME NEW b \in Alert, Remove(b)
        PROVE  match'[a][l] = NoRow \/ match'[a][l] = match[a][l]
    BY <2>1 DEF Remove, TypeInv, TypeOK
  <2>2. ASSUME NEW b \in Alert, NEW k \in Listing, NEW s \in Marks, Mark(b, k, s)
        PROVE  /\ match'[a][l].id = match[a][l].id
               /\ match'[a][l].notified = match[a][l].notified
    <3>1. match[b][k] \in MatchRow /\ s \in {"PENDING", "VIEWED", "DISMISSED"}
      BY <2>2, RowType, PairAlertsAssumption DEF Mark, TypeInv
    <3>2. [match[b][k] EXCEPT !.status = s].id = match[b][k].id
          /\ [match[b][k] EXCEPT !.status = s].notified = match[b][k].notified
      BY <3>1 DEF MatchRow
    <3>3. match' = [match EXCEPT ![b][k] = [match[b][k] EXCEPT !.status = s]]
      BY <2>2 DEF Mark
    <3>4. match'[a][l] = IF a = b /\ l = k THEN [match[b][k] EXCEPT !.status = s] ELSE match[a][l]
      BY <3>3 DEF TypeInv, TypeOK
    <3> QED
      BY <3>2, <3>4
  <2>3. \/ UNCHANGED match
        \/ \E b \in Alert : Remove(b)
        \/ \E b \in Alert, k \in Listing, s \in Marks : Mark(b, k, s)
    BY DEF People, Create, Update, EditListing, SwitchListing, Backfill, Claim, rows
  <2> QED
    BY <2>1, <2>2, <2>3
<1> QED
  BY <1>1, <1>2

LEMMA NoticePeople ==
    ASSUME TypeInv, NoticeInv, People
    PROVE  NoticeInv'
<1> SUFFICES ASSUME NEW a \in Alert, NEW l \in Listing PROVE NoticeOf(a, l)'
    BY DEF NoticeInv
<1>1. NoticeOf(a, l)
  BY DEF NoticeInv
<1>2. OneTeller(a, l)'
  BY <1>1, PeopleKeep DEF NoticeOf, OneTeller
<1> QED
  BY <1>1, <1>2, PeopleKeep, NoticeFrame DEF SameProgress

LEMMA NewIsSaving ==
    \A w, a, v, l, u : NewSave(w, a, v, l, u).pc = "saving" /\ NewSave(w, a, v, l, u).id = 0
BY DEF NewSave

(* What runs do themselves: they start saves and delete rows. *)
LEMMA RunKeeps ==
    ASSUME TypeInv, NEW w \in Worker, Run(w), NEW a \in Alert, NEW l \in Listing
    PROVE  /\ UNCHANGED <<created, told, lost>>
           /\ match'[a][l] = NoRow \/ match'[a][l] = match[a][l]
           /\ saves \subseteq saves'
           /\ \A x \in saves' : x \in saves \/ (x.pc = "saving" /\ x.id = 0)
<1>1. UNCHANGED <<created, told, lost>>
  BY DEF Run, Read, SearchListings, SearchAlerts, Prune, Complete, Release, Settle, RunFails, rows
<1>2. match'[a][l] = NoRow \/ match'[a][l] = match[a][l]
  <2>1. CASE Prune(w)
    BY <2>1 DEF Prune, TypeInv, TypeOK
  <2>2. CASE ~Prune(w)
    BY <2>2 DEF Run, Read, SearchListings, SearchAlerts, Complete, Release, Settle, RunFails, rows
  <2> QED
    BY <2>1, <2>2
<1>3. saves \subseteq saves' /\ \A x \in saves' : x \in saves \/ (x.pc = "saving" /\ x.id = 0)
  <2>1. CASE SearchListings(w)
    <3> DEFINE new == {NewSave(w, Entity(w), worker[w].job.version, k, listing[k].version)
                          : k \in ListingsFound(Entity(w), worker[w].content)}
    <3>1. saves' = saves \cup new
      BY <2>1 DEF SearchListings
    <3>2. \A x \in new : x.pc = "saving" /\ x.id = 0
      BY NewIsSaving
    <3> HIDE DEF new
    <3> QED
      BY <3>1, <3>2
  <2>2. CASE SearchAlerts(w)
    <3> DEFINE new == {NewSave(w, b, alert[b].version, Entity(w), worker[w].job.version)
                          : b \in AlertsFound(Entity(w), worker[w].content)}
    <3>1. saves' = saves \cup new
      BY <2>2 DEF SearchAlerts
    <3>2. \A x \in new : x.pc = "saving" /\ x.id = 0
      BY NewIsSaving
    <3> HIDE DEF new
    <3> QED
      BY <3>1, <3>2
  <2>3. SearchListings(w) \/ SearchAlerts(w) \/ UNCHANGED saves
    BY DEF Run, Read, Prune, Complete, Release, Settle, RunFails
  <2>4. UNCHANGED saves => saves \subseteq saves' /\ \A x \in saves' : x \in saves
    OBVIOUS
  <2> QED
    BY <2>1, <2>2, <2>3, <2>4
<1> QED
  BY <1>1, <1>2, <1>3

LEMMA NoticeRun ==
    ASSUME TypeInv, NoticeInv, NEW w \in Worker, Run(w)
    PROVE  NoticeInv'
<1> SUFFICES ASSUME NEW a \in Alert, NEW l \in Listing PROVE NoticeOf(a, l)'
    BY DEF NoticeInv
<1>1. /\ UNCHANGED <<created, told, lost>>
      /\ match'[a][l] = NoRow \/ match'[a][l] = match[a][l]
      /\ saves \subseteq saves'
      /\ \A x \in saves' : x \in saves \/ (x.pc = "saving" /\ x.id = 0)
  BY RunKeeps
<1>2. NoticeOf(a, l)
  BY DEF NoticeInv
<1>3. OneTeller(a, l)'
  BY <1>1, <1>2 DEF NoticeOf, OneTeller, Teller
<1> QED
  BY <1>1, <1>2, <1>3, NoticeFrame DEF SameProgress

LEMMA NoticeCrash ==
    ASSUME TypeInv, NoticeInv, NEW w \in Worker, Crash(w)
    PROVE  NoticeInv'
<1> SUFFICES ASSUME NEW a \in Alert, NEW l \in Listing PROVE NoticeOf(a, l)'
    BY DEF NoticeInv
<1>1. /\ UNCHANGED <<match, created, told>>
      /\ saves' = saves \ {s \in saves : s.by = w}
      /\ lost' = lost \cup {<<s.alert, s.listing, s.id>> :
                    s \in {x \in saves : x.by = w /\ x.pc \in {"telling", "returning"}}}
  BY DEF Crash, rows
<1>2. NoticeOf(a, l)
  BY DEF NoticeInv
<1>3. OneTeller(a, l)'
  BY <1>1, <1>2 DEF NoticeOf, OneTeller
<1>4. \A y \in saves : Teller(y, a, l) => <<a, l, y.id>> \in lost' \/ y \in saves'
  BY <1>1 DEF Teller
<1> QED
  BY <1>1, <1>2, <1>3, <1>4, NoticeFrame DEF SameProgress

(* A save that throws with the claim in its hands has lost it. *)
LEMMA NoticeThrow ==
    ASSUME TypeInv, NoticeInv, NEW s \in saves, s.pc # "telling", SaveThrows(s)
    PROVE  NoticeInv'
<1> SUFFICES ASSUME NEW a \in Alert, NEW l \in Listing PROVE NoticeOf(a, l)'
    BY DEF NoticeInv
<1>1. /\ UNCHANGED <<match, created, told>>
      /\ lost' = IF s.pc = "returning" THEN lost \cup {<<s.alert, s.listing, s.id>>} ELSE lost
      /\ saves' = Orphaned(s, faults + 1) \/ saves' = saves \ {s}
  BY DEF SaveThrows, rows
<1>2. NoticeOf(a, l)
  BY DEF NoticeInv
<1> DEFINE Orphan(y) == IF y.by = s.by /\ y.orphaned = 0 THEN [y EXCEPT !.orphaned = faults + 1]
                                                       ELSE y
<1>3. \A y \in saves : SameProgress(Orphan(y), y) /\ SameProgress(y, y)
  <2> TAKE y \in saves
  <2>1. SameProgress([y EXCEPT !.orphaned = faults + 1], y)
    BY SaveType DEF TypeInv, Save, SameProgress
  <2> QED
    BY <2>1 DEF SameProgress
<1>4. Orphaned(s, faults + 1) = {Orphan(y) : y \in saves \ {s}}
  BY DEF Orphaned
<1> HIDE DEF Orphan
<1>5. \A x \in saves' : \E y \in saves \ {s} :
          SameProgress(x, y) /\ (x = Orphan(y) \/ saves' = saves \ {s})
  <2>1. CASE saves' = saves \ {s}
      BY <1>3, <2>1
  <2>2. CASE saves' = Orphaned(s, faults + 1)
    <3> SUFFICES ASSUME NEW x \in saves'
                 PROVE  \E y \in saves \ {s} : SameProgress(x, y) /\ x = Orphan(y)
        OBVIOUS
    <3>1. PICK y \in saves \ {s} : x = Orphan(y)
        BY <1>4, <2>2
    <3> QED
        BY <1>3, <3>1
  <2> QED
      BY <1>1, <2>1, <2>2
<1>6. OneTeller(a, l)'
  <2> SUFFICES ASSUME NEW x \in saves', NEW z \in saves', Teller(x, a, l), Teller(z, a, l),
                      x.id = z.id
               PROVE  x = z
      BY DEF OneTeller, Teller
  <2>1. CASE saves' = saves \ {s}
      BY <1>2, <2>1 DEF NoticeOf, OneTeller
  <2>2. CASE saves' # saves \ {s}
      <3>1. PICK y \in saves : SameProgress(x, y) /\ x = Orphan(y)
          BY <1>5, <2>2
      <3>2. PICK t \in saves : SameProgress(z, t) /\ z = Orphan(t)
          BY <1>5, <2>2
      <3>3. y = t
          BY <1>2, <3>1, <3>2 DEF NoticeOf, OneTeller, SameProgress, Teller
      <3> QED
          BY <3>1, <3>2, <3>3
  <2> QED
      BY <2>1, <2>2
<1>7. \A y \in saves : Teller(y, a, l) =>
          <<a, l, y.id>> \in lost' \/ \E x \in saves' : SameProgress(x, y)
  <2> SUFFICES ASSUME NEW y \in saves, Teller(y, a, l)
               PROVE  <<a, l, y.id>> \in lost' \/ \E x \in saves' : SameProgress(x, y)
      OBVIOUS
  <2>1. CASE y = s
      BY <1>1, <2>1 DEF Teller
  <2>2. CASE y # s
      BY <1>1, <1>3, <1>4, <2>2
  <2> QED
      BY <2>1, <2>2
<1> QED
  BY <1>1, <1>2, <1>5, <1>6, <1>7, NoticeFrame

LEMMA ContinueOf ==
    ASSUME TypeInv, NEW s \in saves, NEW pc \in {"telling", "returning"}, Continue(s, pc)
    PROVE  \E x : /\ x.alert = s.alert /\ x.listing = s.listing /\ x.id = s.id /\ x.pc = pc
                  /\ saves' = (saves \ {s}) \cup {x}
<1> DEFINE x == [s EXCEPT !.pc = pc]
<1>1. x.alert = s.alert /\ x.listing = s.listing /\ x.id = s.id /\ x.pc = pc
  BY SaveType DEF TypeInv, Save
<1>2. saves' = (saves \ {s}) \cup {x}
  BY DEF Continue
<1> HIDE DEF x
<1> QED
  BY <1>1, <1>2

(* One call's step concerns its own pair only. *)
LEMMA OwnPairOnly ==
    ASSUME TypeInv, NoticeInv, NEW s \in saves,
           \A x : x \in saves' /\ x \notin saves => x.alert = s.alert /\ x.listing = s.listing,
           saves \ {s} \subseteq saves', lost' = lost,
           \A a \in Alert, l \in Listing : a # s.alert \/ l # s.listing =>
               /\ told'[a][l] = told[a][l] /\ created'[a][l] = created[a][l]
               /\ match'[a][l] = match[a][l],
           NoticeOf(s.alert, s.listing)'
    PROVE  NoticeInv'
<1> SUFFICES ASSUME NEW a \in Alert, NEW l \in Listing PROVE NoticeOf(a, l)'
    BY DEF NoticeInv
<1>1. NoticeOf(a, l)
  BY DEF NoticeInv
<1>2. CASE a = s.alert /\ l = s.listing
  BY <1>2
<1>3. CASE a # s.alert \/ l # s.listing
  <2>1. \A x : x.alert = a /\ x.listing = l => (x \in saves' <=> x \in saves)
    BY <1>3
  <2> QED
    BY <1>1, <1>3, <2>1, OtherPair
<1> QED
  BY <1>2, <1>3

(* A row written for the first time is new to every save. *)
LEMMA NoticeUpsert ==
    ASSUME TypeInv, NoticeInv, NEW s \in saves, Upsert(s)
    PROVE  NoticeInv'
<1>1. s.alert \in Alert /\ s.listing \in Listing /\ s.pc = "saving"
  BY SaveType DEF TypeInv, Upsert
<1>2. PICK a \in Alert, l \in Listing : a = s.alert /\ l = s.listing
  BY <1>1
<1>3. /\ match' = [match EXCEPT ![a][l] = Upserted(s)]
      /\ created' = [created EXCEPT ![a][l] = IF RowOf(s) = NoRow THEN Upserted(s).id ELSE @]
      /\ told' = [told EXCEPT ![a][l] = IF RowOf(s) = NoRow THEN 0 ELSE @]
      /\ lost' = lost
  BY <1>2 DEF Upsert
<1>4. /\ match'[a][l] = Upserted(s)
      /\ created'[a][l] = IF RowOf(s) = NoRow THEN Upserted(s).id ELSE created[a][l]
      /\ told'[a][l] = IF RowOf(s) = NoRow THEN 0 ELSE told[a][l]
      /\ \A b \in Alert, k \in Listing : b # a \/ k # l =>
            /\ told'[b][k] = told[b][k] /\ created'[b][k] = created[b][k]
            /\ match'[b][k] = match[b][k]
  BY <1>3 DEF TypeInv, TypeOK
<1>5. PICK x : /\ x.pc = "claiming" /\ x.id = Upserted(s).id
               /\ x.alert = s.alert /\ x.listing = s.listing
               /\ saves' \subseteq (saves \ {s}) \cup {x}
               /\ saves \ {s} \subseteq saves'
  BY UpsertSaves DEF TypeInv
<1>6. \A y : Teller(y, a, l) => (y \in saves' <=> y \in saves)
  BY <1>1, <1>5 DEF Teller
<1>7. NoticeOf(a, l)
  BY DEF NoticeInv
<1>8. \A y \in saves : y.alert = a /\ y.listing = l => y.id \in Nat /\ y.id <= created[a][l]
  BY <1>7, SaveType DEF TypeInv, NoticeOf, Numbered
<1>9. OneTeller(a, l)'
  BY <1>6, <1>7 DEF NoticeOf, OneTeller, Teller
<1>10. CASE RowOf(s) = NoRow
  <2>1. /\ match'[a][l].id = created[a][l] + 1 /\ match'[a][l].notified = FALSE
        /\ created'[a][l] = created[a][l] + 1 /\ told'[a][l] = 0
        /\ x.id = created[a][l] + 1 /\ created[a][l] \in Nat
    BY <1>2, <1>4, <1>5, <1>10, UpsertedType, RowType DEF TypeInv
  <2>2. \A y \in saves' : y.alert = a /\ y.listing = l => y.id <= created[a][l] + 1
    BY <1>5, <1>8, <2>1
  <2>3. Numbered(a, l)'
    BY <2>1, <2>2 DEF Numbered
  <2>4. \A y \in saves' : Teller(y, a, l) => y.id # created[a][l] + 1
    BY <1>6, <1>8, <2>1 DEF Teller
  <2>5. TellerHoldsClaim(a, l)' /\ UnclaimedIsUntold(a, l)' /\ Accounted(a, l)'
    BY <2>1, <2>4 DEF TellerHoldsClaim, UnclaimedIsUntold, Accounted, Teller
  <2> QED
    BY <1>2, <1>4, <1>5, <1>3, <1>9, <2>1, <2>3, <2>5, OwnPairOnly DEF NoticeOf
<1>11. CASE RowOf(s) # NoRow
  <2>1. /\ match'[a][l].id = match[a][l].id /\ match'[a][l].notified = match[a][l].notified
        /\ created'[a][l] = created[a][l] /\ told'[a][l] = told[a][l]
        /\ x.id = match[a][l].id
    BY <1>2, <1>4, <1>5, <1>11, UpsertedType DEF TypeInv, RowOf
  <2>2. Numbered(a, l)'
    BY <1>5, <1>7, <2>1 DEF NoticeOf, Numbered
  <2>3. TellerHoldsClaim(a, l)' /\ UnclaimedIsUntold(a, l)'
    BY <1>6, <1>7, <2>1 DEF NoticeOf, TellerHoldsClaim, UnclaimedIsUntold, Teller
  <2>4. Accounted(a, l)'
    BY <1>3, <1>6, <1>7, <2>1 DEF NoticeOf, Accounted, Teller
  <2>5. told'[a][l] <= 1
    BY <1>7, <2>1 DEF NoticeOf
  <2> QED
    BY <1>2, <1>4, <1>5, <1>3, <1>9, <2>2, <2>3, <2>4, <2>5, OwnPairOnly DEF NoticeOf
<1> QED
  BY <1>10, <1>11

(* Who claims the row is its only teller: another one would have it claimed already.       *)
LEMMA NoticeClaim ==
    ASSUME TypeInv, NoticeInv, NEW s \in saves, ClaimNotice(s)
    PROVE  NoticeInv'
<1>1. s.alert \in Alert /\ s.listing \in Listing /\ s.pc = "claiming" /\ s.id # 0
  BY SaveType DEF TypeInv, ClaimNotice, SavesOK
<1>2. PICK a \in Alert, l \in Listing : a = s.alert /\ l = s.listing
  BY <1>1
<1>3. UNCHANGED <<created, told, lost>>
  BY DEF ClaimNotice
<1>4. NoticeOf(a, l)
  BY DEF NoticeInv
<1>5. CASE ~Claimable(s)
  <2>1. saves' = saves \ {s} /\ UNCHANGED match
    BY <1>5 DEF ClaimNotice, Return
  <2>2. \A y : Teller(y, a, l) => (y \in saves' <=> y \in saves)
    BY <1>1, <2>1 DEF Teller
  <2>3. OneTeller(a, l)' /\ Numbered(a, l)'
    BY <1>3, <1>4, <2>1 DEF NoticeOf, OneTeller, Numbered, Teller
  <2>4. TellerHoldsClaim(a, l)' /\ UnclaimedIsUntold(a, l)' /\ Accounted(a, l)'
    BY <1>3, <1>4, <2>1, <2>2 DEF NoticeOf, TellerHoldsClaim, UnclaimedIsUntold, Accounted, Teller
  <2>5. NoticeOf(a, l)'
    BY <1>3, <1>4, <2>3, <2>4 DEF NoticeOf
  <2> QED
    BY <1>2, <1>3, <2>1, <2>5, OwnPairOnly
<1>6. CASE Claimable(s)
  <2>1. match[a][l].id = s.id /\ ~match[a][l].notified
    BY <1>2, <1>6 DEF Claimable, RowOf
  <2>2. match[a][l] \in MatchRow
    BY <1>1, <2>1, RowType DEF TypeInv
  <2>3. [match[a][l] EXCEPT !.notified = TRUE].id = s.id
        /\ [match[a][l] EXCEPT !.notified = TRUE].notified = TRUE
    BY <2>1, <2>2 DEF MatchRow
  <2>4. match' = [match EXCEPT ![a][l] = [match[a][l] EXCEPT !.notified = TRUE]]
    BY <1>2, <1>6 DEF ClaimNotice
  <2>5. /\ match'[a][l].id = s.id /\ match'[a][l].notified
        /\ \A b \in Alert, k \in Listing : b # a \/ k # l => match'[b][k] = match[b][k]
    BY <2>3, <2>4 DEF TypeInv, TypeOK
  <2>6. Continue(s, "telling")
    BY <1>6 DEF ClaimNotice
  <2>7. PICK x : /\ x.alert = a /\ x.listing = l /\ x.id = s.id /\ x.pc = "telling"
                 /\ saves' = (saves \ {s}) \cup {x}
    BY <1>2, <2>6, ContinueOf
  <2>8. \A y \in saves : ~(Teller(y, a, l) /\ y.id = s.id)
    BY <1>4, <2>1 DEF NoticeOf, TellerHoldsClaim
  <2>9. Numbered(a, l)'
    BY <1>2, <1>3, <1>4, <2>1, <2>5, <2>7 DEF NoticeOf, Numbered
  <2>10. OneTeller(a, l)'
    BY <1>4, <2>7, <2>8 DEF NoticeOf, OneTeller, Teller
  <2>11. told'[a][l] = 0
    BY <1>1, <1>3, <1>4, <2>1 DEF NoticeOf, UnclaimedIsUntold
  <2>12. TellerHoldsClaim(a, l)' /\ UnclaimedIsUntold(a, l)'
    BY <2>5, <2>11 DEF TellerHoldsClaim, UnclaimedIsUntold
  <2>13. Accounted(a, l)'
    <3>1. Teller(x, a, l) /\ x \in saves' /\ x.id = match'[a][l].id
      BY <2>5, <2>7 DEF Teller
    <3> QED
      BY <3>1 DEF Accounted, Teller
  <2>14. NoticeOf(a, l)'
    BY <2>9, <2>10, <2>11, <2>12, <2>13 DEF NoticeOf
  <2> QED
    BY <1>2, <1>3, <2>5, <2>7, <2>14, OwnPairOnly
<1> QED
  BY <1>5, <1>6

(* The row's only teller counts the only notice. *)
LEMMA NoticeTell ==
    ASSUME TypeInv, NoticeInv, NEW s \in saves, Tell(s) \/ TellFails(s)
    PROVE  NoticeInv'
<1>1. s.alert \in Alert /\ s.listing \in Listing /\ s.pc = "telling" /\ s.id # 0
  BY SaveType DEF TypeInv, Tell, TellFails, SavesOK
<1>2. PICK a \in Alert, l \in Listing : a = s.alert /\ l = s.listing
  BY <1>1
<1>3. UNCHANGED <<match, created, lost>>
  BY DEF Tell, TellFails, rows
<1>4. NoticeOf(a, l) /\ Teller(s, a, l)
  BY <1>1, <1>2 DEF NoticeInv, Teller
<1>5. \/ Tell(s) /\ saves' = saves \ {s}
      \/ \E x : /\ x.alert = a /\ x.listing = l /\ x.id = s.id /\ x.pc = "returning"
                /\ saves' = (saves \ {s}) \cup {x}
  BY <1>2, ContinueOf DEF Tell, TellFails, Return
<1>6. PICK n \in Nat : /\ told' = [told EXCEPT ![a][l] = n]
                       /\ \/ n = told[a][l]
                          \/ n = told[a][l] + 1 /\ match[a][l].id = s.id
                       /\ Tell(s) /\ match[a][l].id = s.id => n = told[a][l] + 1
  <2>1. told[a][l] \in Nat /\ told = [told EXCEPT ![a][l] = told[a][l]]
    BY RowType DEF TypeInv, TypeOK
  <2>2. Count(s) => \/ match[a][l].id = s.id /\ told' = [told EXCEPT ![a][l] = told[a][l] + 1]
                    \/ match[a][l].id # s.id /\ told' = [told EXCEPT ![a][l] = told[a][l]]
    BY <1>2 DEF Count, RowOf
  <2>3. CASE Count(s)
    BY <2>1, <2>2, <2>3
  <2>4. CASE told' = told /\ ~Tell(s)
    BY <2>1, <2>4
  <2> QED
    BY <2>3, <2>4 DEF Tell, TellFails
<1>7. /\ told'[a][l] = n
      /\ \A b \in Alert, k \in Listing : b # a \/ k # l => told'[b][k] = told[b][k]
  BY <1>6 DEF TypeInv, TypeOK
<1>8. match[a][l].id = s.id => match[a][l].notified /\ told[a][l] = 0
  BY <1>1, <1>4 DEF NoticeOf, TellerHoldsClaim
<1>9. Numbered(a, l)'
  BY <1>2, <1>3, <1>4, <1>5 DEF NoticeOf, Numbered
<1>10. OneTeller(a, l)'
  BY <1>4, <1>5 DEF NoticeOf, OneTeller, Teller
<1>11. n <= 1
  BY <1>4, <1>6, <1>8 DEF NoticeOf
<1>12. TellerHoldsClaim(a, l)'
  <2> SUFFICES ASSUME NEW y \in saves', Teller(y, a, l), y.id = match[a][l].id
               PROVE  match[a][l].notified /\ (y.pc = "telling" => n = 0)
    BY <1>3, <1>7 DEF TellerHoldsClaim, Teller
  <2>1. CASE y \in saves /\ y # s
    <3>1. y.id # s.id
      BY <1>4, <2>1 DEF NoticeOf, OneTeller
    <3>2. n = told[a][l]
      BY <1>6, <3>1
    <3> QED
      BY <1>4, <2>1, <3>2 DEF NoticeOf, TellerHoldsClaim
  <2>2. CASE ~(y \in saves /\ y # s)
    BY <1>5, <1>8, <2>2
  <2> QED
    BY <2>1, <2>2
<1>13. UnclaimedIsUntold(a, l)'
  BY <1>3, <1>4, <1>6, <1>7, <1>8 DEF NoticeOf, UnclaimedIsUntold
<1>14. Accounted(a, l)'
  <2> SUFFICES ASSUME match[a][l].notified
               PROVE  \/ n > 0
                      \/ <<a, l, match[a][l].id>> \in lost
                      \/ \E y \in saves' : Teller(y, a, l) /\ y.id = match[a][l].id
    BY <1>3, <1>7 DEF Accounted, Teller
  <2>1. told[a][l] \in Nat
    BY RowType DEF TypeInv
  <2>2. CASE told[a][l] > 0
    BY <1>6, <2>1, <2>2
  <2>3. CASE match[a][l].id = s.id
    <3>1. CASE Tell(s)
      BY <1>6, <2>1, <2>3, <3>1
    <3>2. CASE ~Tell(s)
      <4>1. PICK x : /\ x.alert = a /\ x.listing = l /\ x.id = s.id /\ x.pc = "returning"
                     /\ saves' = (saves \ {s}) \cup {x}
        BY <1>5, <3>2
      <4> QED
        BY <2>3, <4>1 DEF Teller
    <3> QED
      BY <3>1, <3>2
  <2>4. ASSUME NEW y \in saves, Teller(y, a, l), y.id = match[a][l].id, y # s
        PROVE  y \in saves'
    BY <1>5, <2>4
  <2> QED
    BY <1>4, <2>2, <2>3, <2>4 DEF NoticeOf, Accounted
<1>15. NoticeOf(a, l)'
  BY <1>7, <1>9, <1>10, <1>11, <1>12, <1>13, <1>14 DEF NoticeOf
<1> QED
  BY <1>2, <1>3, <1>5, <1>7, <1>15, OwnPairOnly

LEMMA NoticeGiveBack ==
    ASSUME TypeInv, NoticeInv, NEW s \in saves, GiveBack(s)
    PROVE  NoticeInv'
<1>1. s.alert \in Alert /\ s.listing \in Listing /\ s.pc = "returning" /\ s.id # 0
  BY SaveType DEF TypeInv, GiveBack, SavesOK
<1>2. PICK a \in Alert, l \in Listing : a = s.alert /\ l = s.listing
  BY <1>1
<1>3. saves' = saves \ {s} /\ UNCHANGED <<created, lost>>
  BY DEF GiveBack, Return
<1>4. NoticeOf(a, l) /\ Teller(s, a, l)
  BY <1>1, <1>2 DEF NoticeInv, Teller
<1>5. match[a][l].id = s.id /\ match[a][l] \in MatchRow
  BY <1>1, <1>2, RowType DEF GiveBack, RowOf, TypeInv
<1>6. [match[a][l] EXCEPT !.notified = FALSE].id = s.id
      /\ [match[a][l] EXCEPT !.notified = FALSE].notified = FALSE
  BY <1>5 DEF MatchRow
<1>7. /\ match' = [match EXCEPT ![a][l] = [match[a][l] EXCEPT !.notified = FALSE]]
      /\ told' = [told EXCEPT ![a][l] = 0]
  BY <1>2 DEF GiveBack
<1>8. /\ match'[a][l].id = s.id /\ match'[a][l].notified = FALSE /\ told'[a][l] = 0
      /\ \A b \in Alert, k \in Listing : b # a \/ k # l =>
            match'[b][k] = match[b][k] /\ told'[b][k] = told[b][k]
  BY <1>6, <1>7 DEF TypeInv, TypeOK
<1>9. OneTeller(a, l)'
  BY <1>3, <1>4 DEF NoticeOf, OneTeller
<1>10. Numbered(a, l)'
  BY <1>3, <1>4, <1>5, <1>8 DEF NoticeOf, Numbered
<1>11. \A y \in saves' : ~(Teller(y, a, l) /\ y.id = s.id)
  BY <1>3, <1>4 DEF NoticeOf, OneTeller
<1>12. TellerHoldsClaim(a, l)' /\ UnclaimedIsUntold(a, l)' /\ Accounted(a, l)'
  BY <1>8, <1>11 DEF TellerHoldsClaim, UnclaimedIsUntold, Accounted, Teller
<1>13. NoticeOf(a, l)'
  BY <1>8, <1>9, <1>10, <1>12 DEF NoticeOf
<1> QED
  BY <1>2, <1>3, <1>8, <1>13, OwnPairOnly

LEMMA NoticeStep ==
    ASSUME TypeInv, NoticeInv, [Next]_vars
    PROVE  NoticeInv'
<1>1. CASE UNCHANGED vars
  BY <1>1 DEF vars, rows, NoticeInv, NoticeOf, Numbered, OneTeller, TellerHoldsClaim,
     UnclaimedIsUntold, Accounted, Teller
<1>2. ASSUME NEW s \in saves, Saving(s)
      PROVE  NoticeInv'
  <2>1. CASE SaveImpossible(s) \/ SaveFails(s)
    BY <2>1, NoticeThrow DEF SaveImpossible, SaveFails
  <2> QED
    BY <1>2, <2>1, NoticeUpsert, NoticeClaim, NoticeTell, NoticeGiveBack DEF Saving
<1> QED
  BY <1>1, <1>2, NoticePeople, NoticeRun, NoticeCrash DEF Next, People

(* A row has at most one teller, and whatever it claims or counts is accounted for.        *)
THEOREM NoticeInvariant == Spec => []NoticeInv
<1>1. Init => NoticeInv
  <2> SUFFICES ASSUME Init, NEW a \in Alert, NEW l \in Listing PROVE NoticeOf(a, l)
      BY DEF NoticeInv
  <2>1. /\ match[a][l].id = 0 /\ match[a][l].notified = FALSE
        /\ created[a][l] = 0 /\ told[a][l] = 0 /\ saves = {}
      BY DEF Init, NoRow
  <2> QED
      BY <2>1 DEF NoticeOf, Numbered, OneTeller, TellerHoldsClaim, UnclaimedIsUntold, Accounted
<1>2. TypeInv /\ NoticeInv /\ [Next]_vars => NoticeInv'
  BY NoticeStep
<1> QED
  BY <1>1, <1>2, TypeInvariant, PTL DEF Spec

(* However many runs find a match at once, its row is announced once, and once more only   *)
(* after a failed notice gave the claim back.                                              *)
THEOREM ToldOnce == Spec => []MatchToldOnce
<1>1. NoticeInv => MatchToldOnce
  BY DEF NoticeInv, NoticeOf, MatchToldOnce
<1> QED
  BY <1>1, NoticeInvariant, PTL

(* "notifiedAt" stands for a user who was told, is being told, or was to be told by a call  *)
(* that was lost.                                                                          *)
THEOREM ClaimsAreTold == Spec => []NotifiedMeansTold
<1>1. NoticeInv => NotifiedMeansTold
  BY DEF NoticeInv, NoticeOf, Accounted, Teller, NotifiedMeansTold
<1> QED
  BY <1>1, NoticeInvariant, PTL

-----------------------------------------------------------------------------
(* The announcement of every match is one of Announcement.  What moves it is the claim of   *)
(* its row, the notice of the call that made the claim, and the end of the row.             *)
Untold(a, l) == IF match[a][l] = NoRow THEN 0 ELSE told[a][l]

(* The call that holds the claim says how far the announcement is. *)
LEMMA PhaseHeld ==
    ASSUME TypeInv, NoticeInv, NEW s \in saves, NEW a \in Alert, NEW l \in Listing,
           Teller(s, a, l), s.id = match[a][l].id
    PROVE  Phase(a, l) = IF s.pc = "telling" THEN "TELLING" ELSE "RETURNING"
<1>1. match[a][l].notified
  BY DEF NoticeInv, NoticeOf, TellerHoldsClaim
<1>2. \A t \in saves : Teller(t, a, l) /\ t.id = match[a][l].id => t = s
  BY DEF NoticeInv, NoticeOf, OneTeller
<1>3. CASE s.pc = "telling"
  <2>1. Held(a, l, "telling")
      BY <1>3 DEF Held, Teller
  <2> QED
      BY <1>1, <1>3, <2>1 DEF Phase
<1>4. CASE s.pc # "telling"
  <2>1. s.pc = "returning"
      BY <1>4 DEF Teller
  <2>2. Held(a, l, "returning") /\ ~Held(a, l, "telling")
      BY <1>2, <2>1 DEF Held, Teller
  <2> QED
      BY <1>1, <1>4, <2>2 DEF Phase
<1> QED
  BY <1>3, <1>4

LEMMA PhaseHeldNext ==
    ASSUME TypeInv', NoticeInv', NEW s \in saves', NEW a \in Alert, NEW l \in Listing,
           Teller(s, a, l), s.id = match'[a][l].id
    PROVE  Phase(a, l)' = IF s.pc = "telling" THEN "TELLING" ELSE "RETURNING"
<1>1. match'[a][l].notified
  BY DEF NoticeInv, NoticeOf, TellerHoldsClaim, Teller
<1>2. \A t \in saves' : Teller(t, a, l) /\ t.id = match'[a][l].id => t = s
  BY DEF NoticeInv, NoticeOf, OneTeller, Teller
<1>3. CASE s.pc = "telling"
  <2>1. Held(a, l, "telling")'
      BY <1>3 DEF Held, Teller
  <2> QED
      BY <1>1, <1>3, <2>1 DEF Phase
<1>4. CASE s.pc # "telling"
  <2>1. s.pc = "returning"
      BY <1>4 DEF Teller
  <2>2. Held(a, l, "returning")' /\ ~Held(a, l, "telling")'
      BY <1>2, <2>1 DEF Held, Teller
  <2> QED
      BY <1>1, <1>4, <2>2 DEF Phase
<1> QED
  BY <1>3, <1>4

(* Without such a call it is over, if it ever began. *)
LEMMA PhaseOver ==
    ASSUME NEW a \in Alert, NEW l \in Listing,
           \A x \in saves' : ~(Teller(x, a, l) /\ x.id = match'[a][l].id)
    PROVE  Phase(a, l)' = IF ~match'[a][l].notified THEN "FREE"
                          ELSE IF told'[a][l] > 0 THEN "DONE" ELSE "LOST"
<1>1. ~Held(a, l, "telling")' /\ ~Held(a, l, "returning")'
  BY DEF Held, Teller
<1> QED
  BY <1>1 DEF Phase

LEMMA SameRow ==
    ASSUME TypeInv, TypeInv', NEW a \in Alert, NEW l \in Listing,
           match'[a][l].id = match[a][l].id
    PROVE  match'[a][l] = NoRow <=> match[a][l] = NoRow
<1>1. match[a][l] \in {NoRow} \cup MatchRow /\ match'[a][l] \in {NoRow} \cup MatchRow
  BY DEF TypeInv, TypeOK
<1>2. NoRow.id = 0 /\ \A r \in MatchRow : r.id # 0
  BY DEF NoRow, MatchRow
<1> QED
  BY <1>1, <1>2

(* Saves that come, go or are orphaned without holding the claim do not move it. *)
LEMMA NoticeSame ==
    ASSUME TypeInv, TypeInv', NEW a \in Alert, NEW l \in Listing,
           match'[a][l].id = match[a][l].id, match'[a][l].notified = match[a][l].notified,
           told'[a][l] = told[a][l],
           \A y \in saves : Teller(y, a, l) /\ y.id = match[a][l].id =>
               \E x \in saves' : SameProgress(x, y),
           \A x \in saves' : Teller(x, a, l) => \E y \in saves : SameProgress(x, y)
    PROVE  UNCHANGED Notice(a, l)!vars
<1>1. ASSUME NEW pc \in {"telling", "returning"}
      PROVE  Held(a, l, pc)' <=> Held(a, l, pc)
  <2>1. ASSUME NEW y \in saves, y.alert = a, y.listing = l, y.id = match[a][l].id, y.pc = pc
        PROVE  Held(a, l, pc)'
      BY <2>1 DEF Held, Teller, SameProgress
  <2>2. ASSUME NEW x \in saves', x.alert = a, x.listing = l, x.id = match'[a][l].id, x.pc = pc
        PROVE  Held(a, l, pc)
      BY <2>2 DEF Held, Teller, SameProgress
  <2> QED
      BY <2>1, <2>2 DEF Held
<1>2. Phase(a, l)' = Phase(a, l)
  BY <1>1 DEF Phase
<1>3. Untold(a, l)' = Untold(a, l)
  BY SameRow DEF Untold
<1> QED
  BY <1>2, <1>3 DEF Notice!vars, Untold

LEMMA NoticeOthers ==
    ASSUME TypeInv, TypeInv', NEW a \in Alert, NEW l \in Listing,
           match'[a][l] = match[a][l], told'[a][l] = told[a][l],
           \A x : x.alert = a /\ x.listing = l => (x \in saves' <=> x \in saves)
    PROVE  UNCHANGED Notice(a, l)!vars
<1>1. \A y \in saves : Teller(y, a, l) => \E x \in saves' : SameProgress(x, y)
  BY DEF SameProgress, Teller
<1>2. \A x \in saves' : Teller(x, a, l) => \E y \in saves : SameProgress(x, y)
  BY DEF SameProgress, Teller
<1> QED
  BY <1>1, <1>2, NoticeSame

(* The row is deleted, and with it whatever had become of its announcement. *)
LEMMA NoticeForgotten ==
    ASSUME TypeInv, NoticeInv, NEW a \in Alert, NEW l \in Listing, match'[a][l] = NoRow
    PROVE  [Notice(a, l)!Next]_(Notice(a, l)!vars)
<1>1. Phase(a, l)' = "FREE" /\ Untold(a, l)' = 0
  BY DEF Phase, NoRow, Untold
<1>2. CASE match[a][l].notified
  <2>1. Phase(a, l) # "FREE"
      BY <1>2 DEF Phase
  <2>2. Notice(a, l)!Forget
      BY <1>1, <2>1 DEF Notice!Forget, Notice!Nobody, Untold
  <2> QED
      BY <2>2 DEF Notice!Next
<1>3. CASE ~match[a][l].notified
  <2>1. Phase(a, l) = "FREE"
      BY <1>3 DEF Phase
  <2>2. Untold(a, l) = 0
      BY <1>3, RowType DEF TypeInv, Untold, NoticeInv, NoticeOf, UnclaimedIsUntold
  <2> QED
      BY <1>1, <2>1, <2>2 DEF Notice!vars, Untold
<1> QED
  BY <1>2, <1>3

(* The call that holds the claim is gone, and the row is as it was. *)
LEMMA NoticeAbandoned ==
    ASSUME TypeInv, NoticeInv, NEW a \in Alert, NEW l \in Listing,
           match'[a][l] = match[a][l], told'[a][l] = told[a][l],
           NEW s \in saves, Teller(s, a, l), s.id = match[a][l].id,
           \A x \in saves' : ~(Teller(x, a, l) /\ x.id = s.id)
    PROVE  Notice(a, l)!Next
<1>1. Phase(a, l) \in {"TELLING", "RETURNING"}
  BY PhaseHeld
<1>2. match[a][l].notified
  BY DEF NoticeInv, NoticeOf, TellerHoldsClaim
<1>3. Phase(a, l)' = IF told[a][l] > 0 THEN "DONE" ELSE "LOST"
  BY <1>2, PhaseOver
<1>4. match[a][l] # NoRow
  BY <1>2 DEF NoRow
<1>5. Notice(a, l)!Abandon
  BY <1>1, <1>3, <1>4 DEF Notice!Abandon
<1> QED
  BY <1>5 DEF Notice!Next

LEMMA AnnouncementCrash ==
    ASSUME TypeInv, TypeInv', NoticeInv, NEW w \in Worker, Crash(w),
           NEW a \in Alert, NEW l \in Listing
    PROVE  [Notice(a, l)!Next]_(Notice(a, l)!vars)
<1>1. UNCHANGED <<match, told>> /\ saves' = saves \ {s \in saves : s.by = w}
  BY DEF Crash, rows
<1>2. CASE \E s \in saves : s.by = w /\ Teller(s, a, l) /\ s.id = match[a][l].id
  <2>1. PICK s \in saves : s.by = w /\ Teller(s, a, l) /\ s.id = match[a][l].id
      BY <1>2
  <2>2. \A x \in saves' : ~(Teller(x, a, l) /\ x.id = s.id)
      BY <1>1, <2>1 DEF NoticeInv, NoticeOf, OneTeller
  <2> QED
      BY <1>1, <2>1, <2>2, NoticeAbandoned
<1>3. CASE ~\E s \in saves : s.by = w /\ Teller(s, a, l) /\ s.id = match[a][l].id
    BY <1>1, <1>3, NoticeSame DEF SameProgress
<1> QED
  BY <1>2, <1>3

(* The saves beside one that throws go on as they were, orphaned or not. *)
LEMMA ThrowSaves ==
    ASSUME TypeInv, NEW s \in saves, SaveThrows(s)
    PROVE  /\ \A x \in saves' : \E y \in saves \ {s} : SameProgress(x, y)
           /\ \A y \in saves \ {s} : \E x \in saves' : SameProgress(x, y)
<1>1. saves' = Orphaned(s, faults + 1) \/ saves' = saves \ {s}
  BY DEF SaveThrows
<1> DEFINE Orphan(y) == IF y.by = s.by /\ y.orphaned = 0 THEN [y EXCEPT !.orphaned = faults + 1]
                                                       ELSE y
<1>2. \A y \in saves : SameProgress(Orphan(y), y) /\ SameProgress(y, y)
  <2> TAKE y \in saves
  <2>1. SameProgress([y EXCEPT !.orphaned = faults + 1], y)
    BY SaveType DEF TypeInv, Save, SameProgress
  <2> QED
    BY <2>1 DEF SameProgress
<1>3. Orphaned(s, faults + 1) = {Orphan(y) : y \in saves \ {s}}
  BY DEF Orphaned
<1> HIDE DEF Orphan
<1>4. CASE saves' = saves \ {s}
  BY <1>2, <1>4
<1>5. CASE saves' = Orphaned(s, faults + 1)
  BY <1>2, <1>3, <1>5
<1> QED
  BY <1>1, <1>4, <1>5

LEMMA AnnouncementThrow ==
    ASSUME TypeInv, TypeInv', NoticeInv, NEW s \in saves, SaveThrows(s),
           NEW a \in Alert, NEW l \in Listing
    PROVE  [Notice(a, l)!Next]_(Notice(a, l)!vars)
<1>1. UNCHANGED <<match, told>>
  BY DEF SaveThrows, rows
<1>2. /\ \A x \in saves' : \E y \in saves \ {s} : SameProgress(x, y)
      /\ \A y \in saves \ {s} : \E x \in saves' : SameProgress(x, y)
  BY ThrowSaves
<1>3. CASE Teller(s, a, l) /\ s.id = match[a][l].id
  <2>1. \A x \in saves' : ~(Teller(x, a, l) /\ x.id = s.id)
    <3> SUFFICES ASSUME NEW x \in saves', Teller(x, a, l), x.id = s.id PROVE FALSE
        OBVIOUS
    <3>1. PICK y \in saves \ {s} : SameProgress(x, y)
        BY <1>2
    <3>2. Teller(y, a, l) /\ y.id = s.id
        BY <3>1 DEF SameProgress, Teller
    <3> QED
        BY <1>3, <3>2 DEF NoticeInv, NoticeOf, OneTeller
  <2> QED
      BY <1>1, <1>3, <2>1, NoticeAbandoned
<1>4. CASE ~(Teller(s, a, l) /\ s.id = match[a][l].id)
    BY <1>1, <1>2, <1>4, NoticeSame
<1> QED
  BY <1>3, <1>4

(* A row that is written anew is free, and nobody has been told of it. *)
LEMMA AnnouncementUpsert ==
    ASSUME TypeInv, TypeInv', NoticeInv, NEW s \in saves, Upsert(s),
           NEW a \in Alert, NEW l \in Listing
    PROVE  UNCHANGED Notice(a, l)!vars
<1>1. s.alert \in Alert /\ s.listing \in Listing /\ s.pc = "saving"
  BY SaveType DEF TypeInv, Upsert
<1>2. /\ match' = [match EXCEPT ![s.alert][s.listing] = Upserted(s)]
      /\ told' = [told EXCEPT ![s.alert][s.listing] = IF RowOf(s) = NoRow THEN 0 ELSE @]
  BY DEF Upsert
<1>3. PICK x : /\ x.pc = "claiming"
               /\ x.alert = s.alert /\ x.listing = s.listing
               /\ saves' \subseteq (saves \ {s}) \cup {x}
               /\ saves \ {s} \subseteq saves'
  BY UpsertSaves DEF TypeInv
<1>4. CASE a = s.alert /\ l = s.listing
  <2>1. match'[a][l] = Upserted(s) /\ told'[a][l] = IF RowOf(s) = NoRow THEN 0 ELSE told[a][l]
      BY <1>1, <1>2, <1>4 DEF TypeInv, TypeOK
  <2>2. CASE RowOf(s) = NoRow
    <3>1. match[a][l] = NoRow /\ ~match[a][l].notified
        BY <1>4, <2>2 DEF RowOf, NoRow
    <3>2. ~match'[a][l].notified /\ told'[a][l] = 0
        BY <2>1, <2>2, UpsertedType DEF TypeInv
    <3>3. Phase(a, l)' = Phase(a, l)
        BY <3>1, <3>2 DEF Phase
    <3>4. Untold(a, l)' = Untold(a, l)
        BY <3>1, <3>2 DEF Untold
    <3> QED
        BY <3>3, <3>4 DEF Notice!vars, Untold
  <2>3. CASE RowOf(s) # NoRow
    <3>1. /\ match'[a][l].id = match[a][l].id /\ match'[a][l].notified = match[a][l].notified
          /\ told'[a][l] = told[a][l]
        BY <1>4, <2>1, <2>3, UpsertedType DEF TypeInv, RowOf
    <3>2. \A y : Teller(y, a, l) => (y \in saves' <=> y \in saves)
        BY <1>1, <1>3 DEF Teller
    <3> QED
        BY <3>1, <3>2, NoticeSame DEF SameProgress
  <2> QED
      BY <2>2, <2>3
<1>5. CASE ~(a = s.alert /\ l = s.listing)
  <2>1. match'[a][l] = match[a][l] /\ told'[a][l] = told[a][l]
      BY <1>1, <1>2, <1>5 DEF TypeInv, TypeOK
  <2>2. \A y : y.alert = a /\ y.listing = l => (y \in saves' <=> y \in saves)
      BY <1>3, <1>5
  <2> QED
      BY <2>1, <2>2, NoticeOthers
<1> QED
  BY <1>4, <1>5

(* The call whose claim takes begins. *)
LEMMA AnnouncementClaim ==
    ASSUME TypeInv, TypeInv', NoticeInv, NoticeInv', NEW s \in saves, ClaimNotice(s),
           NEW a \in Alert, NEW l \in Listing
    PROVE  [Notice(a, l)!Next]_(Notice(a, l)!vars)
<1>1. s.alert \in Alert /\ s.listing \in Listing /\ s.pc = "claiming" /\ s.id # 0
  BY SaveType DEF TypeInv, ClaimNotice, SavesOK
<1>2. told' = told
  BY DEF ClaimNotice
<1>3. CASE ~Claimable(s)
  <2>1. saves' = saves \ {s} /\ UNCHANGED match
      BY <1>3 DEF ClaimNotice, Return
  <2>2. \A y : Teller(y, a, l) => (y \in saves' <=> y \in saves)
      BY <1>1, <2>1 DEF Teller
  <2> QED
      BY <1>2, <2>1, <2>2, NoticeSame DEF SameProgress
<1>4. CASE Claimable(s)
  <2>1. match' = [match EXCEPT ![s.alert][s.listing] = [RowOf(s) EXCEPT !.notified = TRUE]]
      BY <1>4 DEF ClaimNotice, RowOf
  <2>2. PICK x : /\ x.alert = s.alert /\ x.listing = s.listing /\ x.id = s.id
                 /\ x.pc = "telling" /\ saves' = (saves \ {s}) \cup {x}
      BY <1>4, ContinueOf DEF ClaimNotice
  <2>3. CASE a = s.alert /\ l = s.listing
    <3>1. match[a][l].id = s.id /\ ~match[a][l].notified
        BY <1>4, <2>3 DEF Claimable, RowOf
    <3>2. match[a][l] \in MatchRow /\ match[a][l] # NoRow
        BY <1>1, <3>1, RowType DEF TypeInv
    <3>3. match'[a][l] = [match[a][l] EXCEPT !.notified = TRUE]
        BY <1>1, <2>1, <2>3 DEF TypeInv, TypeOK, RowOf
    <3>4. match'[a][l].id = s.id
        BY <3>1, <3>2, <3>3 DEF MatchRow
    <3>5. Phase(a, l) = "FREE"
        BY <3>1 DEF Phase
    <3>6. Phase(a, l)' = "TELLING"
        BY <2>2, <2>3, <3>4, PhaseHeldNext DEF Teller
    <3>7. Untold(a, l)' = Untold(a, l)
        BY <1>2, <3>1, <3>4, SameRow DEF Untold
    <3>8. Notice(a, l)!Begin
        BY <3>5, <3>6, <3>7 DEF Notice!Begin, Untold
    <3> QED
        BY <3>8 DEF Notice!Next
  <2>4. CASE ~(a = s.alert /\ l = s.listing)
    <3>1. match'[a][l] = match[a][l]
        BY <1>1, <2>1, <2>4 DEF TypeInv, TypeOK
    <3>2. \A y : y.alert = a /\ y.listing = l => (y \in saves' <=> y \in saves)
        BY <2>2, <2>4
    <3> QED
        BY <1>2, <3>1, <3>2, NoticeOthers
  <2> QED
      BY <2>3, <2>4
<1> QED
  BY <1>3, <1>4

(* The notice reaches the user or not, and a call that hears of an error has to take back   *)
(* what may well have reached them.                                                         *)
LEMMA AnnouncementTell ==
    ASSUME TypeInv, TypeInv', NoticeInv, NoticeInv', NEW s \in saves, Tell(s) \/ TellFails(s),
           NEW a \in Alert, NEW l \in Listing
    PROVE  [Notice(a, l)!Next]_(Notice(a, l)!vars)
<1>1. s.alert \in Alert /\ s.listing \in Listing /\ s.pc = "telling"
  BY SaveType DEF TypeInv, Tell, TellFails
<1>2. match' = match
  BY DEF Tell, TellFails, rows
<1>3. \/ Tell(s) /\ saves' = saves \ {s}
      \/ \E x : /\ x.alert = s.alert /\ x.listing = s.listing /\ x.id = s.id
                /\ x.pc = "returning" /\ saves' = (saves \ {s}) \cup {x}
  BY ContinueOf DEF Tell, TellFails, Return
<1>4. CASE a = s.alert /\ l = s.listing /\ match[a][l].id = s.id
  <2>1. Teller(s, a, l) /\ Phase(a, l) = "TELLING"
      BY <1>1, <1>4, PhaseHeld DEF Teller
  <2>2. match[a][l].notified /\ match[a][l] # NoRow
      BY <1>4, <2>1 DEF NoticeInv, NoticeOf, TellerHoldsClaim, NoRow
  <2>3. told[a][l] \in Nat
      BY RowType DEF TypeInv
  <2>4. Count(s) => told'[a][l] = told[a][l] + 1
      BY <1>1, <1>4 DEF Count, RowOf, TypeInv, TypeOK
  <2>5. CASE Tell(s)
    <3>1. saves' = saves \ {s} /\ told'[a][l] = told[a][l] + 1
        BY <2>4, <2>5 DEF Tell, Return
    <3>2. \A x \in saves' : ~(Teller(x, a, l) /\ x.id = match'[a][l].id)
        BY <1>2, <1>4, <2>1, <3>1 DEF NoticeInv, NoticeOf, OneTeller
    <3>3. Phase(a, l)' = "DONE"
        BY <1>2, <2>2, <2>3, <3>1, <3>2, PhaseOver
    <3>4. Notice(a, l)!Tell({a})
        BY <1>2, <2>1, <2>2, <3>1, <3>3 DEF Notice!Tell
    <3> QED
        BY <3>4 DEF Notice!Next
  <2>6. CASE TellFails(s)
    <3>1. Count(s) \/ told' = told
        BY <2>6 DEF TellFails
    <3>2. PICK x : /\ x.alert = s.alert /\ x.listing = s.listing /\ x.id = s.id
                   /\ x.pc = "returning" /\ saves' = (saves \ {s}) \cup {x}
        BY <2>6, ContinueOf DEF TellFails
    <3>3. Phase(a, l)' = "RETURNING"
        BY <1>2, <1>4, <3>2, PhaseHeldNext DEF Teller
    <3>4. CASE told'[a][l] = told[a][l] + 1
      <4>1. Notice(a, l)!Tell({a})
          BY <1>2, <2>1, <2>2, <3>3, <3>4 DEF Notice!Tell
      <4> QED
          BY <4>1 DEF Notice!Next
    <3>5. CASE told' = told
      <4>1. Notice(a, l)!Tell({})
          BY <1>2, <2>1, <2>2, <3>3, <3>5 DEF Notice!Tell
      <4> QED
          BY <4>1 DEF Notice!Next
    <3> QED
        BY <2>4, <3>1, <3>4, <3>5
  <2> QED
      BY <2>5, <2>6
<1>5. CASE ~(a = s.alert /\ l = s.listing /\ match[a][l].id = s.id)
  <2>1. told'[a][l] = told[a][l]
    <3>1. Count(s) => told'[a][l] = told[a][l]
        BY <1>1, <1>5 DEF Count, RowOf, TypeInv, TypeOK
    <3> QED
        BY <3>1 DEF Tell, TellFails
  <2>2. \A y \in saves : Teller(y, a, l) /\ y.id = match[a][l].id => y \in saves'
      BY <1>3, <1>5 DEF Teller
  <2>3. \A x \in saves' : Teller(x, a, l) /\ x.id = match[a][l].id => x \in saves
      BY <1>3, <1>5 DEF Teller
  <2>4. ASSUME NEW pc \in {"telling", "returning"} PROVE Held(a, l, pc)' <=> Held(a, l, pc)
      BY <1>2, <2>2, <2>3 DEF Held, Teller
  <2>5. Phase(a, l)' = Phase(a, l)
      BY <1>2, <2>1, <2>4 DEF Phase
  <2> QED
      BY <1>2, <2>1, <2>5 DEF Notice!vars
<1> QED
  BY <1>4, <1>5

LEMMA AnnouncementGiveBack ==
    ASSUME TypeInv, TypeInv', NoticeInv, NEW s \in saves, GiveBack(s),
           NEW a \in Alert, NEW l \in Listing
    PROVE  [Notice(a, l)!Next]_(Notice(a, l)!vars)
<1>1. s.alert \in Alert /\ s.listing \in Listing /\ s.pc = "returning" /\ s.id # 0
  BY SaveType DEF TypeInv, GiveBack, SavesOK
<1>2. /\ match' = [match EXCEPT ![s.alert][s.listing] = [RowOf(s) EXCEPT !.notified = FALSE]]
      /\ told' = [told EXCEPT ![s.alert][s.listing] = 0]
      /\ saves' = saves \ {s} /\ RowOf(s).id = s.id
  BY DEF GiveBack, RowOf, Return
<1>3. CASE a = s.alert /\ l = s.listing
  <2>1. match[a][l].id = s.id /\ match[a][l] \in MatchRow
      BY <1>1, <1>2, <1>3, RowType DEF RowOf, TypeInv
  <2>2. Phase(a, l) = "RETURNING"
      BY <1>1, <1>3, <2>1, PhaseHeld DEF Teller
  <2>3. match'[a][l] = [match[a][l] EXCEPT !.notified = FALSE] /\ told'[a][l] = 0
      BY <1>1, <1>2, <1>3 DEF TypeInv, TypeOK, RowOf
  <2>4. match'[a][l].notified = FALSE
      BY <2>1, <2>3 DEF MatchRow
  <2>5. Phase(a, l)' = "FREE" /\ Untold(a, l)' = 0
      BY <2>3, <2>4 DEF Phase, Untold
  <2>6. Notice(a, l)!TakeBack
      BY <2>2, <2>5 DEF Notice!TakeBack, Notice!Nobody, Untold
  <2> QED
      BY <2>6 DEF Notice!Next
<1>4. CASE ~(a = s.alert /\ l = s.listing)
  <2>1. match'[a][l] = match[a][l] /\ told'[a][l] = told[a][l]
      BY <1>1, <1>2, <1>4 DEF TypeInv, TypeOK
  <2>2. \A y : y.alert = a /\ y.listing = l => (y \in saves' <=> y \in saves)
      BY <1>2, <1>4
  <2> QED
      BY <2>1, <2>2, NoticeOthers
<1> QED
  BY <1>3, <1>4

LEMMA AnnouncementStep ==
    TypeInv /\ NoticeInv /\ [Next]_vars =>
        \A a \in Alert, l \in Listing : [Notice(a, l)!Next]_(Notice(a, l)!vars)
<1> SUFFICES ASSUME TypeInv, NoticeInv, [Next]_vars, NEW a \in Alert, NEW l \in Listing
             PROVE  [Notice(a, l)!Next]_(Notice(a, l)!vars)
    OBVIOUS
<1> DEFINE Goal == [Notice(a, l)!Next]_(Notice(a, l)!vars)
<1>0. TypeInv' /\ NoticeInv'
  BY TypeKept, NoticeStep
<1>1. CASE People
  <2>1. UNCHANGED <<told, saves>>
      BY <1>1, PeopleKeep
  <2>2. CASE match'[a][l] = NoRow
      BY <2>2, NoticeForgotten
  <2>3. CASE /\ match'[a][l].id = match[a][l].id
             /\ match'[a][l].notified = match[a][l].notified
      BY <1>0, <2>1, <2>3, NoticeSame DEF SameProgress
  <2> QED
      BY <1>1, <2>2, <2>3, PeopleKeep
<1>2. ASSUME NEW w \in Worker, Run(w) PROVE Goal
  <2>1. /\ told' = told /\ saves \subseteq saves'
        /\ \A x \in saves' : x \in saves \/ (x.pc = "saving" /\ x.id = 0)
      BY <1>2, RunKeeps
  <2>2. CASE match'[a][l] = NoRow
      BY <2>2, NoticeForgotten
  <2>3. CASE match'[a][l] = match[a][l]
    <3>1. \A y : Teller(y, a, l) => (y \in saves' <=> y \in saves)
        BY <2>1 DEF Teller
    <3> QED
        BY <1>0, <2>1, <2>3, <3>1, NoticeSame DEF SameProgress
  <2> QED
      BY <1>2, <2>2, <2>3, RunKeeps
<1>3. ASSUME NEW w \in Worker, Crash(w) PROVE Goal
  BY <1>0, <1>3, AnnouncementCrash
<1>4. ASSUME NEW s \in saves, Saving(s) PROVE Goal
  <2>1. CASE SaveImpossible(s) \/ SaveFails(s)
      BY <1>0, <2>1, AnnouncementThrow DEF SaveImpossible, SaveFails
  <2> QED
      BY <1>0, <1>4, <2>1, AnnouncementUpsert, AnnouncementClaim, AnnouncementTell,
         AnnouncementGiveBack DEF Saving
<1>5. CASE UNCHANGED vars
  BY <1>0, <1>5, NoticeOthers DEF vars, rows
<1> QED
  BY <1>1, <1>2, <1>3, <1>4, <1>5 DEF Next, People

(* Whatever saves find a match, claim it and fail, its announcement goes as Announcement    *)
(* has it.                                                                                  *)
THEOREM AnnouncementImplemented == Spec => ImplementsAnnouncement
<1>1. Init => \A a \in Alert, l \in Listing : Notice(a, l)!Init
  <2> SUFFICES ASSUME Init, NEW a \in Alert, NEW l \in Listing PROVE Notice(a, l)!Init
      OBVIOUS
  <2>1. match[a][l] = NoRow
      BY DEF Init
  <2>2. Phase(a, l) = "FREE"
      BY <2>1 DEF Phase, NoRow
  <2> QED
      BY <2>1, <2>2 DEF Notice!Init, Notice!Nobody
<1>2. TypeInv /\ NoticeInv /\ [Next]_vars
        => [\A a \in Alert, l \in Listing : [Notice(a, l)!Next]_(Notice(a, l)!vars)]_vars
  BY AnnouncementStep
<1> QED
  BY <1>1, <1>2, TypeInvariant, NoticeInvariant, PTL DEF Spec, ImplementsAnnouncement

(* In the words of Announcement itself. *)
COROLLARY EachAnnounced ==
    ASSUME NEW a \in Alert, NEW l \in Listing PROVE Spec => Notice(a, l)!Spec
<1>1. Init => Notice(a, l)!Init
  <2> SUFFICES ASSUME Init PROVE Notice(a, l)!Init
      OBVIOUS
  <2>1. match[a][l] = NoRow
      BY DEF Init
  <2>2. Phase(a, l) = "FREE"
      BY <2>1 DEF Phase, NoRow
  <2> QED
      BY <2>1, <2>2 DEF Notice!Init, Notice!Nobody
<1>2. TypeInv /\ NoticeInv /\ [Next]_vars => [Notice(a, l)!Next]_(Notice(a, l)!vars)
  BY AnnouncementStep
<1> QED
  BY <1>1, <1>2, TypeInvariant, NoticeInvariant, PTL DEF Spec, Notice!Spec

-----------------------------------------------------------------------------
(* What was dismissed stays dismissed.  A run keeps every listing that fitted when it      *)
(* searched, so what it deletes and still fits has changed since.                         *)
StillToKeep(w, l) ==
    /\ worker[w].seen[l] = listing[l].version
    /\ worker[w].job.version = alert[Entity(w)].version
    /\ l \notin switched
    /\ listing[l].status = "ACTIVE"
    /\ l \in GuestListing \/ OwnerOf[l] # OwnerOf[Entity(w)]
    /\ FitsNow(Entity(w), l)

KeptInv ==
    \A w \in Worker : worker[w].pc = "saving" /\ OfAlert(w) =>
        \A l \in Listing : /\ worker[w].seen[l] <= listing[l].version
                           /\ StillToKeep(w, l) => l \in worker[w].kept

(* A listing whose status changes gets a version or is remembered. *)
LEMMA SwitchIsSeen ==
    ASSUME TypeInv, [Next]_vars, NEW l \in Listing,
           listing'[l].version = listing[l].version, l \notin switched'
    PROVE  listing'[l].status = listing[l].status /\ l \notin switched
<1>1. listing[l] \in ListingRow /\ listing[l].version \in Nat
  BY VersionFacts DEF TypeInv
<1>2. ASSUME NEW k \in Listing, EditListing(k)
      PROVE  listing'[l].status = listing[l].status /\ l \notin switched
  BY <1>1, <1>2 DEF EditListing, TypeInv, TypeOK
<1>3. ASSUME NEW k \in Listing, SwitchListing(k)
      PROVE  listing'[l].status = listing[l].status /\ l \notin switched
  <2>1. PICK s \in {"ACTIVE", "OTHER"}, raised \in {0, 1} :
           /\ listing' = [listing EXCEPT ![k].status = s, ![k].version = @ + raised]
           /\ switched' = IF raised = 1 THEN switched \ {k} ELSE switched \cup {k}
    BY <1>3 DEF SwitchListing
  <2> DEFINE r == [listing[k] EXCEPT !.status = s, !.version = listing[k].version + raised]
  <2>2. r.version = listing[k].version + raised
    BY VersionFacts DEF TypeInv, ListingRow
  <2>3. listing' = [listing EXCEPT ![k] = r]
    BY <2>1
  <2> HIDE DEF r
  <2>4. k # l
    <3>1. CASE raised = 0
      BY <2>1, <3>1
    <3>2. CASE raised = 1
      BY <1>1, <2>2, <2>3, <3>2 DEF TypeInv, TypeOK
    <3> QED
      BY <3>1, <3>2
  <2> QED
    BY <2>1, <2>3, <2>4 DEF TypeInv, TypeOK
<1>4. \/ UNCHANGED <<listing, switched>>
      \/ \E k \in Listing : EditListing(k) \/ SwitchListing(k)
  BY DEF Next, vars, Create, Update, Remove, Run, Saving, Mark, Backfill, Claim, Crash, Read,
     SearchListings, SearchAlerts, Prune, Complete, Release, Settle, RunFails, Upsert, ClaimNotice,
     Tell, TellFails, GiveBack, SaveImpossible, SaveFails, SaveThrows
<1> QED
  BY <1>2, <1>3, <1>4

(* How a run gets to its saves, and to its end. *)
LEMMA RunAt ==
    ASSUME TypeInv, [Next]_vars, NEW w \in Worker, worker'[w].pc \in {"saving", "completing"}
    PROVE  \/ worker'[w] = worker[w]
           \/ SearchListings(w)
           \/ SearchAlerts(w)
           \/ worker'[w].pc = "completing" /\ Prune(w)
           \/ worker'[w].pc = "completing" /\ Read(w) /\ ~Current(worker[w].job)
<1>1. ASSUME NEW v \in Worker, NEW pc \in {"completing", "releasing"}, Done(v, pc)
      PROVE  worker'[w] = worker[w] \/ (v = w /\ pc = "completing" /\ worker'[w].pc = "completing")
  BY <1>1 DEF Done, TypeInv, TypeOK
<1>2. ASSUME NEW v \in Worker, Read(v)
      PROVE  \/ worker'[w] = worker[w]
             \/ v = w /\ worker'[w].pc = "completing" /\ ~Current(worker[w].job)
  <2>1. CASE v # w
    BY <1>2, <2>1 DEF Read, Goto, TypeInv, TypeOK
  <2>2. CASE v = w
    <3>1. worker[w] \in InProgress
      BY <1>2, <2>2, RunType DEF Read, At, Steps, TypeInv
    <3>2. \A c : /\ [worker[w] EXCEPT !.pc = "searching", !.content = c].pc = "searching"
                 /\ [worker[w] EXCEPT !.pc = "completing"].pc = "completing"
      BY <3>1 DEF InProgress
    <3>3. CASE Current(worker[w].job)
      <4>1. worker' = [worker EXCEPT ![w] = [worker[w] EXCEPT !.pc = "searching",
                           !.content = IF OfAlert(w) THEN alert[Entity(w)].need
                                       ELSE listing[Entity(w)].offer]]
        BY <1>2, <2>2, <3>3 DEF Read
      <4>2. worker'[w].pc = "searching"
        BY <3>2, <4>1 DEF TypeInv, TypeOK
      <4> QED
        BY <4>2
    <3>4. CASE ~Current(worker[w].job)
      <4>1. worker' = [worker EXCEPT ![w] = [worker[w] EXCEPT !.pc = "completing"]]
        BY <1>2, <2>2, <3>4 DEF Read, Goto
      <4>2. worker'[w].pc = "completing"
        BY <3>2, <4>1 DEF TypeInv, TypeOK
      <4> QED
        BY <2>2, <3>4, <4>2
    <3> QED
      BY <3>3, <3>4
  <2> QED
    BY <2>1, <2>2
<1>3. ASSUME NEW v \in Worker, SearchAlerts(v), v # w
      PROVE  worker'[w] = worker[w]
  BY <1>3 DEF SearchAlerts, TypeInv, TypeOK
<1>4. ASSUME NEW v \in Worker, NEW j \in Job, Claim(v, j)
      PROVE  worker'[w] = worker[w]
  BY <1>4 DEF Claim, TypeInv, TypeOK
<1>5. ASSUME NEW v \in Worker, worker' = [worker EXCEPT ![v] = Idle]
      PROVE  worker'[w] = worker[w]
  BY <1>5 DEF Idle, TypeInv, TypeOK
<1>6. ASSUME NEW v \in Worker, SearchListings(v), v # w
      PROVE  worker'[w] = worker[w]
  BY <1>6 DEF SearchListings, TypeInv, TypeOK
<1>7. ASSUME NEW s \in saves, SaveThrows(s)
      PROVE  worker'[w] = worker[w]
  BY <1>1, <1>7, SaveType DEF SaveThrows, TypeInv
<1>8. ASSUME NEW v \in Worker, RunFails(v)
      PROVE  worker'[w] = worker[w]
  BY <1>1, <1>8 DEF RunFails
<1>9. ASSUME NEW v \in Worker, Prune(v)
      PROVE  worker'[w] = worker[w] \/ (v = w /\ worker'[w].pc = "completing")
  BY <1>1, <1>9 DEF Prune
<1>10. \/ UNCHANGED worker
       \/ \E v \in Worker : \/ Prune(v) \/ RunFails(v)
                            \/ Read(v) \/ SearchAlerts(v) \/ SearchListings(v)
                            \/ \E j \in Job : Claim(v, j)
                            \/ worker' = [worker EXCEPT ![v] = Idle]
       \/ \E s \in saves : SaveThrows(s)
  BY DEF Next, vars, Create, Update, Remove, EditListing, SwitchListing, Run, Saving, Mark,
     Backfill, Crash, Complete, Release, Settle, Upsert, ClaimNotice,
     Tell, TellFails, GiveBack, SaveImpossible, SaveFails
<1> QED
  BY <1>2, <1>3, <1>4, <1>5, <1>6, <1>7, <1>8, <1>9, <1>10

LEMMA SavingFrom ==
    ASSUME TypeInv, [Next]_vars, NEW w \in Worker, worker'[w].pc = "saving", OfAlert(w)'
    PROVE  worker'[w] = worker[w] \/ SearchListings(w)
<1>1. ~SearchAlerts(w)
  <2> SUFFICES ASSUME SearchAlerts(w) PROVE FALSE
    OBVIOUS
  <2>1. worker[w] \in InProgress /\ ~OfAlert(w) /\ worker[w] # Idle
    BY RunType DEF SearchAlerts, At, Steps, TypeInv
  <2> DEFINE r == [worker[w] EXCEPT !.pc = "saving", !.content = Unread]
  <2>2. r.job = worker[w].job /\ worker' = [worker EXCEPT ![w] = r]
    BY <2>1 DEF SearchAlerts, InProgress
  <2> HIDE DEF r
  <2> QED
    BY <2>1, <2>2 DEF OfAlert, TypeInv, TypeOK
<1> QED
  BY <1>1, RunAt

LEMMA KeptStep ==
    ASSUME TypeInv, TypeInv', SnapshotInv, KeptInv, [Next]_vars
    PROVE  KeptInv'
<1> SUFFICES ASSUME NEW w \in Worker, worker'[w].pc = "saving", OfAlert(w)', NEW l \in Listing
             PROVE  /\ worker'[w].seen[l] <= listing'[l].version
                    /\ StillToKeep(w, l)' => l \in worker'[w].kept
    BY DEF KeptInv, OfAlert
<1>1. Forward
  BY ForwardStep
<1>2. listing[l].version \in Nat /\ listing'[l].version \in Nat
  <2>1. listing'[l] \in ListingRow
    BY DEF TypeInv, TypeOK
  <2> QED
    BY <2>1, VersionFacts DEF TypeInv, ListingRow, Version
<1>3. CASE worker'[w] = worker[w]
  <2>1. worker[w] \in InProgress /\ worker[w].pc = "saving" /\ OfAlert(w)
    BY <1>3, RunType DEF TypeInv, Steps, OfAlert
  <2>2. worker[w].seen[l] \in Nat /\ worker[w].seen[l] <= listing[l].version
    <3>1. worker[w].seen \in [Listing -> Version]
      BY <2>1 DEF InProgress
    <3> QED
      BY <2>1, <3>1, VersionFacts DEF KeptInv, TypeInv
  <2>3. PICK a \in Alert : a = Entity(w) /\ a = Entity(w)'
    BY <1>3, <2>1, RunKind DEF TypeInv, Entity, Steps
  <2>4. /\ worker[w].job.version \in Nat /\ alert[a].version \in Nat /\ alert'[a].version \in Nat
        /\ worker[w].job.version <= alert[a].version
    <3>1. worker[w].pc \in Steps
      BY <2>1 DEF Steps
    <3>2. worker[w].job.version \in Version /\ worker[w].job.kind = "alert"
      BY <2>1, <3>1, RunKind DEF TypeInv
    <3>3. worker[w].job.version <= alert[a].version
      BY <2>3, <3>1, <3>2 DEF SnapshotInv, RunsPast, NowAt, Entity
    <3>4. alert'[a] \in AlertRow
      BY DEF TypeInv, TypeOK
    <3> QED
      BY <3>2, <3>3, <3>4, VersionFacts DEF TypeInv, AlertRow, Version
  <2>5. worker[w].seen[l] <= listing'[l].version
    BY <1>1, <1>2, <2>2 DEF Forward
  <2>6. ASSUME StillToKeep(w, l)'
        PROVE  l \in worker[w].kept
    <3>1. /\ worker[w].seen[l] = listing'[l].version
          /\ worker[w].job.version = alert'[a].version
          /\ l \notin switched' /\ listing'[l].status = "ACTIVE"
          /\ l \in GuestListing \/ OwnerOf[l] # OwnerOf[a]
          /\ Fit(alert'[a].need, listing'[l].offer)
      BY <1>3, <2>3, <2>6 DEF StillToKeep, FitsNow
    <3>2. listing'[l].version = listing[l].version /\ listing'[l].offer = listing[l].offer
      BY <1>1, <1>2, <2>2, <3>1 DEF Forward
    <3>3. alert'[a].version = alert[a].version /\ alert'[a].need = alert[a].need
      BY <1>1, <2>4, <3>1 DEF Forward
    <3>4. listing[l].status = "ACTIVE" /\ l \notin switched
      BY <3>1, <3>2, SwitchIsSeen
    <3>5. StillToKeep(w, l)
      BY <2>3, <3>1, <3>2, <3>3, <3>4 DEF StillToKeep, FitsNow
    <3> QED
      BY <2>1, <3>5 DEF KeptInv
  <2> QED
    BY <1>3, <2>5, <2>6
<1>4. CASE SearchListings(w)
  <2>1. worker[w].pc = "searching" /\ worker[w].pc \in Steps /\ OfAlert(w)
    BY <1>4 DEF SearchListings, At, Steps
  <2>2. worker[w] \in InProgress
    BY <2>1, RunType DEF TypeInv
  <2>3. PICK a \in Alert : a = Entity(w)
    BY <2>1, RunKind DEF TypeInv
  <2> DEFINE found == ListingsFound(a, worker[w].content)
             at == [k \in Listing |-> listing[k].version]
             r == [worker[w] EXCEPT !.pc = "saving", !.kept = found, !.content = Unread,
                                    !.seen = at]
  <2>4. r.kept = found /\ r.seen = at /\ r.job = worker[w].job
    BY <2>2 DEF InProgress
  <2>5. worker' = [worker EXCEPT ![w] = r]
    BY <1>4, <2>3 DEF SearchListings
  <2> HIDE DEF r
  <2>6. /\ worker'[w].kept = found /\ worker'[w].seen = at /\ worker'[w].job = worker[w].job
        /\ UNCHANGED <<alert, listing, switched>>
    BY <1>4, <2>4, <2>5 DEF SearchListings, TypeInv, TypeOK
  <2>7. worker'[w].seen[l] <= listing'[l].version
    BY <1>2, <2>6
  <2>8. ASSUME StillToKeep(w, l)'
        PROVE  l \in worker'[w].kept
    <3>1. Entity(w)' = a
      BY <2>3, <2>6 DEF Entity
    <3>2. /\ worker[w].job.version = alert[a].version
          /\ listing[l].status = "ACTIVE"
          /\ l \in GuestListing \/ OwnerOf[l] # OwnerOf[a]
          /\ Fit(alert[a].need, listing[l].offer)
      BY <2>6, <2>8, <3>1 DEF StillToKeep, FitsNow
    <3>3. worker[w].content = alert[a].need
      <4>1. worker[w].job.kind = "alert" /\ worker[w].job.id = a
        BY <2>1, <2>3, RunKind DEF TypeInv, Entity
      <4> QED
        BY <2>1, <2>3, <3>2, <4>1 DEF SnapshotInv, ReadIsCurrent, NowAt
    <3> QED
      BY <2>6, <3>2, <3>3 DEF ListingsFound
  <2> QED
    BY <2>7, <2>8
<1> QED
  BY <1>3, <1>4, SavingFrom

(* A run keeps every listing that fitted when it searched and has not changed since. *)
THEOREM KeptInvariant == Spec => []KeptInv
<1>1. Init => KeptInv
  BY DEF Init, KeptInv, Idle
<1>2. TypeInv /\ TypeInv' /\ SnapshotInv /\ KeptInv /\ [Next]_vars => KeptInv'
  BY KeptStep
<1> QED
  BY <1>1, <1>2, TypeInvariant, SnapshotInvariant, PTL DEF Spec

CurrentRow(a, l) ==
    /\ match[a][l] # NoRow
    /\ match[a][l].alertVersion = alert[a].version
    /\ match[a][l].listingVersion = listing[l].version

(* The row of a pair that fits stays while neither side changes; its mark is the user's,    *)
(* and a save that is not outdated writes the versions of now.                             *)
LEMMA RowStep ==
    ASSUME TypeInv, KeptInv, [Next]_vars, NEW a \in Alert, NEW l \in Listing,
           Due(a, l), match[a][l] # NoRow, <<a, l>> \notin late',
           alert'[a] = alert[a], listing'[l] = listing[l]
    PROVE  /\ match'[a][l] # NoRow
           /\ \/ match'[a][l].status = match[a][l].status
              \/ match'[a][l].status \in Marks /\ changes' # changes
           /\ \/ /\ match'[a][l].alertVersion = match[a][l].alertVersion
                 /\ match'[a][l].listingVersion = match[a][l].listingVersion
              \/ CurrentRow(a, l)'
<1>1. match[a][l] \in MatchRow
  BY RowType DEF TypeInv
<1>2. \A r \in MatchRow : r # NoRow
  BY DEF MatchRow, NoRow
<1>3. ASSUME NEW b \in Alert, NEW k \in Listing, NEW s \in Marks, Mark(b, k, s),
             match'[a][l] # match[a][l]
      PROVE  /\ match'[a][l] \in MatchRow
             /\ match'[a][l].status \in Marks /\ changes' # changes
             /\ match'[a][l].alertVersion = match[a][l].alertVersion
             /\ match'[a][l].listingVersion = match[a][l].listingVersion
  <2>1. changes' = changes + 1 /\ changes \in Nat /\ s \in {"PENDING", "VIEWED", "DISMISSED"}
    BY <1>3, VersionFacts, PairAlertsAssumption DEF Mark, Change, TypeInv
  <2>2. match' = [match EXCEPT ![b][k] = [match[b][k] EXCEPT !.status = s]]
    BY <1>3 DEF Mark
  <2>3. a = b /\ l = k
    BY <1>3, <2>2 DEF TypeInv, TypeOK
  <2> DEFINE r == [match[a][l] EXCEPT !.status = s]
  <2>4. /\ r \in MatchRow /\ r.status = s
        /\ r.alertVersion = match[a][l].alertVersion
        /\ r.listingVersion = match[a][l].listingVersion
    BY <1>1, <2>1 DEF MatchRow
  <2>5. match' = [match EXCEPT ![a][l] = r]
    BY <2>2, <2>3
  <2> HIDE DEF r
  <2>6. match'[a][l] = r
    BY <2>5 DEF TypeInv, TypeOK
  <2> QED
    BY <2>1, <2>4, <2>6
<1>4. ASSUME NEW s \in saves, Upsert(s), match'[a][l] # match[a][l]
      PROVE  /\ match'[a][l] \in MatchRow
             /\ match'[a][l].status = match[a][l].status
             /\ match'[a][l].alertVersion = alert'[a].version
             /\ match'[a][l].listingVersion = listing'[l].version
  <2>1. s.alert \in Alert /\ s.listing \in Listing
    BY SaveType DEF TypeInv
  <2>2. match' = [match EXCEPT ![s.alert][s.listing] = Upserted(s)]
    BY <1>4 DEF Upsert
  <2>3. a = s.alert /\ l = s.listing
    BY <1>4, <2>1, <2>2 DEF TypeInv, TypeOK
  <2>4. match'[a][l] = Upserted(s) /\ RowOf(s) = match[a][l]
    BY <2>1, <2>2, <2>3 DEF TypeInv, TypeOK, RowOf
  <2>5. Upserted(s).status = match[a][l].status
    BY <2>4 DEF Upserted
  <2>6. ~Stale(s)
    BY <1>4, <2>3 DEF Upsert
  <2> QED
    BY <2>3, <2>4, <2>5, <2>6, UpsertedType DEF Stale, TypeInv
<1>5. ASSUME NEW s \in saves, NEW n \in BOOLEAN, match'[a][l] # match[a][l],
             match' = [match EXCEPT ![s.alert][s.listing] = [RowOf(s) EXCEPT !.notified = n]]
      PROVE  /\ match'[a][l] \in MatchRow
             /\ match'[a][l].status = match[a][l].status
             /\ match'[a][l].alertVersion = match[a][l].alertVersion
             /\ match'[a][l].listingVersion = match[a][l].listingVersion
  <2>1. s.alert \in Alert /\ s.listing \in Listing
    BY SaveType DEF TypeInv
  <2>2. a = s.alert /\ l = s.listing
    BY <1>5, <2>1 DEF TypeInv, TypeOK
  <2> DEFINE r == [match[a][l] EXCEPT !.notified = n]
  <2>3. /\ r \in MatchRow /\ r.status = match[a][l].status
        /\ r.alertVersion = match[a][l].alertVersion
        /\ r.listingVersion = match[a][l].listingVersion
    BY <1>1 DEF MatchRow
  <2>4. match' = [match EXCEPT ![a][l] = r]
    BY <1>5, <2>2 DEF RowOf
  <2> HIDE DEF r
  <2>5. match'[a][l] = r
    BY <2>4 DEF TypeInv, TypeOK
  <2> QED
    BY <2>3, <2>5
<1>6. ASSUME NEW b \in Alert, Remove(b)
      PROVE  match'[a][l] = match[a][l]
  <2>1. a # b
    <3> SUFFICES ASSUME a = b PROVE FALSE
      OBVIOUS
    <3>1. alert' = [alert EXCEPT ![a] = [alert[a] EXCEPT !.status = "DELETED"]]
      BY <1>6 DEF Remove
    <3>2. [alert[a] EXCEPT !.status = "DELETED"].status = "DELETED"
      BY VersionFacts DEF TypeInv, AlertRow
    <3>3. alert'[a].status = "DELETED" /\ alert[a].status = "ACTIVE"
      BY <3>1, <3>2 DEF Due, TypeInv, TypeOK
    <3> QED
      BY <3>3
  <2> QED
    BY <1>6, <2>1 DEF Remove, TypeInv, TypeOK
<1>7. ASSUME NEW w \in Worker, Prune(w)
      PROVE  match'[a][l] = match[a][l]
  <2>1. worker[w].pc = "saving" /\ OfAlert(w) /\ Entity(w) \in Alert /\ worker[w] \in InProgress
    BY <1>7, RunKind DEF Prune, At, Steps, TypeInv
  <2> SUFFICES ASSUME match'[a][l] # match[a][l] PROVE FALSE
    OBVIOUS
  <2>2. a = Entity(w) /\ l \in Pruned(a, worker[w].kept)
    BY <1>7, <2>1 DEF Prune, TypeInv, TypeOK
  <2>3. l \notin worker[w].kept
    BY <2>2 DEF Pruned
  <2>4. ~StillToKeep(w, l)
    BY <2>1, <2>3 DEF KeptInv
  <2>5. worker[w].seen[l] # listing[l].version \/ worker[w].job.version # alert[a].version
    BY <2>2, <2>4 DEF Due, StillToKeep
  <2> QED
    BY <1>7, <2>2, <2>5 DEF Prune
<1>8. \/ UNCHANGED match
      \/ \E b \in Alert : Remove(b)
      \/ \E w \in Worker : Prune(w)
      \/ \E b \in Alert, k \in Listing, s \in Marks : Mark(b, k, s)
      \/ \E s \in saves :
            \/ Upsert(s)
            \/ \E n \in BOOLEAN :
                  match' = [match EXCEPT ![s.alert][s.listing] = [RowOf(s) EXCEPT !.notified = n]]
  <2>1. ASSUME NEW s \in saves, ClaimNotice(s) \/ GiveBack(s)
        PROVE  \/ UNCHANGED match
               \/ \E n \in BOOLEAN :
                     match' = [match EXCEPT ![s.alert][s.listing] = [RowOf(s) EXCEPT !.notified = n]]
    BY <2>1 DEF ClaimNotice, GiveBack, RowOf
  <2> QED
    BY <2>1 DEF Next, vars, rows, Create, Update, EditListing, SwitchListing, Backfill, Claim,
       Run, Crash, Read, SearchListings, SearchAlerts, Complete, Release, Settle, RunFails,
       Saving, Tell, TellFails, SaveImpossible, SaveFails, SaveThrows
<1> QED
  BY <1>1, <1>2, <1>3, <1>4, <1>5, <1>6, <1>7, <1>8 DEF CurrentRow

LEMMA StaysDismissedStep ==
    ASSUME TypeInv, KeptInv, [Next]_vars
    PROVE  StaysDismissed
<1> SUFFICES ASSUME NEW a \in Alert, NEW l \in Listing, Dismissed(a, l),
                    match'[a][l].status # "DISMISSED", <<a, l>> \notin late',
                    alert'[a] = alert[a], listing'[l] = listing[l]
             PROVE  match'[a][l].status = "VIEWED" /\ changes' # changes
    BY DEF StaysDismissed
<1>1. match[a][l].status = "DISMISSED" /\ match[a][l] # NoRow /\ Due(a, l)
  BY DEF Dismissed, NoRow
<1>2. match'[a][l].status \in Marks /\ changes' # changes
  BY <1>1, RowStep
<1> QED
  BY <1>2, PairAlertsAssumption

(* What a user dismissed is not shown again while neither the alert nor the listing        *)
(* changes: no run resets the mark, and only an outdated one can delete the row that        *)
(* carries it.                                                                             *)
THEOREM DismissedIsKept == Spec => DismissedStays
<1>1. TypeInv /\ KeptInv /\ [Next]_vars => [StaysDismissed]_vars
  BY StaysDismissedStep
<1> QED
  BY <1>1, TypeInvariant, KeptInvariant, PTL DEF Spec, DismissedStays

-----------------------------------------------------------------------------
(* What fits is found.  Of a pair that fits, the run that searches last sees the other at   *)
(* the version it has, and neither run is past the pair before its save has written that.    *)
PendingSave(w, a, l) ==
    \E s \in saves : /\ s.by = w /\ s.orphaned = 0 /\ s.pc = "saving"
                     /\ s.alert = a /\ s.alertVersion = alert[a].version
                     /\ s.listing = l /\ s.listingVersion = listing[l].version

Past(j, a, l) ==
    \/ job[j] = "COMPLETED"
    \/ \E w \in Worker : /\ worker[w].pc \in {"saving", "completing"}
                         /\ worker[w].job = j
                         /\ worker[w].pc = "saving" => ~PendingSave(w, a, l)

AlertJob(a) == JobOf("alert", a, alert[a].version)
ListingJob(l) == JobOf("listing", l, listing[l].version)

FoundWhenPast ==
    \A a \in Alert, l \in Listing :
        Due(a, l) /\ <<a, l>> \notin late /\ Past(AlertJob(a), a, l) /\ Past(ListingJob(l), a, l)
            => CurrentRow(a, l)

(* An alert's job is queued while it is made ACTIVE, and not before. *)
QueueInv ==
    /\ \A a \in Alert :
          /\ alert[a].status = "ACTIVE" => job[AlertJob(a)] # "ABSENT"
          /\ alert[a].status = "ABSENT" => alert[a].version = 1 /\ job[AlertJob(a)] = "ABSENT"
    /\ \A w \in Worker : worker[w].pc \in Steps => job[worker[w].job] # "ABSENT"

LEMMA CurrentJobs ==
    ASSUME TypeInv, NEW a \in Alert, NEW l \in Listing
    PROVE  /\ AlertJob(a) \in Job /\ AlertJob(a).kind = "alert" /\ AlertJob(a).id = a
           /\ AlertJob(a).version = alert[a].version
           /\ ListingJob(l) \in Job /\ ListingJob(l).kind = "listing" /\ ListingJob(l).id = l
           /\ ListingJob(l).version = listing[l].version
BY VersionFacts DEF AlertJob, ListingJob, JobOf, Job, TypeInv

(* Jobs stay queued. *)
LEMMA JobStays ==
    ASSUME TypeInv, [Next]_vars, NEW j \in Job, job[j] # "ABSENT"
    PROVE  job'[j] # "ABSENT"
<1>1. ASSUME NEW i, Enqueue(i)
      PROVE  job'[j] # "ABSENT"
  BY <1>1 DEF Enqueue, TypeInv, TypeOK
<1>2. ASSUME NEW w \in Worker, NEW i \in Job, Claim(w, i)
      PROVE  job'[j] # "ABSENT"
  BY <1>2 DEF Claim, TypeInv, TypeOK
<1>3. ASSUME NEW w \in Worker, NEW s \in {"COMPLETED", "PENDING"}, Settle(w, s)
      PROVE  job'[j] # "ABSENT"
  BY <1>3 DEF Settle, TypeInv, TypeOK
<1>4. \/ UNCHANGED job
      \/ \E i : Enqueue(i)
      \/ \E w \in Worker, i \in Job : Claim(w, i)
      \/ \E w \in Worker, s \in {"COMPLETED", "PENDING"} : Settle(w, s)
  BY DEF Next, vars, Create, Update, Remove, EditListing, SwitchListing, Run, Saving, Mark,
     Backfill, Crash, Read, SearchListings, SearchAlerts, Prune, Complete, Release, RunFails,
     Upsert, ClaimNotice, Tell, TellFails, GiveBack, SaveImpossible, SaveFails, SaveThrows
<1> QED
  BY <1>1, <1>2, <1>3, <1>4

(* The job of an alert is queued by what is done with it. *)
LEMMA AlertQueued ==
    ASSUME TypeInv, [Next]_vars, NEW a \in Alert, NEW v \in Version,
           job[JobOf("alert", a, v)] = "ABSENT", job'[JobOf("alert", a, v)] # "ABSENT"
    PROVE  Create(a) \/ Update(a)
<1> DEFINE j == JobOf("alert", a, v)
<1>1. j \in Job /\ j.kind = "alert" /\ j.id = a
  BY DEF JobOf, Job
<1>2. \A kind, x, u : JobOf(kind, x, u).kind = kind /\ JobOf(kind, x, u).id = x
  BY DEF JobOf
<1> HIDE DEF j
<1>3. \A i : Enqueue(i) => i = j
  BY <1>1 DEF Enqueue, TypeInv, TypeOK, j
<1>4. ASSUME NEW b \in Alert, Create(b) \/ Update(b)
      PROVE  b = a
  BY <1>1, <1>2, <1>3, <1>4 DEF Create, Update, j
<1>5. ASSUME NEW l \in Listing, EditListing(l) \/ Backfill(l)
      PROVE  FALSE
  BY <1>1, <1>2, <1>3, <1>5 DEF EditListing, Backfill
<1>6. ASSUME NEW w \in Worker, NEW i \in Job, Claim(w, i)
      PROVE  FALSE
  BY <1>1, <1>6 DEF Claim, TypeInv, TypeOK, j
<1>7. ASSUME NEW w \in Worker, Complete(w) \/ Release(w)
      PROVE  FALSE
  BY <1>1, <1>7 DEF Complete, Release, Settle, TypeInv, TypeOK, j
<1>8. \/ \E b \in Alert : Create(b) \/ Update(b)
      \/ \E l \in Listing : EditListing(l) \/ Backfill(l)
      \/ \E w \in Worker, i \in Job : Claim(w, i)
      \/ \E w \in Worker : Complete(w) \/ Release(w)
      \/ UNCHANGED job
  BY DEF Next, vars, rows, Remove, SwitchListing, Mark, Run, Crash, Read, SearchListings,
     SearchAlerts, Prune, RunFails, Saving, Upsert, ClaimNotice, Tell, TellFails, GiveBack,
     SaveImpossible, SaveFails, SaveThrows
<1> QED
  BY <1>4, <1>5, <1>6, <1>7, <1>8

(* What a change makes of an alert. *)
LEMMA AlertChanges ==
    ASSUME TypeInv, [Next]_vars, NEW a \in Alert, alert'[a] # alert[a]
    PROVE  \/ Create(a) /\ alert'[a].version = alert[a].version /\ alert'[a].status = "ACTIVE"
           \/ /\ Update(a) /\ alert'[a].version = alert[a].version + 1
              /\ alert'[a].status # "ABSENT"
              /\ alert'[a].status = "ACTIVE" => Enqueue(JobOf("alert", a, alert'[a].version))
           \/ alert'[a].status = "DELETED"
<1>1. \A s : /\ [alert[a] EXCEPT !.status = s].status = s
             /\ [alert[a] EXCEPT !.status = s].version = alert[a].version
  BY VersionFacts DEF TypeInv, AlertRow
<1>2. \A s, n : /\ Edited(a, s, n).status = s
                /\ Edited(a, s, n).version = alert[a].version + 1
  BY VersionFacts DEF TypeInv, AlertRow, Edited
<1>3. ASSUME NEW b \in Alert, Create(b) \/ Update(b) \/ Remove(b)
      PROVE  b = a
  BY <1>3 DEF Create, Update, Remove, TypeInv, TypeOK
<1>4. ASSUME Create(a)
      PROVE  alert'[a].version = alert[a].version /\ alert'[a].status = "ACTIVE"
  <2>1. alert' = [alert EXCEPT ![a] = [alert[a] EXCEPT !.status = "ACTIVE"]]
    BY <1>4 DEF Create
  <2> QED
    BY <1>1, <2>1 DEF TypeInv, TypeOK
<1>5. ASSUME Remove(a)
      PROVE  alert'[a].status = "DELETED"
  <2>1. alert' = [alert EXCEPT ![a] = [alert[a] EXCEPT !.status = "DELETED"]]
    BY <1>5 DEF Remove
  <2> QED
    BY <1>1, <2>1 DEF TypeInv, TypeOK
<1>6. ASSUME Update(a)
      PROVE  /\ alert'[a].version = alert[a].version + 1 /\ alert'[a].status # "ABSENT"
             /\ alert'[a].status = "ACTIVE" => Enqueue(JobOf("alert", a, alert'[a].version))
  <2>1. PICK s \in {"ACTIVE", "PAUSED", "ARCHIVED"}, n \in Need :
           /\ alert' = [alert EXCEPT ![a] = Edited(a, s, n)]
           /\ IF s = "ACTIVE" THEN Enqueue(JobOf("alert", a, alert'[a].version))
              ELSE UNCHANGED job
    BY <1>6 DEF Update
  <2>2. alert'[a] = Edited(a, s, n)
    BY <2>1 DEF TypeInv, TypeOK
  <2>3. alert'[a].status = s /\ alert'[a].version = alert[a].version + 1
    BY <1>2, <2>2
  <2> QED
    BY <2>1, <2>3
<1> QED
  BY <1>3, <1>4, <1>5, <1>6, OnlyPeople DEF EditListing, SwitchListing

LEMMA QueueStep ==
    ASSUME TypeInv, TypeInv', QueueInv, [Next]_vars
    PROVE  QueueInv'
<1>1. ASSUME NEW a \in Alert, alert'[a].status = "ACTIVE"
      PROVE  job'[AlertJob(a)'] # "ABSENT"
  <2>1. alert'[a].version \in Version
    BY DEF TypeInv, TypeOK, AlertRow
  <2>2. PICK v \in Version : v = alert'[a].version
    BY <2>1
  <2>3. JobOf("alert", a, v) \in Job /\ AlertJob(a)' = JobOf("alert", a, v)
    BY <2>2 DEF JobOf, Job, AlertJob
  <2>4. CASE alert'[a] = alert[a]
    <3>1. job[JobOf("alert", a, v)] # "ABSENT"
      BY <1>1, <2>2, <2>4 DEF QueueInv, AlertJob
    <3> QED
      BY <2>3, <3>1, JobStays
  <2>5. CASE alert'[a] # alert[a]
    <3>1. CASE Create(a)
      <4>1. v = 1
        BY <1>1, <2>2, <2>5, <3>1, AlertChanges, VersionFacts DEF Create, QueueInv, Update, TypeInv
      <4> QED
        BY <2>3, <3>1, <4>1 DEF Create, Enqueue, TypeInv, TypeOK
    <3>2. CASE ~Create(a)
      <4>1. Enqueue(JobOf("alert", a, v))
        BY <1>1, <2>2, <2>5, <3>2, AlertChanges
      <4> QED
        BY <2>3, <4>1 DEF Enqueue, TypeInv, TypeOK
    <3> QED
      BY <3>1, <3>2
  <2> QED
    BY <2>4, <2>5
<1>2. ASSUME NEW a \in Alert, alert'[a].status = "ABSENT"
      PROVE  alert'[a].version = 1 /\ job'[AlertJob(a)'] = "ABSENT"
  <2>1. alert'[a] = alert[a]
    BY <1>2, AlertChanges
  <2>2. alert[a].version = 1 /\ job[JobOf("alert", a, 1)] = "ABSENT"
    BY <1>2, <2>1 DEF QueueInv, AlertJob
  <2>3. ~Create(a) /\ ~Update(a)
    <3>1. ~Update(a)
      BY <1>2, <2>1 DEF Update
    <3>2. ASSUME Create(a) PROVE FALSE
      <4>1. alert' = [alert EXCEPT ![a] = [alert[a] EXCEPT !.status = "ACTIVE"]]
        BY <3>2 DEF Create
      <4>2. [alert[a] EXCEPT !.status = "ACTIVE"].status = "ACTIVE"
        BY VersionFacts DEF TypeInv, AlertRow
      <4>3. alert'[a].status = "ACTIVE"
        BY <4>1, <4>2 DEF TypeInv, TypeOK
      <4> QED
        BY <1>2, <4>3
    <3> QED
      BY <3>1, <3>2
  <2>4. job'[JobOf("alert", a, 1)] = "ABSENT"
    BY <2>2, <2>3, AlertQueued, FirstVersion
  <2> QED
    BY <2>1, <2>2, <2>4 DEF AlertJob
<1>3. ASSUME NEW w \in Worker, worker'[w].pc \in Steps
      PROVE  job'[worker'[w].job] # "ABSENT"
  <2>1. PICK j \in Job : j = worker'[w].job
    <3>1. worker'[w] \in InProgress
      BY <1>3 DEF TypeInv, TypeOK, Idle, Steps
    <3> QED
      BY <3>1 DEF InProgress
  <2>2. job[j] # "ABSENT"
    BY <1>3, <2>1, RunsFrom DEF QueueInv
  <2> QED
    BY <2>1, <2>2, JobStays
<1> QED
  BY <1>1, <1>2, <1>3 DEF QueueInv, AlertJob, Steps

(* A version that is new has no run and no finished job. *)
LEMMA FreshJob ==
    ASSUME TypeInv, QueueInv, NEW j \in Job, job[j] = "ABSENT", job'[j] # "COMPLETED",
           UNCHANGED worker, NEW a, NEW l
    PROVE  ~Past(j, a, l)'
BY DEF QueueInv, Past, Steps

LEMMA FreshAlert ==
    ASSUME TypeInv, TypeInv', SnapshotInv, QueueInv, [Next]_vars, NEW a \in Alert, NEW l \in Listing,
           alert'[a] # alert[a], alert'[a].status = "ACTIVE"
    PROVE  ~Past(AlertJob(a), a, l)'
<1>1. PICK v \in Version : v = alert'[a].version
  BY DEF TypeInv, TypeOK, AlertRow
<1> DEFINE j == JobOf("alert", a, v)
<1>2. j \in Job /\ j.kind = "alert" /\ j.id = a /\ j.version = v /\ AlertJob(a)' = j
  BY <1>1 DEF JobOf, Job, AlertJob
<1> HIDE DEF j
<1>3. UNCHANGED worker /\ Enqueue(j) /\ job[j] = "ABSENT"
  <2>1. CASE Create(a)
    <3>1. v = 1 /\ alert[a].version = 1 /\ job[AlertJob(a)] = "ABSENT"
      BY <1>1, <2>1, AlertChanges, VersionFacts DEF QueueInv, Create, Update, TypeInv
    <3> QED
      BY <2>1, <3>1 DEF Create, AlertJob, j
  <2>2. CASE ~Create(a)
    <3>1. Update(a) /\ v = alert[a].version + 1 /\ Enqueue(JobOf("alert", a, v))
      BY <1>1, <2>2, AlertChanges
    <3>2. ~(v <= alert[a].version)
      <4>1. v = alert[a].version + 1 /\ alert[a].version \in Nat
        BY <3>1, VersionFacts DEF TypeInv
      <4> QED
        BY <4>1
    <3>3. job[j] = "ABSENT"
      BY <1>2, <3>2 DEF SnapshotInv, JobsPast, NowAt
    <3> QED
      BY <3>1, <3>3 DEF Update, j
  <2> QED
    BY <2>1, <2>2
<1>4. job'[j] = "PENDING"
  BY <1>2, <1>3 DEF Enqueue, TypeInv, TypeOK
<1>5. ~Past(j, a, l)'
  BY <1>2, <1>3, <1>4, FreshJob
<1> QED
  BY <1>2, <1>5 DEF Past, PendingSave

LEMMA ListingChanges ==
    ASSUME TypeInv, [Next]_vars, NEW l \in Listing, listing'[l] # listing[l], l \notin switched'
    PROVE  /\ listing'[l].version = listing[l].version + 1 /\ UNCHANGED worker
           /\ Enqueue(JobOf("listing", l, listing[l].version + 1)) \/ UNCHANGED job
<1>1. ASSUME NEW k \in Listing, EditListing(k)
      PROVE  /\ listing'[l].version = listing[l].version + 1 /\ UNCHANGED worker
             /\ Enqueue(JobOf("listing", l, listing[l].version + 1))
  <2>1. k = l
    BY <1>1 DEF EditListing, TypeInv, TypeOK
  <2> QED
    BY <1>1, <2>1 DEF EditListing, TypeInv, TypeOK
<1>2. ASSUME NEW k \in Listing, SwitchListing(k)
      PROVE  listing'[l].version = listing[l].version + 1 /\ UNCHANGED <<worker, job>>
  <2>1. k = l
    BY <1>2 DEF SwitchListing, TypeInv, TypeOK
  <2>2. PICK s \in {"ACTIVE", "OTHER"}, raised \in {0, 1} :
           /\ listing' = [listing EXCEPT ![l].status = s, ![l].version = @ + raised]
           /\ switched' = IF raised = 1 THEN switched \ {l} ELSE switched \cup {l}
    BY <1>2, <2>1 DEF SwitchListing
  <2>3. raised = 1
    BY <2>2
  <2> DEFINE r == [listing[l] EXCEPT !.status = s, !.version = listing[l].version + 1]
  <2>4. r.version = listing[l].version + 1 /\ listing' = [listing EXCEPT ![l] = r]
    BY <2>2, <2>3, VersionFacts DEF TypeInv, ListingRow
  <2> HIDE DEF r
  <2> QED
    BY <1>2, <2>4 DEF SwitchListing, TypeInv, TypeOK
<1> QED
  BY <1>1, <1>2, OnlyPeople DEF Create, Update, Remove

LEMMA FreshListing ==
    ASSUME TypeInv, TypeInv', SnapshotInv, QueueInv, [Next]_vars, NEW a \in Alert, NEW l \in Listing,
           listing'[l] # listing[l], l \notin switched'
    PROVE  ~Past(ListingJob(l), a, l)'
<1>1. PICK v \in Version : v = listing'[l].version
  BY DEF TypeInv, TypeOK, ListingRow
<1> DEFINE j == JobOf("listing", l, v)
<1>2. j \in Job /\ j.kind = "listing" /\ j.id = l /\ j.version = v /\ ListingJob(l)' = j
  BY <1>1 DEF JobOf, Job, ListingJob
<1>3. v = listing[l].version + 1 /\ UNCHANGED worker /\ (Enqueue(j) \/ UNCHANGED job)
  BY <1>1, ListingChanges
<1> HIDE DEF j
<1>4. job[j] = "ABSENT"
  <2>1. ~(v <= listing[l].version)
    BY <1>3, VersionFacts DEF TypeInv
  <2> QED
    BY <1>2, <2>1 DEF SnapshotInv, JobsPast, NowAt
<1>5. job'[j] # "COMPLETED"
  BY <1>2, <1>3, <1>4 DEF Enqueue, TypeInv, TypeOK
<1>6. ~Past(j, a, l)'
  BY <1>2, <1>3, <1>4, <1>5, FreshJob
<1> QED
  BY <1>2, <1>6 DEF Past, PendingSave

(* A save that is awaited and has yet to write does so, or its run is over. *)
LEMMA SaveStays ==
    ASSUME TypeInv, [Next]_vars, NEW s \in saves, s.pc = "saving", s.orphaned = 0, s \notin saves'
    PROVE  Upsert(s) \/ worker'[s.by].pc # "saving"
<1>1. ASSUME NEW t \in saves, Upsert(t)
      PROVE  s = t
  BY <1>1, UpsertSaves DEF TypeInv
<1>2. ASSUME NEW t \in saves, t.pc # "saving", NEW pc, Continue(t, pc) \/ Return(t)
      PROVE  FALSE
  BY <1>2 DEF Continue, Return
<1>3. ASSUME NEW t \in saves, SaveThrows(t)
      PROVE  worker'[s.by].pc # "saving"
  <2>1. t.orphaned = 0 /\ t.by = s.by
    <3>1. CASE t.orphaned # 0
      BY <1>3, <3>1 DEF SaveThrows
    <3>2. CASE t.orphaned = 0 /\ t.by # s.by
      BY <1>3, <3>2 DEF SaveThrows, Orphaned
    <3> QED
      BY <3>1, <3>2
  <2>2. Done(s.by, "releasing") /\ s.by \in Worker
    BY <1>3, <2>1, SaveType DEF SaveThrows, TypeInv
  <2> QED
    BY <2>2 DEF Done, TypeInv, TypeOK
<1>4. ASSUME NEW w \in Worker, Crash(w)
      PROVE  worker'[s.by].pc # "saving"
  <2>1. s.by = w
    BY <1>4 DEF Crash
  <2>2. worker' = [worker EXCEPT ![w] = Idle]
    BY <1>4 DEF Crash
  <2> QED
    BY <2>1, <2>2 DEF TypeInv, TypeOK, Idle
<1>5. \/ saves \subseteq saves'
      \/ \E t \in saves : Upsert(t)
      \/ \E t \in saves : /\ t.pc # "saving"
                          /\ Continue(t, "telling") \/ Continue(t, "returning") \/ Return(t)
      \/ \E t \in saves : SaveThrows(t)
      \/ \E w \in Worker : Crash(w)
  BY DEF Next, vars, Create, Update, Remove, EditListing, SwitchListing, Mark, Backfill, Claim,
     Run, Read, SearchListings, SearchAlerts, Prune, Complete, Release, Settle, RunFails, Saving,
     ClaimNotice, Tell, TellFails, GiveBack, SaveImpossible, SaveFails
<1> QED
  BY <1>1, <1>2, <1>3, <1>4, <1>5

(* What has just been written is current unless the save was outdated. *)
LEMMA UpsertCurrent ==
    ASSUME TypeInv, NEW s \in saves, Upsert(s), NEW a \in Alert, NEW l \in Listing,
           s.alert = a, s.listing = l,
           s.alertVersion = alert[a].version, s.listingVersion = listing[l].version
    PROVE  CurrentRow(a, l)'
<1>1. match' = [match EXCEPT ![a][l] = Upserted(s)] /\ UNCHANGED <<alert, listing>>
  BY DEF Upsert
<1>2. match'[a][l] = Upserted(s)
  BY <1>1 DEF TypeInv, TypeOK
<1>3. Upserted(s) # NoRow
  <2>1. \A r \in MatchRow : r # NoRow
    BY DEF MatchRow, NoRow
  <2> QED
    BY <2>1, UpsertedType DEF TypeInv
<1> QED
  BY <1>1, <1>2, <1>3, UpsertedType DEF CurrentRow, TypeInv

(* A pair stops being outdated when it is written anew. *)
LEMMA LateFrom ==
    ASSUME TypeInv, [Next]_vars, NEW a \in Alert, NEW l \in Listing,
           <<a, l>> \in late, <<a, l>> \notin late',
           alert'[a] = alert[a], listing'[l] = listing[l]
    PROVE  CurrentRow(a, l)'
<1>1. ASSUME NEW s \in saves, Upsert(s)
      PROVE  CurrentRow(a, l)'
  <2>1. <<a, l>> = <<s.alert, s.listing>> /\ ~Stale(s)
    BY <1>1 DEF Upsert
  <2> QED
    BY <1>1, <2>1, UpsertCurrent DEF Stale
<1>2. ASSUME NEW b \in Alert, Update(b)
      PROVE  FALSE
  <2>1. b = a
    BY <1>2 DEF Update
  <2>2. PICK s \in {"ACTIVE", "PAUSED", "ARCHIVED"}, n \in Need :
           alert' = [alert EXCEPT ![a] = Edited(a, s, n)]
    BY <1>2, <2>1 DEF Update
  <2>3. Edited(a, s, n).version = alert[a].version + 1
    BY VersionFacts DEF TypeInv, AlertRow, Edited
  <2>4. alert'[a].version = alert[a].version + 1
    BY <2>2, <2>3 DEF TypeInv, TypeOK
  <2> QED
    BY <2>4, VersionFacts DEF TypeInv
<1>3. ASSUME NEW k \in Listing, EditListing(k)
      PROVE  FALSE
  <2>1. k = l
    BY <1>3 DEF EditListing
  <2>2. listing'[l].version = listing[l].version + 1
    BY <1>3, <2>1 DEF EditListing, TypeInv, TypeOK
  <2> QED
    BY <2>2, VersionFacts DEF TypeInv
<1>4. ASSUME NEW k \in Listing, SwitchListing(k)
      PROVE  FALSE
  <2>1. k = l
    BY <1>4 DEF SwitchListing
  <2>2. PICK s \in {"ACTIVE", "OTHER"} \ {listing[l].status}, raised \in {0, 1} :
           listing' = [listing EXCEPT ![l].status = s, ![l].version = @ + raised]
    BY <1>4, <2>1 DEF SwitchListing
  <2> DEFINE r == [listing[l] EXCEPT !.status = s, !.version = listing[l].version + raised]
  <2>3. r.status = s /\ listing' = [listing EXCEPT ![l] = r]
    BY <2>2, VersionFacts DEF TypeInv, ListingRow
  <2> HIDE DEF r
  <2>4. listing'[l].status = s
    BY <2>3 DEF TypeInv, TypeOK
  <2> QED
    BY <2>4
<1>5. ASSUME NEW w \in Worker, Prune(w)
      PROVE  FALSE
  BY <1>5 DEF Prune
<1>6. \/ UNCHANGED late
      \/ \E s \in saves : Upsert(s)
      \/ \E b \in Alert : Update(b)
      \/ \E k \in Listing : EditListing(k) \/ SwitchListing(k)
      \/ \E w \in Worker : Prune(w)
  BY DEF Next, vars, Create, Remove, Mark, Backfill, Claim, Run, Crash, Read, SearchListings,
     SearchAlerts, Complete, Release, Settle, RunFails, Saving, ClaimNotice, Tell, TellFails,
     GiveBack, SaveImpossible, SaveFails, SaveThrows
<1> QED
  BY <1>1, <1>2, <1>3, <1>4, <1>5, <1>6

(* A search finds what fits, with the versions of the moment. *)
LEMMA SearchFinds ==
    ASSUME TypeInv, SnapshotInv, NEW w \in Worker, NEW a \in Alert, NEW l \in Listing, Due(a, l),
           \/ SearchListings(w) /\ worker[w].job = AlertJob(a)
           \/ SearchAlerts(w) /\ worker[w].job = ListingJob(l)
    PROVE  PendingSave(w, a, l)'
<1>1. /\ AlertJob(a).kind = "alert" /\ AlertJob(a).id = a
      /\ AlertJob(a).version = alert[a].version
      /\ ListingJob(l).kind = "listing" /\ ListingJob(l).id = l
      /\ ListingJob(l).version = listing[l].version
      /\ alert[a].version \in Version /\ listing[l].version \in Version
  BY CurrentJobs, VersionFacts DEF TypeInv
<1>2. /\ alert[a].status = "ACTIVE" /\ listing[l].status = "ACTIVE"
      /\ OwnerOf[a] # OwnerOf[l] /\ Fit(alert[a].need, listing[l].offer)
  BY DEF Due, FitsNow
<1> DEFINE s == NewSave(w, a, alert[a].version, l, listing[l].version)
<1>3. /\ s.by = w /\ s.orphaned = 0 /\ s.pc = "saving"
      /\ s.alert = a /\ s.alertVersion = alert[a].version
      /\ s.listing = l /\ s.listingVersion = listing[l].version
  BY DEF NewSave
<1>4. CASE SearchListings(w) /\ worker[w].job = AlertJob(a)
  <2>1. worker[w].pc = "searching" /\ OfAlert(w) /\ Entity(w) = a
    BY <1>1, <1>4 DEF SearchListings, At, Entity
  <2>2. worker[w].content = alert[a].need
    BY <1>1, <1>4, <2>1 DEF SnapshotInv, ReadIsCurrent, NowAt
  <2>3. l \in ListingsFound(a, worker[w].content)
    BY <1>2, <2>2 DEF ListingsFound
  <2>4. /\ saves' = saves \cup {NewSave(w, a, alert[a].version, k, listing[k].version)
                                  : k \in ListingsFound(a, worker[w].content)}
        /\ UNCHANGED <<alert, listing>>
    BY <1>1, <1>4, <2>1 DEF SearchListings
  <2>5. s \in saves'
    BY <2>3, <2>4
  <2> HIDE DEF s
  <2> QED
    BY <1>3, <2>4, <2>5 DEF PendingSave
<1>5. CASE SearchAlerts(w) /\ worker[w].job = ListingJob(l)
  <2>1. worker[w].pc = "searching" /\ ~OfAlert(w) /\ Entity(w) = l
    BY <1>1, <1>5 DEF SearchAlerts, At, Entity
  <2>2. worker[w].content = listing[l].offer
    BY <1>1, <1>5, <2>1 DEF SnapshotInv, ReadIsCurrent, NowAt
  <2>3. a \in AlertsFound(l, worker[w].content)
    BY <1>2, <2>2 DEF AlertsFound
  <2>4. /\ saves' = saves \cup {NewSave(w, b, alert[b].version, l, listing[l].version)
                                  : b \in AlertsFound(l, worker[w].content)}
        /\ UNCHANGED <<alert, listing>>
    BY <1>1, <1>5, <2>1 DEF SearchAlerts
  <2>5. s \in saves'
    BY <2>3, <2>4
  <2> HIDE DEF s
  <2> QED
    BY <1>3, <2>4, <2>5 DEF PendingSave
<1> QED
  BY <1>4, <1>5

(* A run gets past a pair by writing it. *)
LEMMA PastFrom ==
    ASSUME TypeInv, SnapshotInv, [Next]_vars, NEW a \in Alert, NEW l \in Listing, Due(a, l),
           alert'[a] = alert[a], listing'[l] = listing[l],
           NEW j \in Job, j = AlertJob(a) \/ j = ListingJob(l), Past(j, a, l)'
    PROVE  Past(j, a, l) \/ CurrentRow(a, l)'
<1>1. /\ AlertJob(a).kind = "alert" /\ AlertJob(a).id = a
      /\ AlertJob(a).version = alert[a].version
      /\ ListingJob(l).kind = "listing" /\ ListingJob(l).id = l
      /\ ListingJob(l).version = listing[l].version
  BY CurrentJobs
<1>2. CASE job'[j] = "COMPLETED"
  <2>1. ASSUME NEW w \in Worker, Complete(w), worker[w].job = j
        PROVE  Past(j, a, l)
    <3>1. worker[w].pc = "completing" \/ (worker[w].pc = "saving" /\ Awaited(w) = {})
      BY <2>1 DEF Complete, At
    <3>2. Awaited(w) = {} => ~PendingSave(w, a, l)
      BY DEF Awaited, PendingSave
    <3> QED
      BY <2>1, <3>1, <3>2 DEF Past
  <2>2. ASSUME NEW w \in Worker, Complete(w) \/ Release(w), job[j] # "COMPLETED"
        PROVE  Complete(w) /\ worker[w].job = j
    <3>1. CASE Complete(w)
      BY <1>2, <2>2, <3>1 DEF Complete, Settle, TypeInv, TypeOK
    <3>2. CASE Release(w)
      BY <1>2, <2>2, <3>2 DEF Release, Settle, TypeInv, TypeOK
    <3> QED
      BY <2>2, <3>1, <3>2
  <2>3. ASSUME NEW i, Enqueue(i)
        PROVE  job[j] = "COMPLETED"
    BY <1>2, <2>3 DEF Enqueue, TypeInv, TypeOK
  <2>4. ASSUME NEW w \in Worker, NEW i \in Job, Claim(w, i)
        PROVE  job[j] = "COMPLETED"
    BY <1>2, <2>4 DEF Claim, TypeInv, TypeOK
  <2>5. \/ UNCHANGED job
        \/ \E i : Enqueue(i)
        \/ \E w \in Worker, i \in Job : Claim(w, i)
        \/ \E w \in Worker : Complete(w) \/ Release(w)
    BY DEF Next, vars, Create, Update, Remove, EditListing, SwitchListing, Run, Saving, Mark,
       Backfill, Crash, Read, SearchListings, SearchAlerts, Prune, RunFails,
       Upsert, ClaimNotice, Tell, TellFails, GiveBack, SaveImpossible, SaveFails, SaveThrows
  <2> QED
    BY <1>2, <2>1, <2>2, <2>3, <2>4, <2>5 DEF Past
<1>3. ASSUME NEW w \in Worker, worker'[w].pc \in {"saving", "completing"}, worker'[w].job = j,
             worker'[w].pc = "saving" => ~PendingSave(w, a, l)'
      PROVE  Past(j, a, l) \/ CurrentRow(a, l)'
  <2>1. worker[w].pc \in Steps /\ worker[w].job = j
    BY <1>3, RunsFrom DEF Steps
  <2>2. CASE worker'[w] = worker[w]
    <3>1. CASE worker[w].pc = "saving" /\ PendingSave(w, a, l)
      <4>1. PICK s \in saves : /\ s.by = w /\ s.orphaned = 0 /\ s.pc = "saving"
                               /\ s.alert = a /\ s.alertVersion = alert[a].version
                               /\ s.listing = l /\ s.listingVersion = listing[l].version
        BY <3>1 DEF PendingSave
      <4>2. s \notin saves'
        BY <1>3, <2>2, <3>1, <4>1 DEF PendingSave
      <4>3. Upsert(s)
        BY <2>2, <3>1, <4>1, <4>2, SaveStays
      <4> QED
        BY <4>1, <4>3, UpsertCurrent
    <3>2. CASE ~(worker[w].pc = "saving" /\ PendingSave(w, a, l))
      BY <1>3, <2>1, <2>2, <3>2 DEF Past
    <3> QED
      BY <3>1, <3>2
  <2>3. CASE SearchListings(w) \/ SearchAlerts(w)
    <3>1. SearchListings(w) => j = AlertJob(a)
      BY <1>1, <2>1 DEF SearchListings, OfAlert
    <3>2. SearchAlerts(w) => j = ListingJob(l)
      <4>1. worker[w] # Idle
        BY <2>1 DEF Idle, Steps
      <4> QED
        BY <1>1, <2>1, <4>1 DEF SearchAlerts, OfAlert
    <3>3. PendingSave(w, a, l)'
      BY <2>1, <2>3, <3>1, <3>2, SearchFinds
    <3>4. worker[w] \in InProgress
      BY <2>1, RunType DEF TypeInv
    <3>5. worker'[w].pc = "saving"
      BY <2>3, <3>4 DEF SearchListings, SearchAlerts, InProgress, TypeInv, TypeOK
    <3> QED
      BY <1>3, <3>3, <3>5
  <2>4. CASE Prune(w)
    <3>1. ~PendingSave(w, a, l) /\ worker[w].pc = "saving"
      BY <2>4 DEF Prune, Awaited, PendingSave, At
    <3> QED
      BY <2>1, <3>1 DEF Past
  <2>5. CASE Read(w) /\ ~Current(worker[w].job)
    <3>1. Current(j)
      BY <1>1 DEF Current, Due
    <3> QED
      BY <2>1, <2>5, <3>1
  <2> QED
    BY <1>3, <2>2, <2>3, <2>4, <2>5, RunAt
<1> QED
  BY <1>2, <1>3 DEF Past, PendingSave

LEMMA FoundStep ==
    ASSUME TypeInv, TypeInv', SnapshotInv, KeptInv, QueueInv, FoundWhenPast, [Next]_vars
    PROVE  FoundWhenPast'
<1> SUFFICES ASSUME NEW a \in Alert, NEW l \in Listing, Due(a, l)', <<a, l>> \notin late',
                    Past(AlertJob(a), a, l)', Past(ListingJob(l), a, l)'
             PROVE  CurrentRow(a, l)'
    BY DEF FoundWhenPast, Due, FitsNow, CurrentRow, Past, PendingSave, AlertJob, ListingJob
<1>1. alert'[a] = alert[a]
  BY FreshAlert DEF Due
<1>2. listing'[l] = listing[l]
  BY FreshListing DEF Due
<1>3. l \notin switched
  BY <1>2, SwitchIsSeen DEF Due
<1>4. Due(a, l)
  BY <1>1, <1>2, <1>3 DEF Due, FitsNow
<1>5. CASE <<a, l>> \in late
  BY <1>1, <1>2, <1>5, LateFrom
<1>6. CASE <<a, l>> \notin late
  <2>1. AlertJob(a)' = AlertJob(a) /\ ListingJob(l)' = ListingJob(l)
    BY <1>1, <1>2 DEF AlertJob, ListingJob
  <2>2. Past(AlertJob(a), a, l) \/ CurrentRow(a, l)'
    <3>1. PICK j \in Job : j = AlertJob(a)
      BY CurrentJobs
    <3>2. Past(j, a, l)'
      BY <2>1, <3>1 DEF Past, PendingSave
    <3> QED
      BY <1>1, <1>2, <1>4, <3>1, <3>2, PastFrom
  <2>3. Past(ListingJob(l), a, l) \/ CurrentRow(a, l)'
    <3>1. PICK j \in Job : j = ListingJob(l)
      BY CurrentJobs
    <3>2. Past(j, a, l)'
      BY <2>1, <3>1 DEF Past, PendingSave
    <3> QED
      BY <1>1, <1>2, <1>4, <3>1, <3>2, PastFrom
  <2>4. ASSUME CurrentRow(a, l)
        PROVE  CurrentRow(a, l)'
    BY <1>1, <1>2, <1>4, <2>4, RowStep DEF CurrentRow
  <2> QED
    BY <1>4, <1>6, <2>2, <2>3, <2>4 DEF FoundWhenPast
<1> QED
  BY <1>5, <1>6

(* When every job is done, a listing that fits an alert has been found for it, whichever   *)
(* of the two was changed last and whatever failed meanwhile; only a run whose reads were   *)
(* outdated when it wrote or deleted can hide it.                                           *)
THEOREM FoundOnceSettled == Spec => []SettledAlertShown
<1>1. Init => QueueInv /\ FoundWhenPast
  <2> SUFFICES ASSUME Init PROVE QueueInv /\ FoundWhenPast
    OBVIOUS
  <2>1. \A a \in Alert : /\ alert[a].status = "ABSENT" /\ alert[a].version = 1
                         /\ JobOf("alert", a, 1) \in Job /\ JobOf("alert", a, 1).kind = "alert"
    BY FirstVersion DEF Init, JobOf, Job
  <2>2. QueueInv
    BY <2>1 DEF Init, QueueInv, AlertJob, Idle, Steps
  <2> QED
    BY <2>1, <2>2 DEF FoundWhenPast, Due
<1>2. TypeInv /\ TypeInv' /\ QueueInv /\ [Next]_vars => QueueInv'
  BY QueueStep
<1>3. /\ TypeInv /\ TypeInv' /\ SnapshotInv /\ KeptInv /\ QueueInv /\ FoundWhenPast
      /\ [Next]_vars
      => FoundWhenPast'
  BY FoundStep
<1>4. TypeInv /\ QueueInv /\ FoundWhenPast => SettledAlertShown
  <2> SUFFICES ASSUME TypeInv, QueueInv, FoundWhenPast, Settled,
                      NEW a \in Alert, NEW l \in Listing, Due(a, l), <<a, l>> \notin late
               PROVE  Found(a, l)
    BY DEF SettledAlertShown
  <2>1. job[AlertJob(a)] = "COMPLETED"
    BY CurrentJobs DEF Settled, QueueInv, Due
  <2>2. job[ListingJob(l)] = "COMPLETED"
    BY CurrentJobs DEF Settled, Unqueued, ListingJob, Due
  <2>3. CurrentRow(a, l)
    BY <2>1, <2>2 DEF FoundWhenPast, Past
  <2> QED
    BY <2>3 DEF CurrentRow, Found, Shown, Due
<1> QED
  BY <1>1, <1>2, <1>3, <1>4, TypeInvariant, SnapshotInvariant, KeptInvariant, PTL DEF Spec

=============================================================================
