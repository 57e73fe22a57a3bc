---------------------------- MODULE MatchingProofs ----------------------------
(***************************************************************************)
(* What Matching promises of any number of listings, pieces, workers, changes  *)
(* and crashes.                                                                *)
(***************************************************************************)
EXTENDS Matching, TLAPS

-----------------------------------------------------------------------------
(* Types, with what the types of the other variables rest on: the number of changes *)
(* bounds the versions, and a run never pairs a listing with itself.                *)
VersionBound == \A l \in Listing : version[l] <= changes + 1

OthersKept ==
    \A w \in Worker : worker[w] # Idle =>
        \A c \in worker[w].kept : c.listing # Run(w).listing

PairStep == {"joining", "claiming", "notifying", "returning"}

PairsInProgress ==
    \A w \in Worker : worker[w].pc \in PairStep => worker[w].with # Run(w).listing

TypeInv == TypeOK /\ VersionBound /\ OthersKept /\ PairsInProgress

LEMMA PairIs ==
    ASSUME NEW a \in Listing, NEW b \in Listing, a # b
    PROVE  {a, b} \in Pair
    BY DEF Pair

(* A worker at one of the steps has a job. *)
LEMMA Busy ==
    ASSUME TypeOK, NEW w \in Worker, worker[w].pc \in Step
    PROVE  worker[w] \in InProgress
<1>1. worker[w] \in {Idle} \cup InProgress
    BY DEF TypeOK
<1>2. Idle.pc \notin Step
    BY DEF Idle, Step
<1> QED
    BY <1>1, <1>2

LEMMA BusyOrIdle ==
    ASSUME TypeOK, NEW w \in Worker
    PROVE  worker[w] = Idle \/ (worker[w] \in InProgress /\ worker[w] # Idle)
<1>1. Idle \notin InProgress
    BY DEF Idle, InProgress, Step
<1> QED
    BY <1>1 DEF TypeOK

(* What an action makes of its worker's record, the others left alone. *)
LEMMA WorkerStep ==
    ASSUME TypeInv, NEW w \in Worker, NEW r \in InProgress,
           worker' = [worker EXCEPT ![w] = r],
           \A c \in r.kept : c.listing # r.job.listing,
           r.pc \in PairStep => r.with # r.job.listing
    PROVE  /\ worker' \in [Worker -> {Idle} \cup InProgress]
           /\ OthersKept' /\ PairsInProgress'
<1> USE DEF TypeInv, TypeOK
<1>1. worker' \in [Worker -> {Idle} \cup InProgress]
    OBVIOUS
<1>2. OthersKept'
    BY DEF OthersKept, Run
<1>3. PairsInProgress'
    BY DEF PairsInProgress, Run
<1> QED
    BY <1>1, <1>2, <1>3

LEMMA WorkerStops ==
    ASSUME TypeInv, NEW w \in Worker, worker' = [worker EXCEPT ![w] = Idle]
    PROVE  /\ worker' \in [Worker -> {Idle} \cup InProgress]
           /\ OthersKept' /\ PairsInProgress'
<1> USE DEF TypeInv, TypeOK
<1>1. worker' \in [Worker -> {Idle} \cup InProgress]
    OBVIOUS
<1>2. OthersKept'
    BY DEF OthersKept, Run
<1>3. PairsInProgress'
    BY DEF PairsInProgress, Run, PairStep, Idle
<1> QED
    BY <1>1, <1>2, <1>3

(* Going on to a step outside a pair, or within the same pair. *)
LEMMA GotoStep ==
    ASSUME TypeInv, NEW w \in Worker, worker[w].pc \in Step,
           NEW pc \in Step, worker[w].pc \in PairStep \/ pc \notin PairStep,
           Goto(w, pc)
    PROVE  /\ worker' \in [Worker -> {Idle} \cup InProgress]
           /\ OthersKept' /\ PairsInProgress'
<1> DEFINE r == [worker[w] EXCEPT !.pc = pc]
<1>1. worker[w] \in InProgress /\ worker[w] # Idle
    BY Busy, BusyOrIdle DEF TypeInv, Step, Idle
<1>2. r \in InProgress /\ r.pc = pc /\ r.kept = worker[w].kept /\ r.job = worker[w].job
      /\ r.with = worker[w].with
    BY <1>1 DEF InProgress
<1>3. worker' = [worker EXCEPT ![w] = r]
    BY DEF Goto
<1>4. \A c \in r.kept : c.listing # r.job.listing
    BY <1>1, <1>2 DEF TypeInv, OthersKept, Run
<1>5. r.pc \in PairStep => r.with # r.job.listing
    BY <1>1, <1>2 DEF TypeInv, PairsInProgress, Run
<1> HIDE DEF r
<1> QED
    BY <1>2, <1>3, <1>4, <1>5, WorkerStep

LEMMA ThrowStep ==
    ASSUME TypeInv, NEW w \in Worker, worker[w].pc \in Step, Throw(w)
    PROVE  /\ worker' \in [Worker -> {Idle} \cup InProgress]
           /\ OthersKept' /\ PairsInProgress'
<1> DEFINE r == [worker[w] EXCEPT !.pc = "alerting", !.failed = TRUE, !.piece = Unread,
                                  !.kept = {}, !.with = Run(w).listing]
<1>1. worker[w] \in InProgress
    BY Busy DEF TypeInv
<1>2. r \in InProgress /\ r.pc = "alerting" /\ r.kept = {}
    BY <1>1 DEF InProgress, Run, Job, Step
<1>3. worker' = [worker EXCEPT ![w] = r]
    BY DEF Throw
<1> HIDE DEF r
<1> QED
    BY <1>2, <1>3, WorkerStep DEF PairStep

LEMMA ProceedStep ==
    ASSUME TypeInv, NEW w \in Worker, worker[w].pc \in Step, Proceed(w)
    PROVE  /\ worker' \in [Worker -> {Idle} \cup InProgress]
           /\ OthersKept' /\ PairsInProgress'
<1> DEFINE r == [worker[w] EXCEPT !.pc = "pairing", !.with = Run(w).listing]
<1>1. worker[w] \in InProgress /\ worker[w] # Idle
    BY Busy, BusyOrIdle DEF TypeInv, Step, Idle
<1>2. r \in InProgress /\ r.pc = "pairing" /\ r.kept = worker[w].kept
      /\ r.job = worker[w].job
    BY <1>1 DEF InProgress, Run, Job, Step
<1>3. worker' = [worker EXCEPT ![w] = r]
    BY DEF Proceed
<1>4. \A c \in r.kept : c.listing # r.job.listing
    BY <1>1, <1>2 DEF TypeInv, OthersKept, Run
<1> HIDE DEF r
<1> QED
    BY <1>2, <1>3, <1>4, WorkerStep DEF PairStep

(* The type invariant is kept by the steps of a run. *)
LEMMA WorkKeepsTypes ==
    ASSUME TypeInv, NEW w \in Worker, Work(w)
    PROVE  TypeInv'
<1> DEFINE Kept == /\ worker' \in [Worker -> {Idle} \cup InProgress]
                   /\ OthersKept' /\ PairsInProgress'
<1> USE MatchingAssumption
<1>0. worker[w].pc \in Step => worker[w] \in InProgress /\ worker[w] # Idle
    BY Busy, BusyOrIdle DEF TypeInv, Step, Idle
<1>a. worker[w].pc \in PairStep => MatchOf(w) \in Pair
  <2> HAVE worker[w].pc \in PairStep
  <2>1. worker[w] \in InProgress
      BY <1>0 DEF Step, PairStep
  <2>2. worker[w].with \in Listing /\ Run(w).listing \in Listing
      BY <2>1 DEF InProgress, Run, Job
  <2>3. worker[w].with # Run(w).listing
      BY DEF TypeInv, PairsInProgress
  <2> QED
      BY <2>2, <2>3, PairIs DEF MatchOf
<1>1. CASE Check(w)
  <2>1. Kept
      BY <1>1, GotoStep DEF Check, At, Step, PairStep
  <2> QED
      BY <1>1, <2>1 DEF Check, TypeInv, TypeOK, VersionBound, listings, jobs, matches, history, bounds
<1>2. CASE CheckFails(w)
  <2>1. Kept
      BY <1>2, GotoStep DEF CheckFails, At, Step, PairStep
  <2> QED
      BY <1>2, <2>1 DEF CheckFails, TypeInv, TypeOK, VersionBound, listings, jobs, matches, history, bounds
<1>3. CASE ReadListing(w)
  <2>1. ASSUME Current(Run(w)) PROVE Kept
    <3> DEFINE r == [worker[w] EXCEPT !.piece = piece[Run(w).listing], !.pc = "searching"]
    <3>1. worker[w] \in InProgress /\ worker[w] # Idle
        BY <1>0, <1>3 DEF ReadListing, At, Step
    <3>2. r \in InProgress /\ r.pc = "searching" /\ r.kept = worker[w].kept
          /\ r.job = worker[w].job
        BY <3>1 DEF InProgress, Run, Job, Step, TypeInv, TypeOK
    <3>3. worker' = [worker EXCEPT ![w] = r]
        BY <1>3, <2>1 DEF ReadListing
    <3>4. \A c \in r.kept : c.listing # r.job.listing
        BY <3>1, <3>2 DEF TypeInv, OthersKept, Run
    <3> HIDE DEF r
    <3> QED
        BY <3>2, <3>3, <3>4, WorkerStep DEF PairStep
  <2>2. ASSUME ~Current(Run(w)) PROVE Kept
      BY <1>3, <2>2, GotoStep DEF ReadListing, At, Step, PairStep
  <2> QED
      BY <1>3, <2>1, <2>2 DEF ReadListing, TypeInv, TypeOK, VersionBound, listings, jobs, matches, history, bounds
<1>4. CASE Search(w)
  <2> DEFINE k == {[listing |-> l, version |-> version[l]] : l \in Candidates(w)}
             r == [worker[w] EXCEPT !.kept = k, !.piece = Unread, !.pc = "pairing"]
  <2>1. worker[w] \in InProgress /\ worker[w] # Idle
      BY <1>0, <1>4 DEF Search, At, Step
  <2>2. k \subseteq Candidate /\ \A c \in k : c.listing # Run(w).listing
    <3> SUFFICES ASSUME NEW l \in Candidates(w)
                 PROVE  /\ [listing |-> l, version |-> version[l]] \in Candidate
                        /\ l # Run(w).listing
        OBVIOUS
    <3>1. l \in Listing /\ OwnerOf[Run(w).listing] # OwnerOf[l]
        BY DEF Candidates, Compatible
    <3> QED
        BY <3>1 DEF Candidate, TypeInv, TypeOK
  <2> HIDE DEF k
  <2>3. r \in InProgress /\ r.pc = "pairing" /\ r.kept = k /\ r.job = worker[w].job
      BY <2>1, <2>2 DEF InProgress, Step
  <2>4. worker' = [worker EXCEPT ![w] = r]
      BY <1>4 DEF Search, k
  <2> HIDE DEF r
  <2>5. Kept
      BY <2>2, <2>3, <2>4, WorkerStep DEF PairStep, Run
  <2> QED
      BY <1>4, <2>5 DEF Search, TypeInv, TypeOK, VersionBound, listings, jobs, matches, history, bounds
<1>5. CASE SaveMatch(w)
  <2>1. worker[w] \in InProgress /\ worker[w] # Idle
      BY <1>0, <1>5 DEF SaveMatch, At, Step
  <2>2. PICK c \in worker[w].kept :
           LET p == {Run(w).listing, c.listing}
               saved == Snapshot(Run(w).listing, Run(w).version, c)
           IN  /\ row' = [row EXCEPT ![p] = saved]
               /\ newest' = [newest EXCEPT ![p] =
                    [x \in Listing |-> IF saved[x] > @[x] THEN saved[x] ELSE @[x]]]
               /\ worker' = [worker EXCEPT ![w].kept = @ \ {c}, ![w].with = c.listing,
                                           ![w].pc = "joining"]
      BY <1>5 DEF SaveMatch
  <2>3. c \in Candidate /\ Run(w) \in Job /\ c.listing # Run(w).listing
      BY <2>1 DEF InProgress, Run, TypeInv, OthersKept
  <2> DEFINE r == [worker[w] EXCEPT !.kept = @ \ {c}, !.with = c.listing, !.pc = "joining"]
             saved == Snapshot(Run(w).listing, Run(w).version, c)
  <2>4. r \in InProgress /\ r.kept \subseteq worker[w].kept /\ r.job = worker[w].job
        /\ r.with = c.listing
      BY <2>1, <2>3 DEF InProgress, Step, Candidate
  <2>5. worker' = [worker EXCEPT ![w] = r]
      BY <2>2
  <2>6. \A d \in r.kept : d.listing # r.job.listing
      BY <2>1, <2>4 DEF TypeInv, OthersKept, Run
  <2>7. saved \in [Listing -> Version \cup {0}]
      BY <2>3 DEF Snapshot, Candidate, Job
  <2> HIDE DEF r
  <2>8. Kept
      BY <2>3, <2>4, <2>5, <2>6, WorkerStep DEF Run
  <2> HIDE DEF saved
  <2>9. row' \in [Pair -> [Listing -> Version \cup {0}]]
      BY <2>2, <2>7 DEF TypeInv, TypeOK, saved
  <2>10. newest' \in [Pair -> [Listing -> Version \cup {0}]]
      BY <2>2, <2>7 DEF TypeInv, TypeOK, saved
  <2> QED
      BY <1>5, <2>8, <2>9, <2>10 DEF SaveMatch, TypeInv, TypeOK, VersionBound, listings, jobs, bounds
<1>6. CASE JoinParticipants(w)
  <2>1. Kept
      BY <1>6, GotoStep DEF JoinParticipants, At, Step, PairStep
  <2>2. participant' \in [Pair -> [Listing -> {"NONE", "PENDING", "VIEWED", "DISMISSED"}]]
      BY <1>6 DEF JoinParticipants, Joined, TypeInv, TypeOK
  <2> QED
      BY <1>6, <2>1, <2>2 DEF JoinParticipants, TypeInv, TypeOK, VersionBound, listings, jobs, history, bounds
<1>7. CASE ClaimNotice(w)
  <2>1. Kept
      BY <1>7, GotoStep, ProceedStep DEF ClaimNotice, At, Step, PairStep
  <2>2. notified' \subseteq Pair
      BY <1>7, <1>a DEF ClaimNotice, At, PairStep, TypeInv, TypeOK
  <2> QED
      BY <1>7, <2>1, <2>2 DEF ClaimNotice, TypeInv, TypeOK, VersionBound, listings, jobs, history, bounds
<1>8. CASE Notify(w)
  <2>1. Kept
      BY <1>8, GotoStep, ProceedStep DEF Notify, At, Step, PairStep
  <2>2. PICK reached \in SUBSET Recipients(MatchOf(w)) :
           told' = [told EXCEPT ![MatchOf(w)] =
                      [l \in Listing |-> IF l \in reached THEN @[l] + 1 ELSE @[l]]]
      BY <1>8 DEF Notify
  <2> DEFINE counts == [l \in Listing |-> IF l \in reached THEN told[MatchOf(w)][l] + 1
                                         ELSE told[MatchOf(w)][l]]
  <2>4. MatchOf(w) \in Pair
      BY <1>8, <1>a DEF Notify, At, PairStep
  <2>5. counts \in [Listing -> Nat]
      BY <2>4 DEF TypeInv, TypeOK
  <2>6. told' = [told EXCEPT ![MatchOf(w)] = counts]
      BY <2>2
  <2> HIDE DEF counts
  <2>3. told' \in [Pair -> [Listing -> Nat]]
      BY <2>5, <2>6 DEF TypeInv, TypeOK
  <2> QED
      BY <1>8, <2>1, <2>3 DEF Notify, TypeInv, TypeOK, VersionBound, listings, jobs, matches, bounds
<1>9. CASE ReturnNotice(w)
  <2>1. Kept
      BY <1>9, ThrowStep DEF ReturnNotice, At, Step
  <2>2. told' \in [Pair -> [Listing -> Nat]]
      BY <1>9 DEF ReturnNotice, TypeInv, TypeOK
  <2> QED
      BY <1>9, <2>1, <2>2 DEF ReturnNotice, TypeInv, TypeOK, VersionBound, listings, jobs, bounds
<1>10. CASE Stamp(w)
  <2>1. Kept
      BY <1>10, GotoStep DEF Stamp, At, Step, PairStep
  <2>2. Run(w).version \in Version
      BY <1>0, <1>10 DEF Stamp, At, Step, InProgress, Run, Job
  <2>3. matchedVersion' \in [Listing -> Version \cup {0}]
      BY <1>10, <2>2 DEF Stamp, TypeInv, TypeOK
  <2> QED
      BY <1>10, <2>1, <2>3 DEF Stamp, TypeInv, TypeOK, VersionBound, jobs, matches, history, bounds
<1>11. CASE RunFails(w)
  <2>1. Kept
      BY <1>11, ThrowStep DEF RunFails, RunStep, Step
  <2>2. lost' \subseteq Pair
      BY <1>11, <1>a DEF RunFails, At, PairStep, TypeInv, TypeOK
  <2> QED
      BY <1>11, <2>1, <2>2 DEF RunFails, TypeInv, TypeOK, VersionBound, listings, jobs, matches, bounds
<1>12. CASE Alert(w)
  <2>1. PICK error \in BOOLEAN :
           worker' = [worker EXCEPT ![w].failed = worker[w].failed \/ error,
                                    ![w].pc = IF worker[w].failed \/ error THEN "releasing"
                                              ELSE "completing"]
      BY <1>12 DEF Alert
  <2>2. worker[w] \in InProgress /\ worker[w] # Idle
      BY <1>0, <1>12 DEF Alert, At, Step
  <2> DEFINE f == worker[w].failed \/ error
             r == [worker[w] EXCEPT !.failed = f, !.pc = IF f THEN "releasing" ELSE "completing"]
  <2>3. f \in BOOLEAN
      BY <2>2
  <2>4. worker' = [worker EXCEPT ![w] = r]
      BY <2>1
  <2> HIDE DEF f
  <2>5. r \in InProgress /\ r.pc \in {"releasing", "completing"} /\ r.kept = worker[w].kept
        /\ r.job = worker[w].job
      BY <2>2, <2>3 DEF InProgress, Step
  <2> HIDE DEF r
  <2>6. \A c \in r.kept : c.listing # r.job.listing
      BY <2>2, <2>5 DEF TypeInv, OthersKept, Run
  <2>7. Kept
      BY <2>4, <2>5, <2>6, WorkerStep DEF PairStep
  <2> QED
      BY <1>12, <2>7 DEF Alert, TypeInv, TypeOK, VersionBound, listings, jobs, matches, history, bounds
<1>13. CASE Complete(w)
  <2>1. Kept
      BY <1>13, WorkerStops DEF Complete, Settle
  <2> QED
      BY <1>13, <2>1 DEF Complete, Settle, TypeInv, TypeOK, VersionBound, listings, matches, history, bounds
<1>14. CASE CompleteFails(w)
  <2>1. Kept
      BY <1>14, GotoStep DEF CompleteFails, At, Step, PairStep
  <2> QED
      BY <1>14, <2>1 DEF CompleteFails, TypeInv, TypeOK, VersionBound, listings, jobs, matches, history, bounds
<1>15. CASE Release(w)
  <2>1. Kept
      BY <1>15, WorkerStops DEF Release, Settle
  <2> QED
      BY <1>15, <2>1 DEF Release, Released, Settle, TypeInv, TypeOK, VersionBound, listings, matches, history, bounds
<1> QED
    BY <1>1, <1>2, <1>3, <1>4, <1>5, <1>6, <1>7, <1>8, <1>9, <1>10, <1>11, <1>12, <1>13, <1>14,
       <1>15 DEF Work

LEMMA ChangesKeepTypes ==
    ASSUME TypeInv, NEW l \in Listing,
           \/ Edit(l) \/ GuestUpdate(l) \/ Withdraw(l)
           \/ \E s \in Moderation : Moderate(l, s)
    PROVE  TypeInv'
<1> USE MatchingAssumption DEF TypeInv, TypeOK
<1>1. UNCHANGED <<worker, row, notified, newest, told, lost, crashes, expired, attempts,
                  matchedVersion, participant>>
    BY DEF Edit, GuestUpdate, Withdraw, Moderate, jobs, matches
<1>2. OthersKept' /\ PairsInProgress'
    BY <1>1 DEF OthersKept, PairsInProgress, Run
<1>3. changes < MaxChanges /\ changes' = changes + 1
    BY DEF Edit, GuestUpdate, Withdraw, Moderate, NextVersion, Change
<1>4. version' = [version EXCEPT ![l] = @ + 1] \/ version' = version
    BY DEF Edit, GuestUpdate, Withdraw, Moderate, NextVersion
<1>5. version' \in [Listing -> Version] /\ VersionBound'
  <2>1. version[l] \in Nat /\ version[l] + 1 <= changes' + 1 /\ version[l] + 1 \in Version
      BY <1>3 DEF VersionBound, Version
  <2>2. version' \in [Listing -> Version]
      BY <1>4, <2>1
  <2>3. \A x \in Listing : version'[x] = version[x] \/ (x = l /\ version'[x] = version[l] + 1)
      BY <1>4
  <2>4. ASSUME NEW x \in Listing PROVE version'[x] <= changes' + 1
    <3>1. changes \in Nat /\ version[x] \in Nat /\ version[x] <= changes + 1
        BY DEF VersionBound, Version
    <3>2. CASE version'[x] = version[x]
        BY <1>3, <3>1, <3>2
    <3>3. CASE x = l /\ version'[x] = version[l] + 1
        BY <2>1, <3>3
    <3> QED
        BY <2>3, <3>2, <3>3
  <2> QED
      BY <2>2, <2>4 DEF VersionBound
<1>6. status' \in [Listing -> {"ACTIVE", "HIDDEN", "CLOSED"}]
  <2>1. PICK s \in {"ACTIVE", "HIDDEN", "CLOSED"} : status' = [status EXCEPT ![l] = s]
      BY DEF Edit, GuestUpdate, Withdraw, Moderate, MayBecome
  <2> QED
      BY <2>1
<1>7. piece' \in [Listing -> Piece]
    BY DEF Edit, GuestUpdate, Withdraw, Moderate
<1>8. jobStatus' \in [Job -> {"ABSENT", "PENDING", "PROCESSING", "COMPLETED", "FAILED"}]
    BY DEF Edit, GuestUpdate, Withdraw, Moderate, Enqueue, jobs
<1>9. moderated' \subseteq Listing
    BY DEF Edit, GuestUpdate, Withdraw, Moderate, NextVersion
<1> QED
    BY <1>1, <1>2, <1>3, <1>5, <1>6, <1>7, <1>8, <1>9 DEF jobs, matches

LEMMA TypeStep == TypeInv /\ [Next]_vars => TypeInv'
<1> SUFFICES ASSUME TypeInv, [Next]_vars PROVE TypeInv'
    OBVIOUS
<1> USE MatchingAssumption DEF TypeInv, TypeOK
<1>1. ASSUME UNCHANGED worker PROVE OthersKept' /\ PairsInProgress'
    BY <1>1 DEF OthersKept, PairsInProgress, Run
<1>2. ASSUME NEW l \in Listing, Edit(l) \/ GuestUpdate(l) \/ Withdraw(l) PROVE TypeInv'
    BY <1>2, ChangesKeepTypes
<1>3. ASSUME NEW l \in Listing, NEW s \in Moderation, Moderate(l, s) PROVE TypeInv'
    BY <1>3, ChangesKeepTypes
<1>4. CASE Backfill
    BY <1>1, <1>4 DEF Backfill, VersionBound, listings, matches, history, bounds
<1>5. ASSUME NEW p \in Pair, NEW l \in p \ GuestListing, NEW s \in Marks, Mark(p, l, s)
      PROVE TypeInv'
  <2>1. participant' \in [Pair -> [Listing -> {"NONE", "PENDING", "VIEWED", "DISMISSED"}]]
      BY <1>5 DEF Mark
  <2>2. changes' \in 0..MaxChanges /\ changes' >= changes
      BY <1>5 DEF Mark, Change
  <2>3. VersionBound'
      BY <1>5, <2>2 DEF Mark, VersionBound, listings, Version
  <2> QED
      BY <1>1, <1>5, <2>1, <2>2, <2>3 DEF Mark, listings, jobs, history
<1>6. ASSUME NEW j \in Job, LeaseExpires(j) PROVE TypeInv'
    BY <1>1, <1>6 DEF LeaseExpires, VersionBound, listings, matches, history, bounds
<1>7. ASSUME NEW w \in Worker, NEW j \in Job, Claim(w, j) PROVE TypeInv'
  <2> DEFINE n == IF attempts[j] < MaxAttempts THEN attempts[j] + 1 ELSE attempts[j]
             r == [pc |-> "checking", job |-> j, attempt |-> n, piece |-> Unread,
                   kept |-> {}, with |-> j.listing, failed |-> FALSE]
  <2>1. n \in 1..MaxAttempts
      OBVIOUS
  <2>2. attempts' = [attempts EXCEPT ![j] = n] /\ worker' = [worker EXCEPT ![w] = r]
      BY <1>7 DEF Claim
  <2> HIDE DEF n
  <2>3. r \in InProgress /\ r.pc = "checking" /\ r.kept = {}
      BY <2>1 DEF InProgress, Step, Job
  <2> HIDE DEF r
  <2>4. worker' \in [Worker -> {Idle} \cup InProgress] /\ OthersKept' /\ PairsInProgress'
      BY <2>2, <2>3, WorkerStep DEF PairStep
  <2>5. attempts' \in [Job -> 0..MaxAttempts]
      BY <2>1, <2>2
  <2> QED
      BY <1>7, <2>4, <2>5 DEF Claim, VersionBound, listings, matches, history, bounds
<1>8. ASSUME NEW w \in Worker, Work(w) PROVE TypeInv'
    BY <1>8, WorkKeepsTypes
<1>9. ASSUME NEW w \in Worker, Crash(w) PROVE TypeInv'
  <2>1. worker' \in [Worker -> {Idle} \cup InProgress] /\ OthersKept' /\ PairsInProgress'
      BY <1>9, WorkerStops DEF Crash
  <2>2. ASSUME worker[w].pc \in {"notifying", "returning"} PROVE MatchOf(w) \in Pair
    <3>1. worker[w] \in InProgress
        BY <2>2, Busy DEF Step
    <3>2. worker[w].with \in Listing /\ Run(w).listing \in Listing
        BY <3>1 DEF InProgress, Run, Job
    <3>3. worker[w].with # Run(w).listing
        BY <2>2 DEF PairsInProgress, PairStep
    <3> QED
        BY <3>2, <3>3, PairIs DEF MatchOf
  <2>3. lost' \subseteq Pair
      BY <1>9, <2>2 DEF Crash
  <2> QED
      BY <1>9, <2>1, <2>3 DEF Crash, VersionBound, listings, jobs, matches
<1>10. CASE UNCHANGED vars
    BY <1>1, <1>10 DEF vars, VersionBound, listings, jobs, matches, history, bounds
<1> QED
    BY <1>2, <1>3, <1>4, <1>5, <1>6, <1>7, <1>8, <1>9, <1>10 DEF Next

LEMMA TypeInit == Init => TypeInv
<1> SUFFICES ASSUME Init PROVE TypeInv
    OBVIOUS
<1> USE MatchingAssumption DEF Init
<1>1. TypeOK
    BY DEF TypeOK, Version
<1>2. VersionBound
  <2>1. \A l \in Listing : version[l] = 1 /\ changes = 0
      OBVIOUS
  <2>2. \A l \in Listing : version[l] <= changes + 1
      BY <2>1, 1 <= 0 + 1
  <2> QED
      BY <2>2 DEF VersionBound
<1>3. OthersKept /\ PairsInProgress
    BY DEF OthersKept, PairsInProgress, PairStep, Idle
<1> QED
    BY <1>1, <1>2, <1>3 DEF TypeInv

LEMMA TypeInvariant == Spec => []TypeInv
    BY TypeInit, TypeStep, PTL DEF Spec

(* Type correctness, for every value of the constants; the types of the match keep a *)
(* run from pairing a listing with itself.                                            *)
THEOREM TypeCorrect == Spec => []TypeOK
<1>1. TypeInv => TypeOK
    BY DEF TypeInv
<1> QED
    BY <1>1, TypeInvariant, PTL

-----------------------------------------------------------------------------
(* Snapshots.  A version is never taken twice, and contents change with it: whatever  *)
(* was recorded of a version that is still the current one is still true.             *)
RowsPast == \A p \in Pair, l \in Listing : row[p][l] <= version[l]

JobsPast == \A j \in Job : jobStatus[j] # "ABSENT" => j.version <= version[j.listing]

RunsPast ==
    \A w \in Worker : worker[w] # Idle =>
        /\ Run(w).version <= version[Run(w).listing]
        /\ \A c \in worker[w].kept : c.version <= version[c.listing]

RunIsCurrent(w) == version[Run(w).listing] = Run(w).version

ReadIsCurrent ==
    \A w \in Worker :
        worker[w].pc = "searching" /\ RunIsCurrent(w)
            => worker[w].piece = piece[Run(w).listing]

KeptFit ==
    \A w \in Worker : worker[w] # Idle /\ RunIsCurrent(w) =>
        \A c \in worker[w].kept : version[c.listing] = c.version =>
            Compatible(Run(w).listing, piece[Run(w).listing], c.listing, piece[c.listing])

RowsFit == \A p \in Pair : (\A l \in p : row[p][l] = version[l]) => Fit(p)

SnapshotInv ==
    RowsPast /\ JobsPast /\ RunsPast /\ ReadIsCurrent /\ KeptFit /\ RowsFit

-----------------------------------------------------------------------------
(* Outcomes.  A run about to be taken for a success has stamped its listing, if the   *)
(* listing is still what the run was for.                                             *)
Succeeding(w) ==
    \/ worker[w].pc = "completing"
    \/ worker[w].pc = "alerting" /\ ~worker[w].failed

SuccessIsStamped ==
    \A w \in Worker :
        Succeeding(w) /\ Current(Run(w)) /\ Run(w).listing \notin moderated
            => matchedVersion[Run(w).listing] = Run(w).version

OutcomeInv == SuccessIsStamped /\ CompletedMeansMatched

-----------------------------------------------------------------------------
(* Notices.  Whoever is telling the owners of a match holds its claim alone, and the   *)
(* owners of an unclaimed match have not been told since it was given back.            *)
Telling(w) == worker[w].pc \in {"notifying", "returning"}

OneTeller ==
    \A v, w \in Worker : v # w /\ Telling(v) /\ Telling(w) => MatchOf(v) # MatchOf(w)

TellerHasClaim == \A w \in Worker : Telling(w) => MatchOf(w) \in notified

NotYetTold ==
    \A w \in Worker : worker[w].pc = "notifying" =>
        \A l \in Listing : told[MatchOf(w)][l] = 0

UnclaimedUntold == \A p \in Pair \ notified : \A l \in Listing : told[p][l] = 0

NoticeInv ==
    OneTeller /\ TellerHasClaim /\ NotYetTold /\ UnclaimedUntold
    /\ AnnouncedOnce /\ ClaimedMeansTold

-----------------------------------------------------------------------------
(* What the steps do, in the terms of these invariants. *)
LEMMA GotoFields ==
    ASSUME TypeOK, NEW w \in Worker, NEW pc, worker[w].pc \in Step, Goto(w, pc)
    PROVE  /\ \A x \in Worker \ {w} : worker'[x] = worker[x]
           /\ worker'[w].pc = pc
           /\ worker'[w].job = worker[w].job /\ worker'[w].kept = worker[w].kept
           /\ worker'[w].with = worker[w].with /\ worker'[w].failed = worker[w].failed
<1>1. worker[w] \in InProgress
    BY Busy
<1>2. \A x \in Worker \ {w} : worker'[x] = worker[x]
    BY DEF Goto, TypeOK
<1>3. worker'[w] = [worker[w] EXCEPT !.pc = pc]
    BY DEF Goto, TypeOK
<1> QED
    BY <1>1, <1>2, <1>3 DEF InProgress

LEMMA ThrowFields ==
    ASSUME TypeOK, NEW w \in Worker, worker[w].pc \in Step, Throw(w)
    PROVE  /\ \A x \in Worker \ {w} : worker'[x] = worker[x]
           /\ worker'[w].pc = "alerting" /\ worker'[w].failed
           /\ worker'[w].job = worker[w].job /\ worker'[w].kept = {}
<1>1. worker[w] \in InProgress
    BY Busy
<1>2. \A x \in Worker \ {w} : worker'[x] = worker[x]
    BY DEF Throw, TypeOK
<1>3. worker'[w] = [worker[w] EXCEPT !.pc = "alerting", !.failed = TRUE, !.piece = Unread,
                                     !.kept = {}, !.with = Run(w).listing]
    BY DEF Throw, TypeOK
<1> QED
    BY <1>1, <1>2, <1>3 DEF InProgress

LEMMA ProceedFields ==
    ASSUME TypeOK, NEW w \in Worker, worker[w].pc \in Step, Proceed(w)
    PROVE  /\ \A x \in Worker \ {w} : worker'[x] = worker[x]
           /\ worker'[w].pc = "pairing"
           /\ worker'[w].job = worker[w].job /\ worker'[w].kept = worker[w].kept
           /\ worker'[w].failed = worker[w].failed
<1>1. worker[w] \in InProgress
    BY Busy
<1>2. \A x \in Worker \ {w} : worker'[x] = worker[x]
    BY DEF Proceed, TypeOK
<1>3. worker'[w] = [worker[w] EXCEPT !.pc = "pairing", !.with = Run(w).listing]
    BY DEF Proceed, TypeOK
<1> QED
    BY <1>1, <1>2, <1>3 DEF InProgress

(* The other steps of a worker, field by field. *)
LEMMA SearchFields ==
    ASSUME TypeOK, NEW w \in Worker, Search(w)
    PROVE  /\ \A x \in Worker \ {w} : worker'[x] = worker[x]
           /\ worker'[w].pc = "pairing" /\ worker'[w].job = worker[w].job
           /\ worker'[w].kept = {[listing |-> l, version |-> version[l]] : l \in Candidates(w)}
<1>1. worker[w] \in InProgress
    BY Busy DEF Search, At, Step
<1> DEFINE k == {[listing |-> l, version |-> version[l]] : l \in Candidates(w)}
<1>2. worker' = [worker EXCEPT ![w] = [worker[w] EXCEPT !.kept = k, !.piece = Unread,
                                                       !.pc = "pairing"]]
    BY DEF Search
<1> HIDE DEF k
<1>3. /\ \A x \in Worker \ {w} : worker'[x] = worker[x]
      /\ worker'[w] = [worker[w] EXCEPT !.kept = k, !.piece = Unread, !.pc = "pairing"]
    BY <1>2 DEF TypeOK
<1>4. worker'[w].pc = "pairing" /\ worker'[w].job = worker[w].job /\ worker'[w].kept = k
    BY <1>1, <1>3 DEF InProgress
<1> QED
    BY <1>3, <1>4 DEF k

LEMMA ReadFields ==
    ASSUME TypeOK, NEW w \in Worker, ReadListing(w), Current(Run(w))
    PROVE  /\ \A x \in Worker \ {w} : worker'[x] = worker[x]
           /\ worker'[w].pc = "searching" /\ worker'[w].piece = piece[Run(w).listing]
           /\ worker'[w].job = worker[w].job /\ worker'[w].kept = worker[w].kept
<1>1. worker[w] \in InProgress
    BY Busy DEF ReadListing, At, Step
<1>2. worker' = [worker EXCEPT ![w] = [worker[w] EXCEPT !.piece = piece[Run(w).listing],
                                                       !.pc = "searching"]]
    BY DEF ReadListing
<1>3. /\ \A x \in Worker \ {w} : worker'[x] = worker[x]
      /\ worker'[w] = [worker[w] EXCEPT !.piece = piece[Run(w).listing], !.pc = "searching"]
    BY <1>2 DEF TypeOK
<1> QED
    BY <1>1, <1>3 DEF InProgress

LEMMA AlertFields ==
    ASSUME TypeOK, NEW w \in Worker, Alert(w)
    PROVE  /\ \A x \in Worker \ {w} : worker'[x] = worker[x]
           /\ \/ worker'[w].pc = "releasing"
              \/ worker'[w].pc = "completing" /\ ~worker[w].failed
           /\ worker'[w].job = worker[w].job /\ worker'[w].kept = worker[w].kept
<1>1. worker[w] \in InProgress
    BY Busy DEF Alert, At, Step
<1>2. PICK error \in BOOLEAN :
         worker' = [worker EXCEPT ![w].failed = worker[w].failed \/ error,
                                  ![w].pc = IF worker[w].failed \/ error THEN "releasing"
                                            ELSE "completing"]
    BY DEF Alert
<1> DEFINE f == worker[w].failed \/ error
           q == IF f THEN "releasing" ELSE "completing"
<1>3. worker' = [worker EXCEPT ![w] = [worker[w] EXCEPT !.failed = f, !.pc = q]]
    BY <1>2
<1>4. q = "releasing" \/ (q = "completing" /\ ~worker[w].failed)
    OBVIOUS
<1> HIDE DEF f, q
<1>5. /\ \A x \in Worker \ {w} : worker'[x] = worker[x]
      /\ worker'[w] = [worker[w] EXCEPT !.failed = f, !.pc = q]
    BY <1>3 DEF TypeOK
<1>6. worker'[w].pc = q /\ worker'[w].job = worker[w].job /\ worker'[w].kept = worker[w].kept
    BY <1>1, <1>5 DEF InProgress
<1> QED
    BY <1>4, <1>5, <1>6

LEMMA SaveFields ==
    ASSUME TypeOK, NEW w \in Worker, SaveMatch(w)
    PROVE  \E c \in worker[w].kept :
              /\ row' = [row EXCEPT ![{Run(w).listing, c.listing}] =
                            Snapshot(Run(w).listing, Run(w).version, c)]
              /\ newest' = [newest EXCEPT ![{Run(w).listing, c.listing}] = [x \in Listing |->
                    IF Snapshot(Run(w).listing, Run(w).version, c)[x] > @[x]
                    THEN Snapshot(Run(w).listing, Run(w).version, c)[x] ELSE @[x]]]
              /\ \A x \in Worker \ {w} : worker'[x] = worker[x]
              /\ worker'[w].pc = "joining" /\ worker'[w].job = worker[w].job
              /\ worker'[w].kept = worker[w].kept \ {c} /\ worker'[w].with = c.listing
<1>1. worker[w] \in InProgress
    BY Busy DEF SaveMatch, At, Step
<1>2. PICK c \in worker[w].kept :
         /\ row' = [row EXCEPT ![{Run(w).listing, c.listing}] =
                            Snapshot(Run(w).listing, Run(w).version, c)]
         /\ newest' = [newest EXCEPT ![{Run(w).listing, c.listing}] = [x \in Listing |->
               IF Snapshot(Run(w).listing, Run(w).version, c)[x] > @[x]
               THEN Snapshot(Run(w).listing, Run(w).version, c)[x] ELSE @[x]]]
         /\ worker' = [worker EXCEPT ![w].kept = @ \ {c}, ![w].with = c.listing,
                                     ![w].pc = "joining"]
    BY DEF SaveMatch
<1>3. worker' = [worker EXCEPT ![w] = [worker[w] EXCEPT !.kept = @ \ {c}, !.with = c.listing,
                                                       !.pc = "joining"]]
    BY <1>2
<1>4. /\ \A x \in Worker \ {w} : worker'[x] = worker[x]
      /\ worker'[w] = [worker[w] EXCEPT !.kept = @ \ {c}, !.with = c.listing, !.pc = "joining"]
    BY <1>3 DEF TypeOK
<1>5. /\ worker'[w].pc = "joining" /\ worker'[w].job = worker[w].job
      /\ worker'[w].kept = worker[w].kept \ {c} /\ worker'[w].with = c.listing
    BY <1>1, <1>4 DEF InProgress
<1> QED
    BY <1>2, <1>4, <1>5

(* A change of a listing's version, whoever makes it. *)
LEMMA ChangeStep ==
    ASSUME TypeInv, NEW l \in Listing, Edit(l) \/ GuestUpdate(l) \/ Withdraw(l)
    PROVE  /\ version'[l] = version[l] + 1 /\ moderated' = moderated \ {l}
           /\ \A x \in Listing \ {l} : /\ version'[x] = version[x] /\ piece'[x] = piece[x]
                                       /\ status'[x] = status[x]
           /\ \A j \in Job :
                jobStatus'[j] = jobStatus[j]
                \/ (/\ jobStatus'[j] = "PENDING"
                    /\ j.listing = l /\ j.version = version[l] + 1)
           /\ UNCHANGED <<matchedVersion, row, worker, notified, told, lost, participant>>
<1> USE DEF TypeInv, TypeOK
<1>1. version'[l] = version[l] + 1 /\ moderated' = moderated \ {l}
    BY DEF Edit, GuestUpdate, Withdraw, NextVersion
<1>2. ASSUME NEW x \in Listing \ {l}
      PROVE  version'[x] = version[x] /\ piece'[x] = piece[x] /\ status'[x] = status[x]
    BY DEF Edit, GuestUpdate, Withdraw, NextVersion
<1>3. ASSUME NEW j \in Job
      PROVE  jobStatus'[j] = jobStatus[j]
             \/ (/\ jobStatus'[j] = "PENDING"
                 /\ j.listing = l /\ j.version = version[l] + 1)
    BY DEF Edit, GuestUpdate, Withdraw, Enqueue, jobs
<1>4. UNCHANGED <<matchedVersion, row, worker, notified, told, lost, participant>>
    BY DEF Edit, GuestUpdate, Withdraw, jobs, matches
<1> QED
    BY <1>1, <1>2, <1>3, <1>4

-----------------------------------------------------------------------------
(* The invariant on snapshots is kept. *)
LEMMA SnapshotFrame ==
    ASSUME SnapshotInv, UNCHANGED <<version, piece, row, jobStatus, worker>>
    PROVE  SnapshotInv'
<1> USE DEF SnapshotInv
<1>1. RowsPast' /\ JobsPast' /\ RunsPast'
    BY DEF RowsPast, JobsPast, RunsPast, Run
<1>2. ReadIsCurrent' /\ KeptFit'
    BY DEF ReadIsCurrent, KeptFit, RunIsCurrent, Run, Compatible
<1>3. RowsFit'
    BY DEF RowsFit, Fit, Compatible
<1> QED
    BY <1>1, <1>2, <1>3

LEMMA SnapshotRun ==
    ASSUME TypeInv, SnapshotInv, NEW w \in Worker,
           UNCHANGED <<version, piece, row>>,
           \A j \in Job : jobStatus'[j] # "ABSENT" => jobStatus[j] # "ABSENT",
           \A x \in Worker \ {w} : worker'[x] = worker[x],
           \/ worker'[w] = Idle
           \/ /\ worker[w] # Idle
              /\ worker'[w].job = worker[w].job /\ worker'[w].kept \subseteq worker[w].kept
              /\ worker'[w].pc # "searching"
    PROVE  SnapshotInv'
<1> USE DEF SnapshotInv
<1>1. RowsPast' /\ JobsPast'
    BY DEF RowsPast, JobsPast
<1>2. RunsPast'
    BY DEF RunsPast, Run
<1>3. ReadIsCurrent'
    BY DEF ReadIsCurrent, RunIsCurrent, Run, Idle
<1>4. KeptFit'
    BY DEF KeptFit, RunIsCurrent, Run, Compatible
<1>5. RowsFit'
    BY DEF RowsFit, Fit, Compatible
<1> QED
    BY <1>1, <1>2, <1>3, <1>4, <1>5

LEMMA SnapshotChange ==
    ASSUME TypeInv, SnapshotInv, NEW l \in Listing, Edit(l) \/ GuestUpdate(l) \/ Withdraw(l)
    PROVE  SnapshotInv'
<1> USE DEF SnapshotInv
<1>1. /\ version'[l] = version[l] + 1
      /\ \A x \in Listing \ {l} : version'[x] = version[x] /\ piece'[x] = piece[x]
      /\ \A j \in Job : jobStatus'[j] = jobStatus[j]
                         \/ (j.listing = l /\ j.version = version[l] + 1)
      /\ row' = row /\ worker' = worker
    BY ChangeStep
<1>2. \A x \in Listing : version[x] \in Nat /\ version'[x] \in Nat
                         /\ version[x] <= version'[x]
    BY <1>1 DEF TypeInv, TypeOK, Version
<1>3. RowsPast'
  <2> SUFFICES ASSUME NEW p \in Pair, NEW x \in Listing PROVE row[p][x] <= version'[x]
      BY <1>1 DEF RowsPast
  <2>1. row[p][x] \in Nat /\ row[p][x] <= version[x]
      BY DEF RowsPast, TypeInv, TypeOK, Version
  <2> QED
      BY <1>2, <2>1
<1>4. JobsPast'
  <2> SUFFICES ASSUME NEW j \in Job, jobStatus'[j] # "ABSENT"
               PROVE  j.version <= version'[j.listing]
      BY DEF JobsPast
  <2>1. j.listing \in Listing /\ j.version \in Nat
      BY DEF Job, Version
  <2>2. CASE jobStatus'[j] = jobStatus[j]
    <3>1. j.version <= version[j.listing]
        BY <2>2 DEF JobsPast
    <3> QED
        BY <1>2, <2>1, <3>1
  <2>3. CASE j.listing = l /\ j.version = version[l] + 1
      BY <1>1, <1>2, <2>3
  <2> QED
      BY <1>1, <2>2, <2>3
<1>5. ASSUME NEW w \in Worker, worker[w] # Idle
      PROVE  /\ Run(w).listing \in Listing /\ Run(w).version \in Nat
             /\ Run(w).version <= version[Run(w).listing]
             /\ \A c \in worker[w].kept : /\ c.listing \in Listing /\ c.version \in Nat
                                          /\ c.version <= version[c.listing]
  <2>1. worker[w] \in InProgress
      BY <1>5, BusyOrIdle DEF TypeInv
  <2> QED
      BY <1>5, <2>1 DEF RunsPast, InProgress, Run, Job, Candidate, Version
<1>6. RunsPast'
  <2> SUFFICES ASSUME NEW w \in Worker, worker[w] # Idle
               PROVE  /\ Run(w).version <= version'[Run(w).listing]
                      /\ \A c \in worker[w].kept : c.version <= version'[c.listing]
      BY <1>1 DEF RunsPast, Run
  <2> QED
      BY <1>2, <1>5
<1>7. ReadIsCurrent'
  <2> SUFFICES ASSUME NEW w \in Worker, worker[w].pc = "searching",
                      version'[Run(w).listing] = Run(w).version
               PROVE  worker[w].piece = piece'[Run(w).listing]
      BY <1>1 DEF ReadIsCurrent, RunIsCurrent, Run
  <2>1. worker[w] # Idle
      BY DEF Idle
  <2>2. Run(w).listing # l
      BY <1>1, <1>2, <1>5, <2>1
  <2> QED
      BY <1>1, <1>5, <2>1, <2>2 DEF ReadIsCurrent, RunIsCurrent
<1>8. KeptFit'
  <2> SUFFICES ASSUME NEW w \in Worker, worker[w] # Idle,
                      version'[Run(w).listing] = Run(w).version,
                      NEW c \in worker[w].kept, version'[c.listing] = c.version
               PROVE  Compatible(Run(w).listing, piece'[Run(w).listing],
                                 c.listing, piece'[c.listing])
      BY <1>1 DEF KeptFit, RunIsCurrent, Run, Compatible
  <2>1. Run(w).listing # l /\ c.listing # l
      BY <1>1, <1>2, <1>5
  <2> QED
      BY <1>1, <1>5, <2>1 DEF KeptFit, RunIsCurrent
<1>9. RowsFit'
  <2> SUFFICES ASSUME NEW p \in Pair, \A x \in p : row[p][x] = version'[x]
               PROVE  Fit(p)'
      BY <1>1 DEF RowsFit
  <2>1. p \subseteq Listing
      BY DEF Pair
  <2>2. l \notin p
    <3> SUFFICES ASSUME l \in p PROVE FALSE
        OBVIOUS
    <3>1. row[p][l] = version[l] + 1
        BY <1>1
    <3>2. row[p][l] \in Nat /\ row[p][l] <= version[l]
        BY DEF RowsPast, TypeInv, TypeOK, Version
    <3> QED
        BY <1>2, <3>1, <3>2
  <2>3. Fit(p)
      BY <1>1, <2>1, <2>2 DEF RowsFit
  <2> QED
      BY <1>1, <2>1, <2>2, <2>3 DEF Fit, Compatible
<1> QED
    BY <1>3, <1>4, <1>6, <1>7, <1>8, <1>9

LEMMA SnapshotSearch ==
    ASSUME TypeInv, SnapshotInv, NEW w \in Worker, Search(w)
    PROVE  SnapshotInv'
<1> USE DEF SnapshotInv
<1>1. /\ \A x \in Worker \ {w} : worker'[x] = worker[x]
      /\ worker'[w].pc = "pairing" /\ worker'[w].job = worker[w].job
      /\ worker'[w].kept = {[listing |-> l, version |-> version[l]] : l \in Candidates(w)}
    BY SearchFields DEF TypeInv
<1>2. UNCHANGED <<version, piece, row, jobStatus>>
    BY DEF Search, listings, jobs, matches
<1>3. worker[w].pc = "searching" /\ worker[w] # Idle
  <2>1. worker[w].pc = "searching"
      BY DEF Search, At
  <2> QED
      BY <2>1 DEF Idle
<1>4. RowsPast' /\ JobsPast' /\ RowsFit'
    BY <1>2 DEF RowsPast, JobsPast, RowsFit, Fit, Compatible
<1>5. ReadIsCurrent'
    BY <1>1, <1>2 DEF ReadIsCurrent, RunIsCurrent, Run
<1>6. RunsPast'
  <2>1. \A c \in worker'[w].kept : c.version = version[c.listing] /\ c.version \in Nat
      BY <1>1 DEF Candidates, TypeInv, TypeOK, Version
  <2> QED
      BY <1>1, <1>2, <1>3, <2>1 DEF RunsPast, Run
<1>7. KeptFit'
  <2> SUFFICES ASSUME RunIsCurrent(w), NEW c \in worker'[w].kept
               PROVE  Compatible(Run(w).listing, piece[Run(w).listing],
                                 c.listing, piece[c.listing])
      BY <1>1, <1>2, <1>3 DEF KeptFit, RunIsCurrent, Run, Compatible
  <2>1. worker[w].piece = piece[Run(w).listing]
      BY <1>3 DEF ReadIsCurrent
  <2>2. PICK l \in Candidates(w) : c = [listing |-> l, version |-> version[l]]
      BY <1>1
  <2> QED
      BY <2>1, <2>2 DEF Candidates
<1> QED
    BY <1>4, <1>5, <1>6, <1>7

LEMMA SnapshotSave ==
    ASSUME TypeInv, SnapshotInv, NEW w \in Worker, SaveMatch(w)
    PROVE  SnapshotInv'
<1> USE DEF SnapshotInv
<1>1. PICK c \in worker[w].kept :
         /\ row' = [row EXCEPT ![{Run(w).listing, c.listing}] =
                       Snapshot(Run(w).listing, Run(w).version, c)]
         /\ \A x \in Worker \ {w} : worker'[x] = worker[x]
         /\ worker'[w].pc = "joining" /\ worker'[w].job = worker[w].job
         /\ worker'[w].kept = worker[w].kept \ {c} /\ worker'[w].with = c.listing
    BY SaveFields DEF TypeInv
<1>2. UNCHANGED <<version, piece, jobStatus>>
    BY DEF SaveMatch, listings, jobs
<1>3. worker[w] \in InProgress /\ worker[w] # Idle
    BY Busy, BusyOrIdle DEF SaveMatch, At, Step, Idle, TypeInv
<1> DEFINE a == Run(w).listing
           b == c.listing
           p == {a, b}
<1>4. a \in Listing /\ b \in Listing /\ a # b /\ Run(w).version \in Nat /\ c.version \in Nat
      /\ c.version <= version[b] /\ Run(w).version <= version[a]
    BY <1>3 DEF InProgress, Run, Job, Candidate, Version, TypeInv, OthersKept, RunsPast
<1>5. p \in Pair
    BY <1>4, PairIs
<1>6. /\ row'[p] = Snapshot(a, Run(w).version, c)
      /\ \A q \in Pair \ {p} : row'[q] = row[q]
    BY <1>1, <1>5 DEF TypeInv, TypeOK
<1>7. row'[p][a] = Run(w).version /\ row'[p][b] = c.version
      /\ \A x \in Listing \ p : row'[p][x] = 0
    BY <1>4, <1>6 DEF Snapshot
<1>8. \A x \in Listing : version[x] \in Nat
    BY DEF TypeInv, TypeOK, Version
<1>9. RowsPast'
  <2> SUFFICES ASSUME NEW q \in Pair, NEW x \in Listing PROVE row'[q][x] <= version[x]
      BY <1>2 DEF RowsPast
  <2>1. CASE q = p
    <3>1. CASE x = a
        BY <1>4, <1>7, <2>1, <3>1
    <3>2. CASE x = b
        BY <1>4, <1>7, <2>1, <3>2
    <3>3. CASE x \notin p
      <4>1. row'[p][x] = 0
          BY <1>7, <3>3
      <4>2. version[x] \in Nat
          BY <1>8
      <4> QED
          BY <2>1, <4>1, <4>2
    <3> QED
        BY <3>1, <3>2, <3>3
  <2>2. CASE q # p
      BY <1>6, <2>2 DEF RowsPast
  <2> QED
      BY <2>1, <2>2
<1>10. JobsPast'
    BY <1>2 DEF JobsPast
<1>11. RunsPast'
    BY <1>1, <1>2, <1>3 DEF RunsPast, Run
<1>12. ReadIsCurrent'
    BY <1>1, <1>2 DEF ReadIsCurrent, RunIsCurrent, Run
<1>13. KeptFit'
    BY <1>1, <1>2, <1>3 DEF KeptFit, RunIsCurrent, Run, Compatible
<1>14. RowsFit'
  <2> SUFFICES ASSUME NEW q \in Pair, \A x \in q : row'[q][x] = version[x]
               PROVE  Fit(q)
      BY <1>2 DEF RowsFit, Fit, Compatible
  <2>1. CASE q = p
    <3>1. RunIsCurrent(w) /\ version[b] = c.version
        BY <1>7, <2>1 DEF RunIsCurrent
    <3>2. Compatible(a, piece[a], b, piece[b])
        BY <1>3, <3>1 DEF KeptFit
    <3>3. Compatible(b, piece[b], a, piece[a])
        BY <1>4, <3>2, MatchingAssumption DEF Compatible, TypeInv, TypeOK
    <3> QED
        BY <2>1, <3>2, <3>3 DEF Fit
  <2>2. CASE q # p
      BY <1>6, <2>2 DEF RowsFit
  <2> QED
      BY <2>1, <2>2
<1> QED
    BY <1>9, <1>10, <1>11, <1>12, <1>13, <1>14

LEMMA SnapshotWork ==
    ASSUME TypeInv, SnapshotInv, NEW w \in Worker, Work(w)
    PROVE  SnapshotInv'
<1>1. CASE Search(w)
    BY <1>1, SnapshotSearch
<1>2. CASE SaveMatch(w)
    BY <1>2, SnapshotSave
<1>3. CASE ReadListing(w)
  <2>1. UNCHANGED <<version, piece, row, jobStatus>>
      BY <1>3 DEF ReadListing, listings, jobs, matches
  <2>2. worker[w].pc = "reading"
      BY <1>3 DEF ReadListing, At
  <2>3. worker[w] # Idle
      BY <2>2 DEF Idle
  <2>4. CASE Current(Run(w))
    <3>1. /\ \A x \in Worker \ {w} : worker'[x] = worker[x]
          /\ worker'[w].pc = "searching" /\ worker'[w].piece = piece[Run(w).listing]
          /\ worker'[w].job = worker[w].job /\ worker'[w].kept = worker[w].kept
        BY <1>3, <2>4, ReadFields DEF TypeInv
    <3>2. RowsPast' /\ JobsPast' /\ RowsFit'
        BY <2>1 DEF SnapshotInv, RowsPast, JobsPast, RowsFit, Fit, Compatible
    <3>3. RunsPast' /\ KeptFit'
        BY <2>1, <2>3, <3>1 DEF SnapshotInv, RunsPast, KeptFit, RunIsCurrent, Run, Compatible
    <3>4. ReadIsCurrent'
        BY <2>1, <3>1 DEF SnapshotInv, ReadIsCurrent, RunIsCurrent, Run
    <3> QED
        BY <3>2, <3>3, <3>4 DEF SnapshotInv
  <2>5. CASE ~Current(Run(w))
    <3>1. Goto(w, "alerting") /\ worker[w].pc \in Step
        BY <1>3, <2>2, <2>5 DEF ReadListing, Step
    <3>2. /\ \A x \in Worker \ {w} : worker'[x] = worker[x]
          /\ worker'[w].pc = "alerting"
          /\ worker'[w].job = worker[w].job /\ worker'[w].kept = worker[w].kept
        BY <3>1, GotoFields DEF TypeInv
    <3> QED
        BY <2>1, <2>3, <3>2, SnapshotRun
  <2> QED
      BY <2>4, <2>5
<1>4. ASSUME NEW pc \in Step, pc # "searching", worker[w].pc \in Step,
             Goto(w, pc) \/ Throw(w) \/ Proceed(w) \/ Alert(w),
             UNCHANGED <<version, piece, row, jobStatus>>
      PROVE  SnapshotInv'
  <2>1. worker[w] # Idle
      BY <1>4 DEF Idle, Step
  <2>2. /\ \A x \in Worker \ {w} : worker'[x] = worker[x]
        /\ worker'[w].job = worker[w].job /\ worker'[w].kept \subseteq worker[w].kept
        /\ worker'[w].pc # "searching"
    <3>1. CASE Goto(w, pc)
        BY <1>4, <3>1, GotoFields DEF TypeInv
    <3>2. CASE Throw(w)
        BY <1>4, <3>2, ThrowFields DEF TypeInv
    <3>3. CASE Proceed(w)
        BY <1>4, <3>3, ProceedFields DEF TypeInv
    <3>4. CASE Alert(w)
        BY <1>4, <3>4, AlertFields DEF TypeInv
    <3> QED
        BY <1>4, <3>1, <3>2, <3>3, <3>4
  <2> QED
      BY <1>4, <2>1, <2>2, SnapshotRun
<1>5. CASE \/ Check(w) \/ CheckFails(w) \/ JoinParticipants(w) \/ ClaimNotice(w)
           \/ Notify(w) \/ ReturnNotice(w) \/ Stamp(w) \/ RunFails(w) \/ Alert(w)
           \/ CompleteFails(w)
  <2>1. UNCHANGED <<version, piece, row, jobStatus>>
      BY <1>5 DEF Check, CheckFails, JoinParticipants, ClaimNotice, Notify, ReturnNotice,
                  Stamp, RunFails, Alert, CompleteFails, listings, jobs, matches
  <2>2. worker[w].pc \in Step
      BY <1>5 DEF Check, CheckFails, JoinParticipants, ClaimNotice, Notify, ReturnNotice,
                  Stamp, RunFails, Alert, CompleteFails, At, Step, RunStep
  <2>3. \E pc \in Step \ {"searching"} :
           Goto(w, pc) \/ Throw(w) \/ Proceed(w) \/ Alert(w)
      BY <1>5 DEF Check, CheckFails, JoinParticipants, ClaimNotice, Notify, ReturnNotice,
                  Stamp, RunFails, CompleteFails, Step
  <2> QED
      BY <1>4, <2>1, <2>2, <2>3
<1>6. CASE Complete(w) \/ Release(w)
  <2>1. UNCHANGED <<version, piece, row>>
      BY <1>6 DEF Complete, Release, listings, matches
  <2>2. PICK t \in {"COMPLETED", "FAILED", "PENDING"} : Settle(w, t)
      BY <1>6 DEF Complete, Release, Released
  <2>3. \A j \in Job : jobStatus'[j] # "ABSENT" => jobStatus[j] # "ABSENT"
      BY <2>2 DEF Settle, TypeInv, TypeOK
  <2>4. worker'[w] = Idle /\ \A x \in Worker \ {w} : worker'[x] = worker[x]
      BY <2>2 DEF Settle, TypeInv, TypeOK
  <2> QED
      BY <2>1, <2>3, <2>4, SnapshotRun
<1> QED
    BY <1>1, <1>2, <1>3, <1>5, <1>6 DEF Work

LEMMA SnapshotStep == TypeInv /\ SnapshotInv /\ [Next]_vars => SnapshotInv'
<1> SUFFICES ASSUME TypeInv, SnapshotInv, [Next]_vars PROVE SnapshotInv'
    OBVIOUS
<1>1. ASSUME NEW l \in Listing, Edit(l) \/ GuestUpdate(l) \/ Withdraw(l)
      PROVE  SnapshotInv'
    BY <1>1, SnapshotChange
<1>2. ASSUME NEW l \in Listing, NEW s \in Moderation, Moderate(l, s) PROVE SnapshotInv'
    BY <1>2, SnapshotFrame DEF Moderate, jobs, matches
<1>3. CASE Backfill
  <2>1. UNCHANGED <<version, piece, row, worker>>
      BY <1>3 DEF Backfill, listings, matches
  <2>2. ASSUME NEW j \in Job, jobStatus'[j] # "ABSENT"
        PROVE  j.version <= version[j.listing]
    <3>1. CASE jobStatus'[j] = jobStatus[j]
        BY <2>2, <3>1 DEF SnapshotInv, JobsPast
    <3>2. CASE jobStatus'[j] # jobStatus[j]
      <4>1. \E l \in Listing : j = [listing |-> l, version |-> version[l]]
          BY <1>3, <3>2 DEF Backfill
      <4>2. j.version = version[j.listing] /\ j.version \in Nat
          BY <4>1 DEF Job, Version
      <4> QED
          BY <4>2
    <3> QED
        BY <3>1, <3>2
  <2>3. JobsPast'
      BY <2>1, <2>2 DEF JobsPast
  <2>4. RowsPast' /\ RunsPast' /\ ReadIsCurrent' /\ KeptFit'
      BY <2>1 DEF SnapshotInv, RowsPast, RunsPast, ReadIsCurrent, KeptFit, RunIsCurrent, Run,
                  Compatible
  <2>5. RowsFit'
      BY <2>1 DEF SnapshotInv, RowsFit, Fit, Compatible
  <2> QED
      BY <2>3, <2>4, <2>5 DEF SnapshotInv
<1>4. ASSUME NEW p \in Pair, NEW l \in p \ GuestListing, NEW s \in Marks, Mark(p, l, s)
      PROVE  SnapshotInv'
    BY <1>4, SnapshotFrame DEF Mark, listings, jobs
<1>5. ASSUME NEW j \in Job, LeaseExpires(j) PROVE SnapshotInv'
    BY <1>5, SnapshotFrame DEF LeaseExpires, listings, matches
<1>6. ASSUME NEW w \in Worker, NEW j \in Job, Claim(w, j) PROVE SnapshotInv'
  <2>1. UNCHANGED <<version, piece, row>> /\ worker[w] = Idle
        /\ jobStatus' = [jobStatus EXCEPT ![j] = "PROCESSING"]
      BY <1>6 DEF Claim, listings, matches
  <2>2. jobStatus[j] # "ABSENT"
      BY <1>6 DEF Claim, Due
  <2>3. \A x \in Worker \ {w} : worker'[x] = worker[x]
      BY <1>6 DEF Claim, TypeInv, TypeOK
  <2>4. worker'[w].pc = "checking" /\ worker'[w].job = j /\ worker'[w].kept = {}
      BY <1>6 DEF Claim, TypeInv, TypeOK
  <2>5. RowsPast' /\ RowsFit'
      BY <2>1 DEF SnapshotInv, RowsPast, RowsFit, Fit, Compatible
  <2>6. JobsPast'
      BY <2>1, <2>2 DEF SnapshotInv, JobsPast, TypeInv, TypeOK
  <2>7. RunsPast'
    <3>1. j.version <= version[j.listing]
        BY <2>2 DEF SnapshotInv, JobsPast
    <3> QED
        BY <2>1, <2>3, <2>4, <3>1 DEF SnapshotInv, RunsPast, Run
  <2>8. ReadIsCurrent' /\ KeptFit'
      BY <2>1, <2>3, <2>4 DEF SnapshotInv, ReadIsCurrent, KeptFit, RunIsCurrent, Run, Compatible
  <2> QED
      BY <2>5, <2>6, <2>7, <2>8 DEF SnapshotInv
<1>7. ASSUME NEW w \in Worker, Work(w) PROVE SnapshotInv'
    BY <1>7, SnapshotWork
<1>8. ASSUME NEW w \in Worker, Crash(w) PROVE SnapshotInv'
  <2>1. UNCHANGED <<version, piece, row, jobStatus>>
      BY <1>8 DEF Crash, listings, jobs, matches
  <2>2. worker'[w] = Idle /\ \A x \in Worker \ {w} : worker'[x] = worker[x]
      BY <1>8 DEF Crash, TypeInv, TypeOK
  <2> QED
      BY <2>1, <2>2, SnapshotRun
<1>9. CASE UNCHANGED vars
    BY <1>9, SnapshotFrame DEF vars, listings, jobs, matches
<1> QED
    BY <1>1, <1>2, <1>3, <1>4, <1>5, <1>6, <1>7, <1>8, <1>9 DEF Next

LEMMA SnapshotInit == Init => SnapshotInv
<1> SUFFICES ASSUME Init PROVE SnapshotInv
    OBVIOUS
<1> USE DEF Init
<1>1. RowsPast /\ JobsPast
    BY DEF RowsPast, JobsPast, Job
<1>2. RunsPast /\ ReadIsCurrent /\ KeptFit
    BY DEF RunsPast, ReadIsCurrent, KeptFit, Idle
<1>3. RowsFit
  <2> SUFFICES ASSUME NEW p \in Pair PROVE \E l \in p : row[p][l] # version[l]
      BY DEF RowsFit
  <2>1. p # {}
      BY DEF Pair
  <2> QED
      BY <2>1 DEF Pair
<1> QED
    BY <1>1, <1>2, <1>3 DEF SnapshotInv

LEMMA SnapshotInvariant == Spec => [](TypeInv /\ SnapshotInv)
    BY TypeInit, TypeStep, SnapshotInit, SnapshotStep, PTL DEF Spec

(* A match users are shown fits what both listings say now, however many listings,    *)
(* edits and overlapping runs there are: the two versions suffice to tell.             *)
THEOREM ShownFit == Spec => []ShownMatchesFit
<1>1. SnapshotInv => ShownMatchesFit
    BY DEF SnapshotInv, RowsFit, ShownMatchesFit, Shown
<1> QED
    BY <1>1, SnapshotInvariant, PTL

-----------------------------------------------------------------------------
(* The invariant on outcomes is kept. *)
LEMMA OutcomeRun ==
    ASSUME TypeInv, OutcomeInv, NEW w \in Worker,
           UNCHANGED <<status, version, moderated>>,
           \A l \in Listing : matchedVersion[l] = version[l] => matchedVersion'[l] = version[l],
           \A j \in Job : jobStatus'[j] = "COMPLETED" =>
                jobStatus[j] = "COMPLETED" \/ (j = Run(w) /\ worker[w].pc = "completing"),
           \A x \in Worker \ {w} : worker'[x] = worker[x],
           Succeeding(w)' =>
                \/ ~Current(worker'[w].job)
                \/ worker'[w].job = Run(w) /\ Succeeding(w)
                \/ matchedVersion'[worker'[w].job.listing] = worker'[w].job.version
    PROVE  OutcomeInv'
<1>1. \A x \in Worker : Succeeding(x) => worker[x] \in InProgress
    BY Busy DEF Succeeding, Step, TypeInv
<1>2. ASSUME NEW x \in Worker, Succeeding(x), Current(Run(x)), Run(x).listing \notin moderated
      PROVE  matchedVersion'[Run(x).listing] = Run(x).version
  <2>1. Run(x).listing \in Listing
      BY <1>1, <1>2 DEF InProgress, Run, Job
  <2>2. matchedVersion[Run(x).listing] = Run(x).version
        /\ version[Run(x).listing] = Run(x).version
      BY <1>2 DEF OutcomeInv, SuccessIsStamped, Current
  <2> QED
      BY <2>1, <2>2
<1>3. SuccessIsStamped'
  <2> SUFFICES ASSUME NEW x \in Worker, Succeeding(x)', Current(Run(x))',
                      Run(x)'.listing \notin moderated'
               PROVE  matchedVersion'[Run(x)'.listing] = Run(x)'.version
      BY DEF SuccessIsStamped
  <2>1. Current(worker'[x].job)
      BY DEF Current, Run
  <2>2. CASE x = w
      BY <1>2, <2>1, <2>2 DEF Run
  <2>3. CASE x # w
      BY <1>2, <2>1, <2>3 DEF Run, Succeeding
  <2> QED
      BY <2>2, <2>3
<1>4. CompletedMeansMatched'
  <2> SUFFICES ASSUME NEW j \in Job, jobStatus'[j] = "COMPLETED", Current(j),
                      j.listing \notin moderated
               PROVE  matchedVersion'[j.listing] = j.version
      BY DEF CompletedMeansMatched, Current
  <2>1. CASE jobStatus[j] = "COMPLETED"
    <3>1. matchedVersion[j.listing] = j.version /\ version[j.listing] = j.version
        BY <2>1 DEF OutcomeInv, CompletedMeansMatched, Current
    <3> QED
        BY <3>1 DEF Job
  <2>2. CASE j = Run(w) /\ worker[w].pc = "completing"
      BY <1>2, <2>2 DEF Succeeding
  <2> QED
      BY <2>1, <2>2
<1> QED
    BY <1>3, <1>4 DEF OutcomeInv

LEMMA OutcomeChange ==
    ASSUME TypeInv, SnapshotInv, OutcomeInv, NEW l \in Listing,
           Edit(l) \/ GuestUpdate(l) \/ Withdraw(l)
    PROVE  OutcomeInv'
<1>1. /\ version'[l] = version[l] + 1 /\ moderated' = moderated \ {l}
      /\ \A x \in Listing \ {l} : version'[x] = version[x] /\ status'[x] = status[x]
      /\ \A j \in Job : jobStatus'[j] = jobStatus[j] \/ jobStatus'[j] = "PENDING"
      /\ matchedVersion' = matchedVersion /\ worker' = worker
    BY ChangeStep
<1>2. \A x \in Listing : version[x] \in Nat
    BY DEF TypeInv, TypeOK, Version
<1>3. ASSUME NEW j \in Job, j.version <= version[j.listing], Current(j)'
      PROVE  j.listing # l /\ Current(j)
  <2>1. j.listing \in Listing /\ j.version \in Nat
      BY DEF Job, Version
  <2>2. version'[j.listing] = j.version /\ status'[j.listing] = "ACTIVE"
      BY <1>3 DEF Current
  <2>3. j.listing # l
      BY <1>1, <1>2, <1>3, <2>1, <2>2
  <2> QED
      BY <1>1, <2>1, <2>2, <2>3 DEF Current
<1>4. SuccessIsStamped'
  <2> SUFFICES ASSUME NEW w \in Worker, Succeeding(w), Current(Run(w))',
                      Run(w).listing \notin moderated'
               PROVE  matchedVersion[Run(w).listing] = Run(w).version
      BY <1>1 DEF SuccessIsStamped, Succeeding, Run
  <2>1. worker[w] \in InProgress /\ worker[w] # Idle
      BY Busy, BusyOrIdle DEF Succeeding, Step, Idle, TypeInv
  <2>2. Run(w) \in Job /\ Run(w).version <= version[Run(w).listing]
      BY <2>1 DEF InProgress, Run, SnapshotInv, RunsPast
  <2>3. Current(Run(w))'  <=> (status'[Run(w).listing] = "ACTIVE"
                              /\ version'[Run(w).listing] = Run(w).version)
      BY <1>1 DEF Current, Run
  <2>4. Run(w).listing # l /\ Current(Run(w))
      BY <1>3, <2>2, <2>3 DEF Current
  <2> QED
      BY <1>1, <2>4 DEF OutcomeInv, SuccessIsStamped
<1>5. CompletedMeansMatched'
  <2> SUFFICES ASSUME NEW j \in Job, jobStatus'[j] = "COMPLETED", Current(j)',
                      j.listing \notin moderated'
               PROVE  matchedVersion[j.listing] = j.version
      BY <1>1 DEF CompletedMeansMatched
  <2>1. jobStatus[j] = "COMPLETED"
      BY <1>1
  <2>2. j.version <= version[j.listing]
      BY <2>1 DEF SnapshotInv, JobsPast
  <2>3. j.listing # l /\ Current(j)
      BY <1>3, <2>2
  <2> QED
      BY <1>1, <2>1, <2>3 DEF OutcomeInv, CompletedMeansMatched
<1> QED
    BY <1>4, <1>5 DEF OutcomeInv

LEMMA OutcomeWork ==
    ASSUME TypeInv, OutcomeInv, NEW w \in Worker, Work(w)
    PROVE  OutcomeInv'
<1>1. UNCHANGED <<status, version, moderated>>
    BY DEF Work, Check, CheckFails, ReadListing, Search, SaveMatch, JoinParticipants,
           ClaimNotice, Notify, ReturnNotice, Stamp, RunFails, Alert, Complete, CompleteFails,
           Release, listings, history
<1>2. TypeOK
    BY DEF TypeInv
<1>3. CASE \/ CheckFails(w) \/ Search(w) \/ SaveMatch(w) \/ JoinParticipants(w)
           \/ ClaimNotice(w) \/ Notify(w) \/ ReturnNotice(w) \/ RunFails(w) \/ CompleteFails(w)
           \/ (ReadListing(w) /\ Current(Run(w)))
  <2>1. UNCHANGED <<matchedVersion, jobStatus>>
      BY <1>3 DEF CheckFails, Search, SaveMatch, JoinParticipants, ClaimNotice, Notify,
                  ReturnNotice, RunFails, CompleteFails, ReadListing, listings, jobs
  <2>2. worker[w].pc \in Step
      BY <1>3 DEF CheckFails, Search, SaveMatch, JoinParticipants, ClaimNotice, Notify,
                  ReturnNotice, RunFails, CompleteFails, ReadListing, At, Step, RunStep
  <2>3. (\A x \in Worker \ {w} : worker'[x] = worker[x]) /\ ~Succeeding(w)'
    <3>1. ASSUME NEW pc \in {"releasing", "claiming", "notifying", "returning"}, Goto(w, pc)
          PROVE  (\A x \in Worker \ {w} : worker'[x] = worker[x]) /\ ~Succeeding(w)'
        BY <1>2, <2>2, <3>1, GotoFields DEF Succeeding
    <3>2. ASSUME Throw(w)
          PROVE  (\A x \in Worker \ {w} : worker'[x] = worker[x]) /\ ~Succeeding(w)'
        BY <1>2, <2>2, <3>2, ThrowFields DEF Succeeding
    <3>3. ASSUME Proceed(w)
          PROVE  (\A x \in Worker \ {w} : worker'[x] = worker[x]) /\ ~Succeeding(w)'
        BY <1>2, <2>2, <3>3, ProceedFields DEF Succeeding
    <3>4. CASE Search(w)
        BY <1>2, <3>4, SearchFields DEF Succeeding
    <3>5. CASE SaveMatch(w)
        BY <1>2, <3>5, SaveFields DEF Succeeding
    <3>6. CASE ReadListing(w) /\ Current(Run(w))
        BY <1>2, <3>6, ReadFields DEF Succeeding
    <3> QED
        BY <1>3, <3>1, <3>2, <3>3, <3>4, <3>5, <3>6
           DEF CheckFails, JoinParticipants, ClaimNotice, Notify, ReturnNotice, RunFails,
               CompleteFails
  <2> QED
      BY <1>1, <2>1, <2>3, OutcomeRun
<1>4. CASE Check(w) \/ (ReadListing(w) /\ ~Current(Run(w)))
  <2>1. UNCHANGED <<matchedVersion, jobStatus>>
      BY <1>4 DEF Check, ReadListing, listings, jobs
  <2>2. worker[w].pc \in Step
      BY <1>4 DEF Check, ReadListing, At, Step
  <2>3. PICK pc \in {"reading", "completing", "alerting"} :
           Goto(w, pc) /\ (pc # "reading" => ~Current(Run(w)))
      BY <1>4 DEF Check, ReadListing
  <2>4. /\ \A x \in Worker \ {w} : worker'[x] = worker[x]
        /\ worker'[w].pc = pc /\ worker'[w].job = worker[w].job
      BY <1>2, <2>2, <2>3, GotoFields
  <2>5. Succeeding(w)' => ~Current(worker'[w].job)
      BY <2>3, <2>4 DEF Succeeding, Run
  <2> QED
      BY <1>1, <2>1, <2>4, <2>5, OutcomeRun
<1>5. CASE Stamp(w)
  <2>1. worker[w].pc = "pairing" /\ jobStatus' = jobStatus
      BY <1>5 DEF Stamp, At, jobs
  <2>2. worker[w] \in InProgress
      BY <1>2, <2>1, Busy DEF Step
  <2>3. /\ \A x \in Worker \ {w} : worker'[x] = worker[x]
        /\ worker'[w].pc = "alerting" /\ worker'[w].job = Run(w)
      BY <1>2, <1>5, <2>1, GotoFields DEF Stamp, Step, Run
  <2>4. Run(w).listing \in Listing
      BY <2>2 DEF InProgress, Run, Job
  <2>5. /\ \A l \in Listing : matchedVersion[l] = version[l] => matchedVersion'[l] = version[l]
        /\ version[Run(w).listing] = Run(w).version
             => matchedVersion'[Run(w).listing] = Run(w).version
      BY <1>2, <1>5, <2>4 DEF Stamp, TypeOK
  <2>6. ~Current(worker'[w].job)
        \/ matchedVersion'[worker'[w].job.listing] = worker'[w].job.version
      BY <2>3, <2>5 DEF Current
  <2> QED
      BY <1>1, <2>1, <2>3, <2>5, <2>6, OutcomeRun
<1>6. CASE Alert(w)
  <2>1. UNCHANGED <<matchedVersion, jobStatus>>
      BY <1>6 DEF Alert, listings, jobs
  <2>2. /\ \A x \in Worker \ {w} : worker'[x] = worker[x]
        /\ \/ worker'[w].pc = "releasing"
           \/ worker'[w].pc = "completing" /\ ~worker[w].failed
        /\ worker'[w].job = worker[w].job
      BY <1>2, <1>6, AlertFields
  <2>3. worker[w].pc = "alerting"
      BY <1>6 DEF Alert, At
  <2>4. Succeeding(w)' => Succeeding(w) /\ worker'[w].job = Run(w)
      BY <2>2, <2>3 DEF Succeeding, Run
  <2> QED
      BY <1>1, <2>1, <2>2, <2>4, OutcomeRun
<1>7. CASE Complete(w) \/ Release(w)
  <2>1. matchedVersion' = matchedVersion
      BY <1>7 DEF Complete, Release, listings
  <2>2. PICK t \in {"COMPLETED", "FAILED", "PENDING"} :
           Settle(w, t) /\ (t = "COMPLETED" => worker[w].pc = "completing")
      BY <1>7 DEF Complete, Release, Released, At
  <2>3. \A j \in Job : jobStatus'[j] = "COMPLETED" =>
           jobStatus[j] = "COMPLETED" \/ (j = Run(w) /\ worker[w].pc = "completing")
      BY <1>2, <2>2 DEF Settle, TypeOK
  <2>4. worker'[w] = Idle /\ \A x \in Worker \ {w} : worker'[x] = worker[x]
      BY <1>2, <2>2 DEF Settle, TypeOK
  <2>5. ~Succeeding(w)'
      BY <2>4 DEF Succeeding, Idle
  <2> QED
      BY <1>1, <2>1, <2>3, <2>4, <2>5, OutcomeRun
<1> QED
    BY <1>3, <1>4, <1>5, <1>6, <1>7 DEF Work

LEMMA OutcomeFrame ==
    ASSUME OutcomeInv, UNCHANGED <<status, version, moderated, matchedVersion, worker>>,
           \A j \in Job : jobStatus'[j] = "COMPLETED" => jobStatus[j] = "COMPLETED"
    PROVE  OutcomeInv'
<1> USE DEF OutcomeInv
<1>1. SuccessIsStamped'
    BY DEF SuccessIsStamped, Succeeding, Current, Run
<1>2. CompletedMeansMatched'
    BY DEF CompletedMeansMatched, Current
<1> QED
    BY <1>1, <1>2

LEMMA OutcomeStep == TypeInv /\ SnapshotInv /\ OutcomeInv /\ [Next]_vars => OutcomeInv'
<1> SUFFICES ASSUME TypeInv, SnapshotInv, OutcomeInv, [Next]_vars PROVE OutcomeInv'
    OBVIOUS
<1>1. ASSUME NEW l \in Listing, Edit(l) \/ GuestUpdate(l) \/ Withdraw(l)
      PROVE  OutcomeInv'
    BY <1>1, OutcomeChange
<1>2. ASSUME NEW l \in Listing, NEW s \in Moderation, Moderate(l, s) PROVE OutcomeInv'
  <2>1. /\ UNCHANGED <<version, matchedVersion, worker, jobStatus>>
        /\ moderated' = moderated \cup {l} /\ \A x \in Listing \ {l} : status'[x] = status[x]
      BY <1>2 DEF Moderate, jobs, TypeInv, TypeOK
  <2>2. SuccessIsStamped'
    <3> SUFFICES ASSUME NEW w \in Worker, Succeeding(w), Current(Run(w))',
                        Run(w).listing \notin moderated'
                 PROVE  matchedVersion[Run(w).listing] = Run(w).version
        BY <2>1 DEF SuccessIsStamped, Succeeding, Run
    <3>1. worker[w] \in InProgress
        BY Busy DEF Succeeding, Step, TypeInv
    <3>2. Run(w).listing \in Listing \ {l}
        BY <2>1, <3>1 DEF InProgress, Run, Job
    <3>3. Current(Run(w)) /\ Run(w).listing \notin moderated
        BY <2>1, <3>2 DEF Current, Run
    <3> QED
        BY <3>3 DEF OutcomeInv, SuccessIsStamped
  <2>3. CompletedMeansMatched'
    <3> SUFFICES ASSUME NEW j \in Job, jobStatus[j] = "COMPLETED", Current(j)',
                        j.listing \notin moderated'
                 PROVE  matchedVersion[j.listing] = j.version
        BY <2>1 DEF CompletedMeansMatched
    <3>1. j.listing \in Listing \ {l}
        BY <2>1 DEF Job
    <3>2. Current(j) /\ j.listing \notin moderated
        BY <2>1, <3>1 DEF Current
    <3> QED
        BY <3>2 DEF OutcomeInv, CompletedMeansMatched
  <2> QED
      BY <2>2, <2>3 DEF OutcomeInv
<1>3. CASE Backfill
    BY <1>3, OutcomeFrame DEF Backfill, listings, history, TypeInv, TypeOK
<1>4. ASSUME NEW p \in Pair, NEW l \in p \ GuestListing, NEW s \in Marks, Mark(p, l, s)
      PROVE  OutcomeInv'
    BY <1>4, OutcomeFrame DEF Mark, listings, jobs, history
<1>5. ASSUME NEW j \in Job, LeaseExpires(j) PROVE OutcomeInv'
    BY <1>5, OutcomeFrame DEF LeaseExpires, listings, history
<1>6. ASSUME NEW w \in Worker, NEW j \in Job, Claim(w, j) PROVE OutcomeInv'
  <2>1. UNCHANGED <<status, version, moderated, matchedVersion>>
      BY <1>6 DEF Claim, listings, history
  <2>2. \A i \in Job : jobStatus'[i] = "COMPLETED" => jobStatus[i] = "COMPLETED"
      BY <1>6 DEF Claim, TypeInv, TypeOK
  <2>3. worker'[w].pc = "checking" /\ \A x \in Worker \ {w} : worker'[x] = worker[x]
      BY <1>6 DEF Claim, TypeInv, TypeOK
  <2>4. ~Succeeding(w)'
      BY <2>3 DEF Succeeding
  <2> QED
      BY <2>1, <2>2, <2>3, <2>4, OutcomeRun
<1>7. ASSUME NEW w \in Worker, Work(w) PROVE OutcomeInv'
    BY <1>7, OutcomeWork
<1>8. ASSUME NEW w \in Worker, Crash(w) PROVE OutcomeInv'
  <2>1. UNCHANGED <<status, version, moderated, matchedVersion, jobStatus>>
      BY <1>8 DEF Crash, listings, jobs
  <2>2. worker'[w] = Idle /\ \A x \in Worker \ {w} : worker'[x] = worker[x]
      BY <1>8 DEF Crash, TypeInv, TypeOK
  <2>3. ~Succeeding(w)'
      BY <2>2 DEF Succeeding, Idle
  <2> QED
      BY <2>1, <2>2, <2>3, OutcomeRun
<1>9. CASE UNCHANGED vars
    BY <1>9, OutcomeFrame DEF vars, listings, jobs, history
<1> QED
    BY <1>1, <1>2, <1>3, <1>4, <1>5, <1>6, <1>7, <1>8, <1>9 DEF Next

LEMMA OutcomeInit == Init => OutcomeInv
    BY DEF Init, OutcomeInv, SuccessIsStamped, CompletedMeansMatched, Succeeding, Idle

(* A job marked COMPLETED for the version its ACTIVE listing still has did stamp it,  *)
(* whatever failed or was repeated on the way, unless an administrator switched it.    *)
THEOREM CompletedMatched == Spec => []CompletedMeansMatched
<1>1. OutcomeInv => CompletedMeansMatched
    BY DEF OutcomeInv
<1>2. TypeInv /\ SnapshotInv /\ OutcomeInv /\ [Next]_vars
        => (TypeInv /\ SnapshotInv /\ OutcomeInv)'
    BY TypeStep, SnapshotStep, OutcomeStep
<1>3. Init => TypeInv /\ SnapshotInv /\ OutcomeInv
    BY TypeInit, SnapshotInit, OutcomeInit
<1> QED
    BY <1>1, <1>2, <1>3, PTL DEF Spec

-----------------------------------------------------------------------------
(* The invariant on notices is kept. *)

(* Steps of a worker that tells nobody afterwards; if it was telling the owners of a *)
(* match, that match is lost.                                                        *)
LEMMA NoticeRun ==
    ASSUME TypeInv, NoticeInv, NEW w \in Worker, ~Telling(w)',
           UNCHANGED <<notified, told>>, lost \subseteq lost',
           Telling(w) => MatchOf(w) \in lost',
           \A x \in Worker \ {w} : worker'[x] = worker[x]
    PROVE  NoticeInv'
<1> USE DEF NoticeInv
<1>1. \A x \in Worker : Telling(x)' => x # w /\ Telling(x)
    BY DEF Telling
<1>2. \A x \in Worker \ {w} : MatchOf(x)' = MatchOf(x)
    BY DEF MatchOf, Run
<1>3. OneTeller'
    BY <1>1, <1>2 DEF OneTeller
<1>4. TellerHasClaim'
    BY <1>1, <1>2 DEF TellerHasClaim
<1>5. NotYetTold'
  <2>1. \A x \in Worker : worker'[x].pc = "notifying" => x # w /\ worker[x].pc = "notifying"
      BY DEF Telling
  <2> QED
      BY <1>2, <2>1 DEF NotYetTold
<1>6. UnclaimedUntold' /\ AnnouncedOnce'
    BY DEF UnclaimedUntold, AnnouncedOnce
<1>7. ClaimedMeansTold'
  <2> SUFFICES ASSUME NEW p \in notified \ lost'
               PROVE  \/ \E x \in Worker : Telling(x)' /\ MatchOf(x)' = p
                      \/ \A l \in Recipients(p) : told[p][l] > 0
      BY DEF ClaimedMeansTold, Telling
  <2>1. ASSUME NEW x \in Worker, Telling(x), MatchOf(x) = p
        PROVE  Telling(x)' /\ MatchOf(x)' = p
      BY <1>2, <2>1 DEF Telling
  <2> QED
      BY <2>1 DEF ClaimedMeansTold, Telling
<1> QED
    BY <1>3, <1>4, <1>5, <1>6, <1>7

LEMMA NoticeFrame ==
    ASSUME NoticeInv, UNCHANGED <<notified, told, lost, worker>>
    PROVE  NoticeInv'
<1> USE DEF NoticeInv
<1>1. OneTeller' /\ TellerHasClaim' /\ NotYetTold'
    BY DEF OneTeller, TellerHasClaim, NotYetTold, Telling, MatchOf, Run
<1>2. UnclaimedUntold' /\ AnnouncedOnce' /\ ClaimedMeansTold'
    BY DEF UnclaimedUntold, AnnouncedOnce, ClaimedMeansTold, MatchOf, Run
<1> QED
    BY <1>1, <1>2

(* The worker's claim is the first, and nobody else is telling these owners. *)
LEMMA NoticeClaim ==
    ASSUME TypeInv, NoticeInv, NEW w \in Worker, ClaimNotice(w)
    PROVE  NoticeInv'
<1> USE DEF NoticeInv
<1>1. worker[w].pc = "claiming" /\ ~Telling(w)
    BY DEF ClaimNotice, At, Telling
<1>2. UNCHANGED <<told, lost>> /\ notified' = notified \cup {MatchOf(w)}
    BY DEF ClaimNotice, history
<1>3. CASE MatchOf(w) \in notified
  <2>1. Proceed(w)
      BY <1>3 DEF ClaimNotice
  <2>2. ~Telling(w)' /\ \A x \in Worker \ {w} : worker'[x] = worker[x]
      BY <1>1, <2>1, ProceedFields DEF Telling, Step, TypeInv
  <2>3. notified' = notified
      BY <1>2, <1>3
  <2> QED
      BY <1>1, <1>2, <2>2, <2>3, NoticeRun
<1>4. CASE MatchOf(w) \notin notified
  <2>1. Goto(w, "notifying")
      BY <1>4 DEF ClaimNotice
  <2>2. /\ \A x \in Worker \ {w} : worker'[x] = worker[x]
        /\ worker'[w].pc = "notifying"
        /\ worker'[w].job = worker[w].job /\ worker'[w].with = worker[w].with
      BY <1>1, <2>1, GotoFields DEF Step, TypeInv
  <2>3. \A x \in Worker : MatchOf(x)' = MatchOf(x)
      BY <2>2 DEF MatchOf, Run
  <2>4. MatchOf(w) \in Pair
    <3>1. worker[w] \in InProgress
        BY <1>1, Busy DEF Step, TypeInv
    <3>2. worker[w].with \in Listing /\ Run(w).listing \in Listing
          /\ worker[w].with # Run(w).listing
        BY <1>1, <3>1 DEF InProgress, Run, Job, TypeInv, PairsInProgress, PairStep
    <3> QED
        BY <3>2, PairIs DEF MatchOf
  <2>5. \A x \in Worker \ {w} :
           (Telling(x)' <=> Telling(x)) /\ (Telling(x) => MatchOf(x) # MatchOf(w))
      BY <1>4, <2>2 DEF Telling, TellerHasClaim
  <2>6. OneTeller'
      BY <2>3, <2>5 DEF OneTeller
  <2>7. TellerHasClaim'
      BY <1>2, <2>3, <2>5 DEF TellerHasClaim
  <2>8. NotYetTold'
    <3> SUFFICES ASSUME NEW x \in Worker, worker'[x].pc = "notifying", NEW l \in Listing
                 PROVE  told[MatchOf(x)][l] = 0
        BY <1>2, <2>3 DEF NotYetTold
    <3>1. CASE x = w
        BY <1>4, <2>4, <3>1 DEF UnclaimedUntold
    <3>2. CASE x # w
        BY <2>2, <3>2 DEF NotYetTold
    <3> QED
        BY <3>1, <3>2
  <2>9. UnclaimedUntold' /\ AnnouncedOnce'
      BY <1>2 DEF UnclaimedUntold, AnnouncedOnce
  <2>10. ClaimedMeansTold'
    <3> SUFFICES ASSUME NEW p \in notified' \ lost
                 PROVE  \/ \E x \in Worker : Telling(x)' /\ MatchOf(x)' = p
                        \/ \A l \in Recipients(p) : told[p][l] > 0
        BY <1>2 DEF ClaimedMeansTold, Telling
    <3>1. CASE p = MatchOf(w)
        BY <2>2, <2>3, <3>1 DEF Telling
    <3>2. CASE p \in notified
      <4>1. ASSUME NEW x \in Worker, Telling(x), MatchOf(x) = p
            PROVE  Telling(x)' /\ MatchOf(x)' = p
          BY <1>1, <2>3, <2>5, <4>1
      <4> QED
          BY <3>2, <4>1 DEF ClaimedMeansTold, Telling
    <3> QED
        BY <1>2, <3>1, <3>2
  <2> QED
      BY <2>6, <2>7, <2>8, <2>9, <2>10
<1> QED
    BY <1>3, <1>4

(* Each owner reached is told for the first time since the claim was free. *)
LEMMA NoticeTell ==
    ASSUME TypeInv, NoticeInv, NEW w \in Worker, Notify(w)
    PROVE  NoticeInv'
<1> USE DEF NoticeInv
<1> DEFINE p == MatchOf(w)
<1>1. worker[w].pc = "notifying" /\ Telling(w) /\ worker[w].pc \in Step
    BY DEF Notify, At, Telling, Step
<1>2. UNCHANGED <<notified, lost>>
    BY DEF Notify, matches
<1>3. p \in Pair /\ p \in notified /\ p \subseteq Listing
    BY <1>1 DEF TellerHasClaim, TypeInv, TypeOK, Pair
<1>4. PICK reached \in SUBSET Recipients(p) :
        /\ told' = [told EXCEPT ![p] =
                      [l \in Listing |-> IF l \in reached THEN @[l] + 1 ELSE @[l]]]
        /\ IF reached = Recipients(p) THEN Proceed(w) ELSE Goto(w, "returning")
    BY DEF Notify
<1>5. \A l \in Listing : told[p][l] = 0
    BY <1>1 DEF NotYetTold
<1>6. /\ \A q \in Pair \ {p} : told'[q] = told[q]
      /\ \A l \in Listing : told'[p][l] = IF l \in reached THEN 1 ELSE 0
  <2>1. \A q \in Pair \ {p} : told'[q] = told[q]
      BY <1>4 DEF TypeInv, TypeOK
  <2>2. told'[p] = [l \in Listing |-> IF l \in reached THEN told[p][l] + 1 ELSE told[p][l]]
      BY <1>3, <1>4 DEF TypeInv, TypeOK
  <2> QED
      BY <1>5, <2>1, <2>2
<1>7. /\ \A x \in Worker \ {w} : worker'[x] = worker[x]
      /\ worker'[w].pc \in {"pairing", "returning"}
      /\ worker'[w].pc = "pairing" => reached = Recipients(p)
      /\ Telling(w)' => MatchOf(w)' = p
  <2>1. CASE reached = Recipients(p)
    <3>1. Proceed(w)
        BY <1>4, <2>1
    <3> QED
        BY <1>1, <2>1, <3>1, ProceedFields DEF TypeInv, Telling
  <2>2. CASE reached # Recipients(p)
    <3>1. Goto(w, "returning")
        BY <1>4, <2>2
    <3>2. /\ \A x \in Worker \ {w} : worker'[x] = worker[x] 
          /\ worker'[w].pc = "returning"
          /\ worker'[w].job = worker[w].job /\ worker'[w].with = worker[w].with
        BY <1>1, <3>1, GotoFields DEF TypeInv
    <3> QED
        BY <3>2 DEF MatchOf, Run
  <2> QED
      BY <2>1, <2>2
<1>8. \A x \in Worker \ {w} :
         /\ MatchOf(x)' = MatchOf(x)
         /\ (Telling(x)' <=> Telling(x)) /\ (Telling(x) => MatchOf(x) # p)
    BY <1>1, <1>7 DEF MatchOf, Run, Telling, OneTeller
<1> HIDE DEF p
<1>9. OneTeller'
    BY <1>7, <1>8 DEF OneTeller
<1>10. TellerHasClaim'
    BY <1>2, <1>3, <1>7, <1>8 DEF TellerHasClaim
<1>11. NotYetTold'
  <2> SUFFICES ASSUME NEW x \in Worker, worker'[x].pc = "notifying", NEW l \in Listing
               PROVE  told'[MatchOf(x)'][l] = 0
      BY DEF NotYetTold
  <2>1. x # w /\ worker[x].pc = "notifying"
      BY <1>7
  <2>2. MatchOf(x)' = MatchOf(x) /\ MatchOf(x) # p /\ MatchOf(x) \in Pair
      BY <1>8, <2>1 DEF Telling, TellerHasClaim, TypeInv, TypeOK
  <2>3. told[MatchOf(x)][l] = 0
      BY <2>1 DEF NotYetTold
  <2> QED
      BY <1>6, <2>2, <2>3
<1>12. UnclaimedUntold'
    BY <1>2, <1>3, <1>6 DEF UnclaimedUntold
<1>13. AnnouncedOnce'
    BY <1>6 DEF AnnouncedOnce
<1>14. ClaimedMeansTold'
  <2> SUFFICES ASSUME NEW q \in notified \ lost
               PROVE  \/ \E x \in Worker : Telling(x)' /\ MatchOf(x)' = q
                      \/ \A l \in Recipients(q) : told'[q][l] > 0
      BY <1>2 DEF ClaimedMeansTold, Telling
  <2>1. CASE q = p
    <3>1. CASE worker'[w].pc = "returning"
        BY <1>7, <2>1, <3>1 DEF Telling
    <3>2. CASE worker'[w].pc = "pairing"
        BY <1>3, <1>6, <1>7, <2>1, <3>2 DEF Recipients
    <3> QED
        BY <1>7, <3>1, <3>2
  <2>2. CASE q # p
    <3>1. q \in Pair /\ told'[q] = told[q]
        BY <1>6, <2>2 DEF TypeInv, TypeOK
    <3>2. ASSUME NEW x \in Worker, Telling(x), MatchOf(x) = q
          PROVE  Telling(x)' /\ MatchOf(x)' = q
        BY <1>8, <2>2, <3>2 DEF p
    <3> QED
        BY <3>1, <3>2 DEF ClaimedMeansTold, Telling
  <2> QED
      BY <2>1, <2>2
<1> QED
    BY <1>9, <1>10, <1>11, <1>12, <1>13, <1>14

(* The claim is given back, and the match starts over. *)
LEMMA NoticeReturn ==
    ASSUME TypeInv, NoticeInv, NEW w \in Worker, ReturnNotice(w)
    PROVE  NoticeInv'
<1> USE DEF NoticeInv
<1> DEFINE p == MatchOf(w)
<1>1. Telling(w) /\ worker[w].pc \in Step
    BY DEF ReturnNotice, At, Telling, Step
<1>2. notified' = notified \ {p} /\ lost' = lost /\ Throw(w)
      /\ told' = [told EXCEPT ![p] = [l \in Listing |-> 0]]
    BY DEF ReturnNotice
<1>3. p \in Pair
    BY <1>1 DEF TellerHasClaim, TypeInv, TypeOK
<1>4. /\ \A q \in Pair \ {p} : told'[q] = told[q]
      /\ \A l \in Listing : told'[p][l] = 0
    BY <1>2, <1>3 DEF TypeInv, TypeOK
<1>5. ~Telling(w)' /\ \A x \in Worker \ {w} : worker'[x] = worker[x]
    BY <1>1, <1>2, ThrowFields DEF Telling, TypeInv
<1>6. \A x \in Worker \ {w} :
         /\ MatchOf(x)' = MatchOf(x)
         /\ (Telling(x)' <=> Telling(x)) /\ (Telling(x) => MatchOf(x) # p)
    BY <1>1, <1>5 DEF MatchOf, Run, Telling, OneTeller
<1> HIDE DEF p
<1>7. OneTeller' /\ TellerHasClaim'
    BY <1>2, <1>5, <1>6 DEF OneTeller, TellerHasClaim
<1>8. NotYetTold'
  <2> SUFFICES ASSUME NEW x \in Worker, worker'[x].pc = "notifying", NEW l \in Listing
               PROVE  told'[MatchOf(x)'][l] = 0
      BY DEF NotYetTold
  <2>1. x # w /\ worker[x].pc = "notifying"
      BY <1>5 DEF Telling
  <2>2. MatchOf(x)' = MatchOf(x) /\ MatchOf(x) # p /\ MatchOf(x) \in Pair
      BY <1>6, <2>1 DEF Telling, TellerHasClaim, TypeInv, TypeOK
  <2>3. told[MatchOf(x)][l] = 0
      BY <2>1 DEF NotYetTold
  <2> QED
      BY <1>4, <2>2, <2>3
<1>9. UnclaimedUntold'
    BY <1>2, <1>4 DEF UnclaimedUntold
<1>10. AnnouncedOnce'
    BY <1>4 DEF AnnouncedOnce
<1>11. ClaimedMeansTold'
  <2> SUFFICES ASSUME NEW q \in notified \ lost, q # p
               PROVE  \/ \E x \in Worker : Telling(x)' /\ MatchOf(x)' = q
                      \/ \A l \in Recipients(q) : told'[q][l] > 0
      BY <1>2 DEF ClaimedMeansTold, Telling
  <2>1. q \in Pair /\ told'[q] = told[q]
      BY <1>4 DEF TypeInv, TypeOK
  <2>2. ASSUME NEW x \in Worker, Telling(x), MatchOf(x) = q
        PROVE  Telling(x)' /\ MatchOf(x)' = q
      BY <1>6, <2>2 DEF p
  <2> QED
      BY <2>1, <2>2 DEF ClaimedMeansTold, Telling
<1> QED
    BY <1>7, <1>8, <1>9, <1>10, <1>11

(* The other steps of a job tell nobody. *)
LEMMA QuietWork ==
    ASSUME TypeInv, NEW w \in Worker,
           \/ Check(w) \/ CheckFails(w) \/ ReadListing(w) \/ Search(w) \/ SaveMatch(w)
           \/ JoinParticipants(w) \/ Stamp(w) \/ Alert(w) \/ CompleteFails(w)
           \/ Complete(w) \/ Release(w)
    PROVE  ~Telling(w) /\ ~Telling(w)' /\ \A x \in Worker \ {w} : worker'[x] = worker[x]
<1>0. TypeOK
    BY DEF TypeInv
<1>1. worker[w].pc \in Step /\ ~Telling(w)
    BY DEF Check, CheckFails, ReadListing, Search, SaveMatch, JoinParticipants, Stamp,
           Alert, CompleteFails, Complete, Release, At, Step, Telling
<1>2. ASSUME NEW pc \in {"reading", "completing", "releasing", "alerting", "claiming"},
             Goto(w, pc)
      PROVE  ~Telling(w)' /\ \A x \in Worker \ {w} : worker'[x] = worker[x]
    BY <1>0, <1>1, <1>2, GotoFields DEF Telling
<1>3. CASE Search(w)
    BY <1>0, <1>1, <1>3, SearchFields DEF Telling
<1>4. CASE SaveMatch(w)
    BY <1>0, <1>1, <1>4, SaveFields DEF Telling
<1>5. CASE ReadListing(w)
    BY <1>0, <1>1, <1>2, <1>5, ReadFields DEF Telling, ReadListing
<1>6. CASE Alert(w)
    BY <1>0, <1>1, <1>6, AlertFields DEF Telling
<1>7. CASE Complete(w) \/ Release(w)
  <2>1. worker'[w] = Idle /\ \A x \in Worker \ {w} : worker'[x] = worker[x]
      BY <1>0, <1>7 DEF Complete, Release, Settle, TypeOK
  <2> QED
      BY <1>1, <2>1 DEF Telling, Idle
<1> QED
    BY <1>1, <1>2, <1>3, <1>4, <1>5, <1>6, <1>7
       DEF Check, CheckFails, JoinParticipants, Stamp, CompleteFails

LEMMA NoticeWork ==
    ASSUME TypeInv, NoticeInv, NEW w \in Worker, Work(w)
    PROVE  NoticeInv'
<1>0. TypeOK
    BY DEF TypeInv
<1>1. CASE ClaimNotice(w)
    BY <1>1, NoticeClaim
<1>2. CASE Notify(w)
    BY <1>2, NoticeTell
<1>3. CASE ReturnNotice(w)
    BY <1>3, NoticeReturn
<1>4. CASE RunFails(w)
  <2>1. UNCHANGED <<notified, told>> /\ lost \subseteq lost' /\ worker[w].pc \in RunStep
        /\ (At(w, "returning") => MatchOf(w) \in lost')
      BY <1>4 DEF RunFails, matches
  <2>2. ~Telling(w)' /\ \A x \in Worker \ {w} : worker'[x] = worker[x]
      BY <1>0, <1>4, ThrowFields DEF RunFails, RunStep, Step, Telling
  <2>3. Telling(w) => MatchOf(w) \in lost'
      BY <2>1 DEF Telling, RunStep, At
  <2> QED
      BY <2>1, <2>2, <2>3, NoticeRun
<1>5. CASE \/ Check(w) \/ CheckFails(w) \/ ReadListing(w) \/ Search(w) \/ SaveMatch(w)
           \/ JoinParticipants(w) \/ Stamp(w) \/ Alert(w) \/ CompleteFails(w)
           \/ Complete(w) \/ Release(w)
  <2>1. UNCHANGED <<notified, told, lost>>
      BY <1>5 DEF Check, CheckFails, ReadListing, Search, SaveMatch, JoinParticipants, Stamp,
                  Alert, CompleteFails, Complete, Release, matches, history
  <2>2. ~Telling(w) /\ ~Telling(w)' /\ \A x \in Worker \ {w} : worker'[x] = worker[x]
      BY <1>5, QuietWork
  <2> QED
      BY <2>1, <2>2, NoticeRun
<1> QED
    BY <1>1, <1>2, <1>3, <1>4, <1>5 DEF Work

LEMMA NoticeStep == TypeInv /\ NoticeInv /\ [Next]_vars => NoticeInv'
<1> SUFFICES ASSUME TypeInv, NoticeInv, [Next]_vars PROVE NoticeInv'
    OBVIOUS
<1>1. ASSUME NEW l \in Listing, Edit(l) \/ GuestUpdate(l) \/ Withdraw(l) PROVE NoticeInv'
    BY <1>1, ChangeStep, NoticeFrame
<1>2. ASSUME NEW l \in Listing, NEW s \in Moderation, Moderate(l, s) PROVE NoticeInv'
    BY <1>2, NoticeFrame DEF Moderate, matches
<1>3. CASE Backfill
    BY <1>3, NoticeFrame DEF Backfill, matches, history
<1>4. ASSUME NEW p \in Pair, NEW l \in p \ GuestListing, NEW s \in Marks, Mark(p, l, s)
      PROVE  NoticeInv'
    BY <1>4, NoticeFrame DEF Mark, history
<1>5. ASSUME NEW j \in Job, LeaseExpires(j) PROVE NoticeInv'
    BY <1>5, NoticeFrame DEF LeaseExpires, matches, history
<1>6. ASSUME NEW w \in Worker, NEW j \in Job, Claim(w, j) PROVE NoticeInv'
  <2>1. UNCHANGED <<notified, told, lost>> /\ worker[w] = Idle
      BY <1>6 DEF Claim, matches, history
  <2>2. worker'[w].pc = "checking" /\ \A x \in Worker \ {w} : worker'[x] = worker[x]
      BY <1>6 DEF Claim, TypeInv, TypeOK
  <2>3. ~Telling(w) /\ ~Telling(w)'
      BY <2>1, <2>2 DEF Telling, Idle
  <2> QED
      BY <2>1, <2>2, <2>3, NoticeRun
<1>7. ASSUME NEW w \in Worker, Work(w) PROVE NoticeInv'
    BY <1>7, NoticeWork
<1>8. ASSUME NEW w \in Worker, Crash(w) PROVE NoticeInv'
  <2>1. UNCHANGED <<notified, told>> /\ lost \subseteq lost'
        /\ (Telling(w) => MatchOf(w) \in lost')
      BY <1>8 DEF Crash, matches, Telling
  <2>2. worker'[w] = Idle /\ \A x \in Worker \ {w} : worker'[x] = worker[x]
      BY <1>8 DEF Crash, TypeInv, TypeOK
  <2>3. ~Telling(w)'
      BY <2>2 DEF Telling, Idle
  <2> QED
      BY <2>1, <2>2, <2>3, NoticeRun
<1>9. CASE UNCHANGED vars
    BY <1>9, NoticeFrame DEF vars, matches, history
<1> QED
    BY <1>1, <1>2, <1>3, <1>4, <1>5, <1>6, <1>7, <1>8, <1>9 DEF Next

LEMMA NoticeInit == Init => NoticeInv
<1> SUFFICES ASSUME Init PROVE NoticeInv
    OBVIOUS
<1> USE DEF Init
<1>1. OneTeller /\ TellerHasClaim /\ NotYetTold
    BY DEF OneTeller, TellerHasClaim, NotYetTold, Telling, Idle
<1>2. UnclaimedUntold /\ AnnouncedOnce /\ ClaimedMeansTold
    BY DEF UnclaimedUntold, AnnouncedOnce, ClaimedMeansTold
<1> QED
    BY <1>1, <1>2 DEF NoticeInv

LEMMA NoticeInvariant == Spec => []NoticeInv
<1>1. TypeInv /\ NoticeInv /\ [Next]_vars => (TypeInv /\ NoticeInv)'
    BY TypeStep, NoticeStep
<1> QED
    BY <1>1, TypeInit, NoticeInit, PTL DEF Spec

(* Between two times a claim is given back, each owner of a match is told once at     *)
(* most, however many runs find the match.                                            *)
THEOREM Announced == Spec => []AnnouncedOnce
<1>1. NoticeInv => AnnouncedOnce
    BY DEF NoticeInv
<1> QED
    BY <1>1, NoticeInvariant, PTL

(* A match that is claimed and not lost has been announced to its owners, or is being. *)
THEOREM ClaimKept == Spec => []ClaimedMeansTold
<1>1. NoticeInv => ClaimedMeansTold
    BY DEF NoticeInv
<1> QED
    BY <1>1, NoticeInvariant, PTL

-----------------------------------------------------------------------------
(* The announcement of every match is one of Announcement: a run that tells nobody does   *)
(* not touch any, and one that tells the owners of a match moves the announcement of that  *)
(* match alone.                                                                           *)
LEMMA PhaseHeld ==
    TypeInv /\ NoticeInv =>
        \A w \in Worker : Telling(w) =>
            Phase(MatchOf(w)) = IF At(w, "notifying") THEN "TELLING" ELSE "RETURNING"
<1> SUFFICES ASSUME NoticeInv, NEW w \in Worker, Telling(w)
             PROVE  Phase(MatchOf(w)) = IF At(w, "notifying") THEN "TELLING" ELSE "RETURNING"
    OBVIOUS
<1>1. MatchOf(w) \in notified
    BY DEF NoticeInv, TellerHasClaim
<1>2. \A x \in Worker : Telling(x) /\ MatchOf(x) = MatchOf(w) => x = w
    BY DEF NoticeInv, OneTeller
<1>3. CASE At(w, "notifying")
  <2>1. Held(MatchOf(w), "notifying")
      BY <1>3 DEF Held
  <2> QED
      BY <1>1, <1>3, <2>1 DEF Phase
<1>4. CASE ~At(w, "notifying")
  <2>1. At(w, "returning")
      BY <1>4 DEF Telling, At
  <2>2. Held(MatchOf(w), "returning") /\ ~Held(MatchOf(w), "notifying")
      BY <1>2, <1>4, <2>1 DEF Held, Telling, At
  <2> QED
      BY <1>1, <1>4, <2>2 DEF Phase
<1> QED
    BY <1>3, <1>4

LEMMA PhaseHeldNext ==
    (TypeInv /\ NoticeInv)' =>
        (\A w \in Worker : Telling(w) =>
            Phase(MatchOf(w)) = IF At(w, "notifying") THEN "TELLING" ELSE "RETURNING")'
BY PhaseHeld, PTL

(* A match that no run has to announce. *)
LEMMA PhaseOver ==
    ASSUME NEW p, \A w \in Worker : Telling(w) => MatchOf(w) # p
    PROVE  Phase(p) = IF p \notin notified THEN "FREE"
                      ELSE IF \A l \in Recipients(p) : told[p][l] > 0 THEN "DONE" ELSE "LOST"
<1>1. ~Held(p, "notifying") /\ ~Held(p, "returning")
    BY DEF Held, At, Telling
<1> QED
    BY <1>1 DEF Phase

LEMMA PhaseOverNext ==
    ASSUME NEW p, \A w \in Worker : Telling(w)' => MatchOf(w)' # p
    PROVE  Phase(p)' = IF p \notin notified' THEN "FREE"
                       ELSE IF \A l \in Recipients(p) : told'[p][l] > 0 THEN "DONE" ELSE "LOST"
<1>1. ~Held(p, "notifying")' /\ ~Held(p, "returning")'
    BY DEF Held, At, Telling
<1> QED
    BY <1>1 DEF Phase, Recipients

(* What a step of a worker leaves alone: the announcements of other matches. *)
LEMMA NoticeStays ==
    ASSUME NEW p, NEW w \in Worker, \A x \in Worker \ {w} : worker'[x] = worker[x],
           Telling(w) => MatchOf(w) # p, Telling(w)' => MatchOf(w)' # p,
           p \in notified' <=> p \in notified, told'[p] = told[p]
    PROVE  UNCHANGED Notice(p)!vars
<1>1. ASSUME NEW pc \in {"notifying", "returning"} PROVE Held(p, pc)' <=> Held(p, pc)
  <2>1. \A x \in Worker : At(x, pc) /\ MatchOf(x) = p => At(x, pc)' /\ MatchOf(x)' = p
      BY DEF At, MatchOf, Run, Telling
  <2>2. \A x \in Worker : At(x, pc)' /\ MatchOf(x)' = p => At(x, pc) /\ MatchOf(x) = p
      BY DEF At, MatchOf, Run, Telling
  <2> QED
      BY <2>1, <2>2 DEF Held
<1>2. Phase(p)' = Phase(p)
    BY <1>1 DEF Phase, Recipients
<1> QED
    BY <1>2 DEF Notice!vars, Recipients

LEMMA NoticesStay ==
    ASSUME UNCHANGED <<notified, told, worker>>
    PROVE  \A p \in Pair : UNCHANGED Notice(p)!vars
<1> SUFFICES ASSUME NEW p \in Pair PROVE UNCHANGED Notice(p)!vars
    OBVIOUS
<1>1. Phase(p)' = Phase(p)
    BY DEF Phase, Held, At, MatchOf, Run, Recipients
<1> QED
    BY <1>1 DEF Notice!vars, Recipients

(* A worker that lets go of a match it was telling the owners of abandons it. *)
LEMMA NoticeAbandoned ==
    ASSUME TypeInv, NoticeInv, NEW w \in Worker, ~Telling(w)',
           UNCHANGED <<notified, told>>,
           \A x \in Worker \ {w} : worker'[x] = worker[x], NEW p \in Pair
    PROVE  [Notice(p)!Next]_(Notice(p)!vars)
<1>1. CASE Telling(w) /\ MatchOf(w) = p
  <2>1. Phase(p) \in {"TELLING", "RETURNING"}
      BY <1>1, PhaseHeld
  <2>2. \A x \in Worker : Telling(x)' => MatchOf(x)' # p
    <3> SUFFICES ASSUME NEW x \in Worker, Telling(x)' PROVE MatchOf(x)' # p
        OBVIOUS
    <3>1. x # w /\ Telling(x) /\ MatchOf(x)' = MatchOf(x)
        BY DEF Telling, MatchOf, Run
    <3> QED
        BY <1>1, <3>1 DEF NoticeInv, OneTeller
  <2>3. p \in notified'
      BY <1>1 DEF NoticeInv, TellerHasClaim
  <2>4. Phase(p)' = IF \A l \in Recipients(p) : told[p][l] > 0 THEN "DONE" ELSE "LOST"
      BY <2>2, <2>3, PhaseOverNext
  <2>5. Notice(p)!Abandon
      BY <2>1, <2>4 DEF Notice!Abandon, Recipients
  <2> QED
      BY <2>5 DEF Notice!Next
<1>2. CASE ~(Telling(w) /\ MatchOf(w) = p)
    BY <1>2, NoticeStays
<1> QED
    BY <1>1, <1>2

(* The run whose claim takes begins. *)
LEMMA NoticeBegins ==
    ASSUME TypeInv, NoticeInv, NoticeInv', TypeInv', NEW w \in Worker, ClaimNotice(w), NEW p \in Pair
    PROVE  [Notice(p)!Next]_(Notice(p)!vars)
<1>1. worker[w].pc = "claiming" /\ ~Telling(w) /\ worker[w].pc \in Step
    BY DEF ClaimNotice, At, Telling, Step
<1>2. UNCHANGED told /\ notified' = notified \cup {MatchOf(w)}
    BY DEF ClaimNotice, history
<1>3. CASE MatchOf(w) \in notified
  <2>1. Proceed(w) /\ notified' = notified
      BY <1>2, <1>3 DEF ClaimNotice
  <2>2. ~Telling(w)' /\ \A x \in Worker \ {w} : worker'[x] = worker[x]
      BY <1>1, <2>1, ProceedFields DEF Telling, TypeInv
  <2> QED
      BY <1>2, <2>1, <2>2, NoticeAbandoned
<1>4. CASE MatchOf(w) \notin notified
  <2>1. Goto(w, "notifying")
      BY <1>4 DEF ClaimNotice
  <2>2. /\ \A x \in Worker \ {w} : worker'[x] = worker[x]
        /\ worker'[w].pc = "notifying" /\ MatchOf(w)' = MatchOf(w)
      BY <1>1, <2>1, GotoFields DEF TypeInv, MatchOf, Run
  <2>3. CASE p = MatchOf(w)
    <3>1. Phase(p) = "FREE"
        BY <1>4, <2>3 DEF Phase
    <3>2. Phase(p)' = "TELLING"
        BY <2>2, <2>3, PhaseHeldNext DEF Telling, At
    <3>3. Notice(p)!Begin
        BY <1>2, <3>1, <3>2 DEF Notice!Begin, Recipients
    <3> QED
        BY <3>3 DEF Notice!Next
  <2>4. CASE p # MatchOf(w)
      BY <1>1, <1>2, <2>2, <2>4, NoticeStays
  <2> QED
      BY <2>3, <2>4
<1> QED
    BY <1>3, <1>4

(* Each owner reached is told. *)
LEMMA NoticeTells ==
    ASSUME TypeInv, NoticeInv, NoticeInv', TypeInv', NEW w \in Worker, Notify(w), NEW p \in Pair
    PROVE  [Notice(p)!Next]_(Notice(p)!vars)
<1>1. At(w, "notifying") /\ Telling(w) /\ worker[w].pc \in Step
    BY DEF Notify, At, Telling, Step
<1>2. notified' = notified
    BY DEF Notify, matches
<1>3. MatchOf(w) \in Pair
    BY <1>1 DEF NoticeInv, TellerHasClaim, TypeInv, TypeOK
<1>4. PICK reached \in SUBSET Recipients(MatchOf(w)) :
        /\ told' = [told EXCEPT ![MatchOf(w)] =
                      [l \in Listing |-> IF l \in reached THEN @[l] + 1 ELSE @[l]]]
        /\ IF reached = Recipients(MatchOf(w)) THEN Proceed(w) ELSE Goto(w, "returning")
    BY DEF Notify
<1>5. /\ \A x \in Worker \ {w} : worker'[x] = worker[x]
      /\ reached = Recipients(MatchOf(w)) => ~Telling(w)'
      /\ reached # Recipients(MatchOf(w)) => /\ worker'[w].pc = "returning"
                                             /\ MatchOf(w)' = MatchOf(w)
  <2>1. CASE reached = Recipients(MatchOf(w))
      BY <1>1, <1>4, <2>1, ProceedFields DEF TypeInv, Telling
  <2>2. CASE reached # Recipients(MatchOf(w))
      BY <1>1, <1>4, <2>2, GotoFields DEF TypeInv, MatchOf, Run
  <2> QED
      BY <2>1, <2>2
<1>6. CASE p = MatchOf(w)
  <2>1. Phase(p) = "TELLING"
      BY <1>1, <1>6, PhaseHeld
  <2>2. told'[p] = [l \in Listing |-> IF l \in reached THEN told[p][l] + 1 ELSE told[p][l]]
      BY <1>3, <1>4, <1>6 DEF TypeInv, TypeOK
  <2>3. Recipients(p) \subseteq Listing
      BY DEF Recipients, Pair
  <2>4. Phase(p)' = IF reached = Recipients(p) THEN "DONE" ELSE "RETURNING"
    <3>1. CASE reached = Recipients(p)
      <4>1. \A x \in Worker : Telling(x)' => MatchOf(x)' # p
        <5> SUFFICES ASSUME NEW x \in Worker, Telling(x)' PROVE MatchOf(x)' # p
            OBVIOUS
        <5>1. x # w /\ Telling(x) /\ MatchOf(x)' = MatchOf(x)
            BY <1>5, <1>6, <3>1 DEF Telling, MatchOf, Run
        <5> QED
            BY <1>1, <1>6, <5>1 DEF NoticeInv, OneTeller
      <4>2. p \in notified'
          BY <1>1, <1>2, <1>6 DEF NoticeInv, TellerHasClaim
      <4>3. \A l \in Recipients(p) : told'[p][l] > 0
          BY <2>2, <2>3, <3>1 DEF TypeInv, TypeOK
      <4> QED
          BY <3>1, <4>1, <4>2, <4>3, PhaseOverNext
    <3>2. CASE reached # Recipients(p)
      <4>1. Telling(w)' /\ ~At(w, "notifying")'
          BY <1>5, <1>6, <3>2 DEF Telling, At
      <4> QED
          BY <1>5, <1>6, <3>2, <4>1, PhaseHeldNext
    <3> QED
        BY <3>1, <3>2
  <2>5. [l \in Recipients(p) |-> told[p][l]]'
            = [x \in Recipients(p) |-> IF x \in reached THEN [l \in Recipients(p) |-> told[p][l]][x] + 1
                                       ELSE [l \in Recipients(p) |-> told[p][l]][x]]
      BY <2>2, <2>3 DEF Recipients
  <2>6. Notice(p)!Tell(reached)
      BY <2>1, <2>4, <2>5 DEF Notice!Tell
  <2> QED
      BY <1>4, <1>6, <2>6 DEF Notice!Next
<1>7. CASE p # MatchOf(w)
  <2>1. told'[p] = told[p]
      BY <1>4, <1>7 DEF TypeInv, TypeOK
  <2> QED
      BY <1>1, <1>2, <1>5, <1>7, <2>1, NoticeStays DEF Telling
<1> QED
    BY <1>6, <1>7

(* The claim is taken back. *)
LEMMA NoticeTakenBack ==
    ASSUME TypeInv, NoticeInv, NEW w \in Worker, ReturnNotice(w), NEW p \in Pair
    PROVE  [Notice(p)!Next]_(Notice(p)!vars)
<1>1. At(w, "returning") /\ Telling(w) /\ worker[w].pc \in Step
    BY DEF ReturnNotice, At, Telling, Step
<1>2. notified' = notified \ {MatchOf(w)} /\ Throw(w)
      /\ told' = [told EXCEPT ![MatchOf(w)] = [l \in Listing |-> 0]]
    BY DEF ReturnNotice
<1>3. ~Telling(w)' /\ \A x \in Worker \ {w} : worker'[x] = worker[x]
    BY <1>1, <1>2, ThrowFields DEF Telling, TypeInv
<1>4. CASE p = MatchOf(w)
  <2>1. Phase(p) = "RETURNING"
      BY <1>1, <1>4, PhaseHeld DEF At
  <2>2. Phase(p)' = "FREE"
      BY <1>2, <1>4 DEF Phase
  <2>3. told'[p] = [l \in Listing |-> 0]
      BY <1>2, <1>4 DEF TypeInv, TypeOK
  <2>4. Recipients(p) \subseteq Listing
      BY DEF Recipients, Pair
  <2>5. Notice(p)!TakeBack
      BY <2>1, <2>2, <2>3, <2>4 DEF Notice!TakeBack, Notice!Nobody, Recipients
  <2> QED
      BY <2>5 DEF Notice!Next
<1>5. CASE p # MatchOf(w)
  <2>1. told'[p] = told[p]
      BY <1>2, <1>5 DEF TypeInv, TypeOK
  <2> QED
      BY <1>2, <1>3, <1>5, <2>1, NoticeStays
<1> QED
    BY <1>4, <1>5

LEMMA AnnouncementWork ==
    ASSUME TypeInv, NoticeInv, TypeInv', NoticeInv', NEW w \in Worker, Work(w), NEW p \in Pair
    PROVE  [Notice(p)!Next]_(Notice(p)!vars)
<1>1. CASE ClaimNotice(w)
    BY <1>1, NoticeBegins
<1>2. CASE Notify(w)
    BY <1>2, NoticeTells
<1>3. CASE ReturnNotice(w)
    BY <1>3, NoticeTakenBack
<1>4. CASE RunFails(w)
  <2>1. UNCHANGED <<notified, told>>
      BY <1>4 DEF RunFails, matches
  <2>2. ~Telling(w)' /\ \A x \in Worker \ {w} : worker'[x] = worker[x]
      BY <1>4, ThrowFields DEF RunFails, RunStep, Step, Telling, TypeInv
  <2> QED
      BY <2>1, <2>2, NoticeAbandoned
<1>5. CASE \/ Check(w) \/ CheckFails(w) \/ ReadListing(w) \/ Search(w) \/ SaveMatch(w)
           \/ JoinParticipants(w) \/ Stamp(w) \/ Alert(w) \/ CompleteFails(w)
           \/ Complete(w) \/ Release(w)
  <2>1. UNCHANGED <<notified, told>>
      BY <1>5 DEF Check, CheckFails, ReadListing, Search, SaveMatch, JoinParticipants, Stamp,
                  Alert, CompleteFails, Complete, Release, matches, history
  <2>2. ~Telling(w)' /\ \A x \in Worker \ {w} : worker'[x] = worker[x]
      BY <1>5, QuietWork
  <2> QED
      BY <2>1, <2>2, NoticeAbandoned
<1> QED
    BY <1>1, <1>2, <1>3, <1>4, <1>5 DEF Work

LEMMA AnnouncementStep ==
    TypeInv /\ NoticeInv /\ [Next]_vars => \A p \in Pair : [Notice(p)!Next]_(Notice(p)!vars)
<1> SUFFICES ASSUME TypeInv, NoticeInv, [Next]_vars, NEW p \in Pair
             PROVE  [Notice(p)!Next]_(Notice(p)!vars)
    OBVIOUS
<1> DEFINE Goal == [Notice(p)!Next]_(Notice(p)!vars)
<1>0. TypeInv' /\ NoticeInv'
    BY TypeStep, NoticeStep
<1>1. ASSUME NEW l \in Listing, Edit(l) \/ GuestUpdate(l) \/ Withdraw(l) PROVE Goal
    BY <1>1, ChangeStep, NoticesStay
<1>2. ASSUME NEW l \in Listing, NEW s \in Moderation, Moderate(l, s) PROVE Goal
    BY <1>2, NoticesStay DEF Moderate, matches
<1>3. CASE Backfill
    BY <1>3, NoticesStay DEF Backfill, matches, history
<1>4. ASSUME NEW q \in Pair, NEW l \in q \ GuestListing, NEW s \in Marks, Mark(q, l, s)
      PROVE  Goal
    BY <1>4, NoticesStay DEF Mark, history
<1>5. ASSUME NEW j \in Job, LeaseExpires(j) PROVE Goal
    BY <1>5, NoticesStay DEF LeaseExpires, matches, history
<1>6. ASSUME NEW w \in Worker, NEW j \in Job, Claim(w, j) PROVE Goal
  <2>1. UNCHANGED <<notified, told>>
      BY <1>6 DEF Claim, matches, history
  <2>2. worker'[w].pc = "checking" /\ \A x \in Worker \ {w} : worker'[x] = worker[x]
      BY <1>6 DEF Claim, TypeInv, TypeOK
  <2> QED
      BY <2>1, <2>2, NoticeAbandoned DEF Telling
<1>7. ASSUME NEW w \in Worker, Work(w) PROVE Goal
    BY <1>0, <1>7, AnnouncementWork
<1>8. ASSUME NEW w \in Worker, Crash(w) PROVE Goal
  <2>1. UNCHANGED <<notified, told>>
      BY <1>8 DEF Crash, matches
  <2>2. worker'[w] = Idle /\ \A x \in Worker \ {w} : worker'[x] = worker[x]
      BY <1>8 DEF Crash, TypeInv, TypeOK
  <2> QED
      BY <2>1, <2>2, NoticeAbandoned DEF Telling, Idle
<1>9. CASE UNCHANGED vars
    BY <1>9, NoticesStay DEF vars, matches, history
<1> QED
    BY <1>1, <1>2, <1>3, <1>4, <1>5, <1>6, <1>7, <1>8, <1>9 DEF Next

(* Whatever runs find a match, and whatever becomes of them, its announcement goes as       *)
(* Announcement has it.                                                                     *)
THEOREM AnnouncementImplemented == Spec => ImplementsAnnouncement
<1>1. Init => \A p \in Pair : Notice(p)!Init
  <2> SUFFICES ASSUME Init, NEW p \in Pair PROVE Notice(p)!Init
      OBVIOUS
  <2>1. Phase(p) = "FREE"
      BY DEF Init, Phase
  <2>2. Recipients(p) \subseteq Listing
      BY DEF Recipients, Pair
  <2> QED
      BY <2>1, <2>2 DEF Init, Notice!Init, Notice!Nobody
<1>2. TypeInv /\ NoticeInv /\ [Next]_vars
        => [\A p \in Pair : [Notice(p)!Next]_(Notice(p)!vars)]_vars
    BY AnnouncementStep
<1> QED
    BY <1>1, <1>2, TypeInvariant, NoticeInvariant, PTL DEF Spec, ImplementsAnnouncement

(* In the words of Announcement itself. *)
COROLLARY EachAnnounced == ASSUME NEW p \in Pair PROVE Spec => Notice(p)!Spec
<1>1. Init => Notice(p)!Init
    BY DEF Init, Phase, Recipients, Pair, Notice!Init, Notice!Nobody
<1>2. TypeInv /\ NoticeInv /\ [Next]_vars => [Notice(p)!Next]_(Notice(p)!vars)
    BY AnnouncementStep
<1> QED
    BY <1>1, <1>2, TypeInvariant, NoticeInvariant, PTL DEF Spec, Notice!Spec

-----------------------------------------------------------------------------
(* What an owner made of a match survives every run that finds it again. *)
THEOREM MarksKept == Spec => MarksAlwaysSurvive
<1>1. TypeInv /\ [Next]_vars => MarksSurvive
  <2> SUFFICES ASSUME TypeInv, [Next]_vars, NEW q \in Pair, NEW x \in Listing,
                      participant[q][x] \in {"VIEWED", "DISMISSED"}
               PROVE  participant'[q][x] \in {"VIEWED", "DISMISSED"}
      BY DEF MarksSurvive
  <2>1. ASSUME participant' = participant PROVE participant'[q][x] \in {"VIEWED", "DISMISSED"}
      BY <2>1
  <2>2. ASSUME NEW p \in Pair, NEW l \in p \ GuestListing, NEW s \in Marks, Mark(p, l, s)
        PROVE  participant'[q][x] \in {"VIEWED", "DISMISSED"}
      BY <2>2, MatchingAssumption DEF Mark, TypeInv, TypeOK
  <2>3. ASSUME NEW w \in Worker, JoinParticipants(w)
        PROVE  participant'[q][x] \in {"VIEWED", "DISMISSED"}
      BY <2>3 DEF JoinParticipants, Joined, TypeInv, TypeOK
  <2>4. ASSUME NEW l \in Listing, Edit(l) \/ GuestUpdate(l) \/ Withdraw(l)
        PROVE  participant' = participant
      BY <2>4, ChangeStep
  <2>5. ASSUME NEW l \in Listing, NEW s \in Moderation, Moderate(l, s)
        PROVE  participant' = participant
      BY <2>5 DEF Moderate, matches
  <2>6. ASSUME NEW w \in Worker, Work(w), ~JoinParticipants(w)
        PROVE  participant' = participant
      BY <2>6 DEF Work, Check, CheckFails, ReadListing, Search, SaveMatch, ClaimNotice, Notify,
                  ReturnNotice, Stamp, RunFails, Alert, Complete, CompleteFails, Release, matches
  <2>7. ASSUME NEW w \in Worker, NEW j \in Job, Claim(w, j) PROVE participant' = participant
      BY <2>7 DEF Claim, matches
  <2>8. ASSUME NEW w \in Worker, Crash(w) PROVE participant' = participant
      BY <2>8 DEF Crash, matches
  <2>9. ASSUME NEW j \in Job, LeaseExpires(j) PROVE participant' = participant
      BY <2>9 DEF LeaseExpires, matches
  <2>10. ASSUME Backfill \/ UNCHANGED vars PROVE participant' = participant
      BY <2>10 DEF Backfill, vars, matches
  <2> QED
      BY <2>1, <2>2, <2>3, <2>4, <2>5, <2>6, <2>7, <2>8, <2>9, <2>10 DEF Next
<1> QED
    BY <1>1, TypeInvariant, PTL DEF Spec, MarksAlwaysSurvive

-----------------------------------------------------------------------------
(* Two listings that fit and have both been matched are shown to their owners, whatever    *)
(* order their runs went in.                                                              *)

(* A run at its pairs has dealt with b when b is no candidate of it at the version b   *)
(* has now.                                                                             *)
Pairing == {"pairing"} \cup PairStep

PassedBy(w, b) ==
    /\ worker[w].pc \in Pairing
    /\ \A c \in worker[w].kept : ~(c.listing = b /\ c.version = version[b])

(* As far as a is concerned, nothing more will be done about b. *)
Done(a, b) ==
    \/ matchedVersion[a] = version[a]
    \/ \E w \in Worker : PassedBy(w, b) /\ Run(w).listing = a /\ RunIsCurrent(w)

NewestPast == \A p \in Pair, l \in Listing : newest[p][l] <= version[l]

StampsPast == \A l \in Listing : matchedVersion[l] <= version[l]

Settling(a, b) ==
    /\ Fit({a, b})
    /\ status[a] = "ACTIVE" /\ status[b] = "ACTIVE"
    /\ a \notin moderated /\ b \notin moderated
    /\ Done(a, b) /\ Done(b, a)

(* The later search of the two saw the other listing at its version, and of a pair that *)
(* was seen nothing is done until the match has held both versions.                     *)
FoundWhenDone ==
    \A a, b \in Listing :
        a # b /\ Settling(a, b)
            => newest[{a, b}][a] = version[a] /\ newest[{a, b}][b] = version[b]

SettledInv == NewestPast /\ StampsPast /\ FoundWhenDone

-----------------------------------------------------------------------------
(* Steps that finish nothing. *)
LEMMA SettledFrame ==
    ASSUME SettledInv, UNCHANGED <<version, piece, newest>>, StampsPast',
           moderated \subseteq moderated',
           \A x \in Listing : status'[x] = status[x] \/ x \in moderated',
           \A a, b \in Listing :
              a # b /\ Fit({a, b}) /\ status[b] = "ACTIVE" /\ Done(a, b)' => Done(a, b)
    PROVE  SettledInv'
<1> USE DEF SettledInv
<1>1. NewestPast'
    BY DEF NewestPast
<1>2. FoundWhenDone'
  <2> SUFFICES ASSUME NEW a \in Listing, NEW b \in Listing, a # b, Settling(a, b)'
               PROVE  newest[{a, b}][a] = version[a] /\ newest[{a, b}][b] = version[b]
      BY DEF FoundWhenDone
  <2>1. Fit({a, b}) /\ {b, a} = {a, b}
      BY DEF Settling, Fit, Compatible
  <2>2. /\ status[a] = "ACTIVE" /\ status[b] = "ACTIVE"
        /\ a \notin moderated /\ b \notin moderated
      BY DEF Settling
  <2>3. Done(a, b)' /\ Done(b, a)'
      BY DEF Settling
  <2>4. Done(a, b) /\ Done(b, a)
      BY <2>1, <2>2, <2>3
  <2> QED
      BY <2>1, <2>2, <2>4 DEF FoundWhenDone, Settling
<1> QED
    BY <1>1, <1>2

(* A worker that leaves its pairs, or goes on among them, has finished no more than before. *)
LEMMA DoneRun ==
    ASSUME NEW w \in Worker, UNCHANGED <<version, matchedVersion>>,
           \A x \in Worker \ {w} : worker'[x] = worker[x],
           \/ worker'[w].pc \notin Pairing
           \/ /\ worker[w].pc \in Pairing
              /\ worker'[w].job = worker[w].job /\ worker'[w].kept = worker[w].kept,
           NEW a \in Listing, NEW b \in Listing, Done(a, b)'
    PROVE  Done(a, b)
<1>1. CASE matchedVersion'[a] = version'[a]
    BY <1>1 DEF Done
<1>2. CASE \E x \in Worker : PassedBy(x, b)' /\ Run(x)'.listing = a /\ RunIsCurrent(x)'
  <2>1. PICK x \in Worker : PassedBy(x, b)' /\ Run(x)'.listing = a /\ RunIsCurrent(x)'
      BY <1>2
  <2>2. PassedBy(x, b) /\ Run(x).listing = a /\ RunIsCurrent(x)
    <3>1. CASE x = w
        BY <2>1, <3>1 DEF PassedBy, Run, RunIsCurrent
    <3>2. CASE x # w
        BY <2>1, <3>2 DEF PassedBy, Run, RunIsCurrent
    <3> QED
        BY <3>1, <3>2
  <2> QED
      BY <2>2 DEF Done
<1> QED
    BY <1>1, <1>2 DEF Done

LEMMA SettledRun ==
    ASSUME SettledInv, NEW w \in Worker, UNCHANGED <<listings, newest, moderated>>,
           \A x \in Worker \ {w} : worker'[x] = worker[x],
           \/ worker'[w].pc \notin Pairing
           \/ /\ worker[w].pc \in Pairing
              /\ worker'[w].job = worker[w].job /\ worker'[w].kept = worker[w].kept
    PROVE  SettledInv'
<1>1. UNCHANGED <<status, version, piece, matchedVersion>>
    BY DEF listings
<1>2. StampsPast'
    BY <1>1 DEF SettledInv, StampsPast
<1>3. \A a, b \in Listing : Done(a, b)' => Done(a, b)
    BY <1>1, DoneRun
<1> QED
    BY <1>1, <1>2, <1>3, SettledFrame

(* Nothing is done about a listing at a version it has just taken. *)
LEMMA SettledChange ==
    ASSUME TypeInv, SnapshotInv, SettledInv, NEW l \in Listing,
           Edit(l) \/ GuestUpdate(l) \/ Withdraw(l)
    PROVE  SettledInv'
<1> USE DEF SettledInv
<1>1. /\ version'[l] = version[l] + 1 /\ moderated' = moderated \ {l}
      /\ \A x \in Listing \ {l} : /\ version'[x] = version[x] /\ piece'[x] = piece[x]
                                  /\ status'[x] = status[x]
      /\ UNCHANGED <<matchedVersion, worker>>
    BY ChangeStep
<1>2. newest' = newest
    BY DEF Edit, GuestUpdate, Withdraw
<1>3. \A x \in Listing : version[x] \in Nat /\ version'[x] \in Nat /\ version[x] <= version'[x]
  <2>1. \A x \in Listing : version[x] \in Nat
      BY DEF TypeInv, TypeOK, Version
  <2> QED
      BY <1>1, <2>1
<1>4. NewestPast'
  <2> SUFFICES ASSUME NEW p \in Pair, NEW x \in Listing PROVE newest[p][x] <= version'[x]
      BY <1>2 DEF NewestPast
  <2>1. newest[p][x] \in Nat /\ newest[p][x] <= version[x]
      BY DEF TypeInv, TypeOK, Version, NewestPast
  <2> QED
      BY <1>3, <2>1
<1>5. \A x \in Listing : matchedVersion[x] \in Nat /\ matchedVersion[x] <= version[x]
    BY DEF TypeInv, TypeOK, Version, StampsPast
<1>6. StampsPast'
  <2> SUFFICES ASSUME NEW x \in Listing PROVE matchedVersion[x] <= version'[x]
      BY <1>1 DEF StampsPast
  <2> QED
      BY <1>3, <1>5
<1>7. ASSUME NEW b \in Listing PROVE ~Done(l, b)'
  <2>1. matchedVersion'[l] # version'[l]
      BY <1>1, <1>3, <1>5
  <2>2. ASSUME NEW w \in Worker, worker[w].pc \in Pairing, Run(w).listing = l
        PROVE  Run(w).version # version'[l]
    <3>1. worker[w] # Idle
        BY <2>2 DEF Idle, Pairing, PairStep
    <3>2. worker[w] \in InProgress
        BY <3>1, BusyOrIdle DEF TypeInv
    <3>3. Run(w).version \in Nat
        BY <3>2 DEF InProgress, Run, Job, Version
    <3>4. Run(w).version <= version[l]
        BY <2>2, <3>1 DEF SnapshotInv, RunsPast
    <3> QED
        BY <1>1, <1>3, <3>3, <3>4
  <2>3. ASSUME NEW w \in Worker, PassedBy(w, b)', Run(w)'.listing = l PROVE ~RunIsCurrent(w)'
      BY <1>1, <2>2, <2>3 DEF PassedBy, Run, RunIsCurrent
  <2> QED
      BY <2>1, <2>3 DEF Done
<1>8. ASSUME NEW a \in Listing, NEW b \in Listing, a # l, b # l, Done(a, b)'
      PROVE  Done(a, b)
  <2>1. version'[a] = version[a] /\ version'[b] = version[b]
      BY <1>1, <1>8
  <2>2. ASSUME NEW w \in Worker, PassedBy(w, b)', Run(w)'.listing = a, RunIsCurrent(w)'
        PROVE  PassedBy(w, b) /\ Run(w).listing = a /\ RunIsCurrent(w)
      BY <1>1, <2>1, <2>2 DEF PassedBy, Run, RunIsCurrent
  <2> QED
      BY <1>1, <1>8, <2>1, <2>2 DEF Done
<1>9. FoundWhenDone'
  <2> SUFFICES ASSUME NEW a \in Listing, NEW b \in Listing, a # b, Settling(a, b)'
               PROVE  newest[{a, b}][a] = version'[a] /\ newest[{a, b}][b] = version'[b]
      BY <1>2 DEF FoundWhenDone
  <2>1. Done(a, b)' /\ Done(b, a)'
      BY DEF Settling
  <2>2. a # l /\ b # l
      BY <1>7, <2>1
  <2>3. Done(a, b) /\ Done(b, a)
      BY <1>8, <2>1, <2>2
  <2>4. /\ version'[a] = version[a] /\ version'[b] = version[b]
        /\ piece'[a] = piece[a] /\ piece'[b] = piece[b]
        /\ status'[a] = status[a] /\ status'[b] = status[b]
      BY <1>1, <2>2
  <2>5. Fit({a, b})
      BY <2>4 DEF Settling, Fit, Compatible
  <2>6. Settling(a, b)
      BY <1>1, <2>2, <2>3, <2>4, <2>5 DEF Settling
  <2> QED
      BY <2>4, <2>6 DEF FoundWhenDone
<1> QED
    BY <1>4, <1>6, <1>9

-----------------------------------------------------------------------------
(* A search for a current version finds every listing that fits, at its version. *)
LEMMA SettledSearch ==
    ASSUME TypeInv, SnapshotInv, SettledInv, NEW w \in Worker, Search(w)
    PROVE  SettledInv'
<1>1. /\ \A x \in Worker \ {w} : worker'[x] = worker[x]
      /\ worker'[w].pc = "pairing" /\ worker'[w].job = worker[w].job
      /\ worker'[w].kept = {[listing |-> l, version |-> version[l]] : l \in Candidates(w)}
    BY SearchFields DEF TypeInv
<1>2. UNCHANGED <<status, version, piece, matchedVersion, newest, moderated>>
    BY DEF Search, listings, history
<1>3. worker[w].pc = "searching"
    BY DEF Search, At
<1>4. ASSUME NEW a \in Listing, NEW b \in Listing, a # b, Fit({a, b}), status[b] = "ACTIVE",
             Done(a, b)'
      PROVE  Done(a, b)
  <2>1. ASSUME PassedBy(w, b)', Run(w)'.listing = a, RunIsCurrent(w)' PROVE FALSE
    <3>1. RunIsCurrent(w) /\ Run(w).listing = a
        BY <1>1, <1>2, <2>1 DEF RunIsCurrent, Run
    <3>2. worker[w].piece = piece[a]
        BY <1>3, <3>1 DEF SnapshotInv, ReadIsCurrent
    <3>3. b \in Candidates(w)
        BY <1>4, <3>1, <3>2 DEF Candidates, Fit
    <3>4. [listing |-> b, version |-> version[b]] \in worker'[w].kept
        BY <1>1, <3>3
    <3> QED
        BY <1>2, <2>1, <3>4 DEF PassedBy
  <2>2. ASSUME NEW x \in Worker \ {w}, PassedBy(x, b)', Run(x)'.listing = a, RunIsCurrent(x)'
        PROVE  PassedBy(x, b) /\ Run(x).listing = a /\ RunIsCurrent(x)
      BY <1>1, <1>2, <2>2 DEF PassedBy, Run, RunIsCurrent
  <2> QED
      BY <1>2, <1>4, <2>1, <2>2 DEF Done
<1>5. StampsPast'
    BY <1>2 DEF SettledInv, StampsPast
<1> QED
    BY <1>2, <1>4, <1>5, SettledFrame

(* A run that stamps its listing has passed by every other. *)
LEMMA SettledStamp ==
    ASSUME TypeInv, SnapshotInv, SettledInv, NEW w \in Worker, Stamp(w)
    PROVE  SettledInv'
<1>1. UNCHANGED <<status, version, piece, newest, moderated>>
    BY DEF Stamp, history
<1>2. worker[w].pc = "pairing" /\ worker[w].kept = {} /\ Goto(w, "alerting")
    BY DEF Stamp, At
<1>3. \A x \in Worker \ {w} : worker'[x] = worker[x] /\ worker'[w].pc = "alerting"
    BY <1>2, GotoFields DEF Step, TypeInv
<1>4. \A x \in Listing :
         \/ matchedVersion'[x] = matchedVersion[x]
         \/ x = Run(w).listing /\ RunIsCurrent(w) /\ matchedVersion'[x] = version[x]
    BY DEF Stamp, TypeInv, TypeOK, RunIsCurrent
<1>5. StampsPast'
  <2>1. \A x \in Listing : version[x] <= version[x]
      BY DEF TypeInv, TypeOK, Version
  <2> QED
      BY <1>1, <1>4, <2>1 DEF SettledInv, StampsPast
<1>6. ASSUME NEW a \in Listing, NEW b \in Listing, Done(a, b)' PROVE Done(a, b)
  <2>1. ASSUME matchedVersion'[a] = version'[a] PROVE Done(a, b)
    <3>1. CASE matchedVersion'[a] = matchedVersion[a]
        BY <1>1, <2>1, <3>1 DEF Done
    <3>2. CASE a = Run(w).listing /\ RunIsCurrent(w)
      <4>1. PassedBy(w, b)
          BY <1>2 DEF PassedBy, Pairing
      <4> QED
          BY <3>2, <4>1 DEF Done
    <3> QED
        BY <1>4, <3>1, <3>2
  <2>2. ASSUME NEW x \in Worker, PassedBy(x, b)', Run(x)'.listing = a, RunIsCurrent(x)'
        PROVE  Done(a, b)
    <3>1. x # w
      <4>1. ASSUME x = w PROVE worker'[w].pc = "alerting"
          BY <1>2, GotoFields DEF Step, TypeInv
      <4> QED
          BY <2>2, <4>1 DEF PassedBy, Pairing, PairStep
    <3>2. PassedBy(x, b) /\ Run(x).listing = a /\ RunIsCurrent(x)
        BY <1>1, <1>3, <2>2, <3>1 DEF PassedBy, Run, RunIsCurrent
    <3> QED
        BY <3>2 DEF Done
  <2> QED
      BY <1>6, <2>1, <2>2 DEF Done
<1> QED
    BY <1>1, <1>5, <1>6, SettledFrame

(* A candidate leaves a run when the match holds its version and the run's. *)
LEMMA SettledSave ==
    ASSUME TypeInv, SnapshotInv, SettledInv, NEW w \in Worker, SaveMatch(w)
    PROVE  SettledInv'
<1> USE DEF SettledInv
<1>1. PICK c \in worker[w].kept :
         /\ newest' = [newest EXCEPT ![{Run(w).listing, c.listing}] = [x \in Listing |->
               IF Snapshot(Run(w).listing, Run(w).version, c)[x] > @[x]
               THEN Snapshot(Run(w).listing, Run(w).version, c)[x] ELSE @[x]]]
         /\ \A x \in Worker \ {w} : worker'[x] = worker[x]
         /\ worker'[w].pc = "joining" /\ worker'[w].job = worker[w].job
         /\ worker'[w].kept = worker[w].kept \ {c}
    BY SaveFields DEF TypeInv
<1>2. UNCHANGED <<status, version, piece, matchedVersion, moderated>>
    BY DEF SaveMatch, listings
<1>3. worker[w] \in InProgress /\ worker[w] # Idle /\ worker[w].pc = "pairing"
    BY Busy, BusyOrIdle DEF SaveMatch, At, Step, Idle, TypeInv
<1> DEFINE r == Run(w).listing
           s == c.listing
           p == {r, s}
           saved == Snapshot(r, Run(w).version, c)
<1>4. r \in Listing /\ s \in Listing /\ r # s /\ Run(w).version \in Nat /\ c.version \in Nat
      /\ c.version <= version[s] /\ Run(w).version <= version[r]
    BY <1>3 DEF InProgress, Run, Job, Candidate, Version, TypeInv, OthersKept, SnapshotInv,
                RunsPast
<1>5. p \in Pair
    BY <1>4, PairIs
<1>6. saved[r] = Run(w).version /\ saved[s] = c.version
      /\ \A x \in Listing \ p : saved[x] = 0
    BY <1>4 DEF Snapshot
<1> HIDE DEF saved
<1>7. /\ \A q \in Pair \ {p} : newest'[q] = newest[q]
      /\ \A x \in Listing :
            newest'[p][x] = IF saved[x] > newest[p][x] THEN saved[x] ELSE newest[p][x]
  <2> DEFINE top == [x \in Listing |-> IF saved[x] > newest[p][x] THEN saved[x]
                                       ELSE newest[p][x]]
  <2>1. newest' = [newest EXCEPT ![p] = top]
      BY <1>1 DEF saved
  <2>2. \A x \in Listing : top[x] = IF saved[x] > newest[p][x] THEN saved[x] ELSE newest[p][x]
      OBVIOUS
  <2> HIDE DEF top
  <2>3. newest'[p] = top /\ \A q \in Pair \ {p} : newest'[q] = newest[q]
      BY <1>5, <2>1 DEF TypeInv, TypeOK
  <2> QED
      BY <2>2, <2>3
<1>8. \A q \in Pair, x \in Listing :
         newest[q][x] \in Nat /\ version[x] \in Nat /\ newest[q][x] <= version[x]
    BY DEF TypeInv, TypeOK, Version, NewestPast
<1>9. \A x \in Listing : saved[x] \in Nat /\ saved[x] <= version[x]
  <2> SUFFICES ASSUME NEW x \in Listing PROVE saved[x] \in Nat /\ saved[x] <= version[x]
      OBVIOUS
  <2>1. CASE x \in p
      BY <1>4, <1>6, <2>1
  <2>2. CASE x \notin p
    <3>1. saved[x] = 0 /\ version[x] \in Nat
        BY <1>5, <1>6, <1>8, <2>2
    <3> QED
        BY <3>1
  <2> QED
      BY <2>1, <2>2
<1>10. NewestPast'
  <2> SUFFICES ASSUME NEW q \in Pair, NEW x \in Listing PROVE newest'[q][x] <= version[x]
      BY <1>2 DEF NewestPast
  <2>1. CASE q = p
      BY <1>7, <1>8, <1>9, <2>1
  <2>2. CASE q # p
      BY <1>7, <1>8, <2>2
  <2> QED
      BY <2>1, <2>2
<1>11. StampsPast'
    BY <1>2 DEF StampsPast
\* What the match has held of its listings' current versions stays.
<1>12. \A q \in Pair, x \in Listing : newest[q][x] = version[x] => newest'[q][x] = version[x]
  <2> SUFFICES ASSUME NEW q \in Pair, NEW x \in Listing, newest[q][x] = version[x]
               PROVE  newest'[q][x] = version[x]
      OBVIOUS
  <2>1. CASE q = p
    <3>1. ~(saved[x] > newest[p][x])
        BY <1>8, <1>9, <2>1
    <3> QED
        BY <1>7, <2>1, <3>1
  <2>2. CASE q # p
      BY <1>7, <2>2
  <2> QED
      BY <2>1, <2>2
<1>13. ASSUME c.version = version[s], RunIsCurrent(w)
       PROVE  newest'[p][r] = version[r] /\ newest'[p][s] = version[s]
  <2>1. saved[r] = version[r] /\ saved[s] = version[s]
      BY <1>6, <1>13 DEF RunIsCurrent
  <2>2. \A x \in p : newest'[p][x] = IF version[x] > newest[p][x] THEN version[x]
                                     ELSE newest[p][x]
      BY <1>4, <1>7, <2>1
  <2>3. \A x \in p : version[x] \in Nat /\ newest[p][x] \in Nat /\ newest[p][x] <= version[x]
      BY <1>4, <1>5, <1>8
  <2> QED
      BY <2>2, <2>3
<1> DEFINE Saves(a, b) == /\ Run(w).listing = a /\ c.listing = b
                          /\ c.version = version[b] /\ RunIsCurrent(w)
<1>14. ASSUME NEW a \in Listing, NEW b \in Listing, Done(a, b)', ~Saves(a, b)
       PROVE  Done(a, b)
  <2>1. ASSUME PassedBy(w, b)', Run(w)'.listing = a, RunIsCurrent(w)'
        PROVE  PassedBy(w, b) /\ Run(w).listing = a /\ RunIsCurrent(w)
    <3>1. Run(w).listing = a /\ RunIsCurrent(w)
        BY <1>1, <1>2, <2>1 DEF Run, RunIsCurrent
    <3>2. ~(c.listing = b /\ c.version = version[b])
        BY <1>14, <3>1
    <3>3. PassedBy(w, b)
        BY <1>1, <1>2, <1>3, <2>1, <3>2 DEF PassedBy, Pairing
    <3> QED
        BY <3>1, <3>3
  <2>2. ASSUME NEW x \in Worker \ {w}, PassedBy(x, b)', Run(x)'.listing = a, RunIsCurrent(x)'
        PROVE  PassedBy(x, b) /\ Run(x).listing = a /\ RunIsCurrent(x)
      BY <1>1, <1>2, <2>2 DEF PassedBy, Run, RunIsCurrent
  <2> QED
      BY <1>2, <1>14, <2>1, <2>2 DEF Done
<1>15. FoundWhenDone'
  <2> SUFFICES ASSUME NEW a \in Listing, NEW b \in Listing, a # b, Settling(a, b)'
               PROVE  newest'[{a, b}][a] = version[a] /\ newest'[{a, b}][b] = version[b]
      BY <1>2 DEF FoundWhenDone
  <2>1. CASE Saves(a, b) \/ Saves(b, a)
    <3>1. {a, b} = p /\ RunIsCurrent(w) /\ c.version = version[s]
          /\ ((a = r /\ b = s) \/ (a = s /\ b = r))
        BY <2>1
    <3> QED
        BY <1>13, <3>1
  <2>2. CASE ~Saves(a, b) /\ ~Saves(b, a)
    <3>1. Done(a, b)' /\ Done(b, a)'
        BY DEF Settling
    <3>2. Done(a, b) /\ Done(b, a)
        BY <1>14, <2>2, <3>1
    <3>3. Fit({a, b}) /\ status[a] = "ACTIVE" /\ status[b] = "ACTIVE"
          /\ a \notin moderated /\ b \notin moderated
        BY <1>2 DEF Settling, Fit, Compatible
    <3>4. newest[{a, b}][a] = version[a] /\ newest[{a, b}][b] = version[b]
        BY <3>2, <3>3 DEF FoundWhenDone, Settling
    <3>5. {a, b} \in Pair
        BY PairIs
    <3> QED
        BY <1>12, <3>4, <3>5
  <2> QED
      BY <2>1, <2>2
<1> QED
    BY <1>10, <1>11, <1>15

LEMMA SettledWork ==
    ASSUME TypeInv, SnapshotInv, SettledInv, NEW w \in Worker, Work(w)
    PROVE  SettledInv'
<1>0. TypeOK
    BY DEF TypeInv
<1>1. CASE Search(w)
    BY <1>1, SettledSearch
<1>2. CASE SaveMatch(w)
    BY <1>2, SettledSave
<1>3. CASE Stamp(w)
    BY <1>3, SettledStamp
<1>4. CASE JoinParticipants(w) \/ ClaimNotice(w) \/ Notify(w)
  <2>1. UNCHANGED <<listings, newest, moderated>>
      BY <1>4 DEF JoinParticipants, ClaimNotice, Notify, history
  <2>2. worker[w].pc \in Pairing /\ worker[w].pc \in Step
      BY <1>4 DEF JoinParticipants, ClaimNotice, Notify, At, Pairing, PairStep, Step
  <2>3. (\E pc \in Step : Goto(w, pc)) \/ Proceed(w)
      BY <1>4 DEF JoinParticipants, ClaimNotice, Notify, Step
  <2>4. /\ \A x \in Worker \ {w} : worker'[x] = worker[x]
        /\ worker'[w].job = worker[w].job /\ worker'[w].kept = worker[w].kept
      BY <1>0, <2>2, <2>3, GotoFields, ProceedFields
  <2> QED
      BY <2>1, <2>2, <2>4, SettledRun
<1>5. CASE \/ Check(w) \/ CheckFails(w) \/ ReadListing(w) \/ ReturnNotice(w) \/ RunFails(w)
           \/ Alert(w) \/ CompleteFails(w) \/ Complete(w) \/ Release(w)
  <2>1. UNCHANGED <<listings, newest, moderated>>
      BY <1>5 DEF Check, CheckFails, ReadListing, ReturnNotice, RunFails, Alert, CompleteFails,
                  Complete, Release, history
  <2>2. worker[w].pc \in Step
      BY <1>5 DEF Check, CheckFails, ReadListing, ReturnNotice, RunFails, Alert, CompleteFails,
                  Complete, Release, At, Step, RunStep
  <2>3. worker'[w].pc \notin Pairing /\ \A x \in Worker \ {w} : worker'[x] = worker[x]
    <3> USE DEF Pairing, PairStep
    <3>1. ASSUME NEW pc \in {"reading", "completing", "releasing", "alerting"}, Goto(w, pc)
          PROVE  worker'[w].pc \notin Pairing /\ \A x \in Worker \ {w} : worker'[x] = worker[x]
        BY <1>0, <2>2, <3>1, GotoFields
    <3>2. CASE Throw(w)
        BY <1>0, <2>2, <3>2, ThrowFields
    <3>3. CASE ReadListing(w)
        BY <1>0, <3>1, <3>3, ReadFields DEF ReadListing
    <3>4. CASE Alert(w)
        BY <1>0, <3>4, AlertFields
    <3>5. CASE Complete(w) \/ Release(w)
      <4>1. worker'[w] = Idle /\ \A x \in Worker \ {w} : worker'[x] = worker[x]
          BY <1>0, <3>5 DEF Complete, Release, Settle, TypeOK
      <4> QED
          BY <4>1 DEF Idle
    <3> QED
        BY <1>5, <3>1, <3>2, <3>3, <3>4, <3>5
           DEF Check, CheckFails, ReturnNotice, RunFails, CompleteFails
  <2> QED
      BY <2>1, <2>3, SettledRun
<1> QED
    BY <1>1, <1>2, <1>3, <1>4, <1>5 DEF Work

LEMMA SettledStep == TypeInv /\ SnapshotInv /\ SettledInv /\ [Next]_vars => SettledInv'
<1> SUFFICES ASSUME TypeInv, SnapshotInv, SettledInv, [Next]_vars PROVE SettledInv'
    OBVIOUS
<1>1. ASSUME NEW l \in Listing, Edit(l) \/ GuestUpdate(l) \/ Withdraw(l) PROVE SettledInv'
    BY <1>1, SettledChange
<1>2. ASSUME UNCHANGED <<version, piece, newest, matchedVersion, worker>>,
             moderated \subseteq moderated',
             \A x \in Listing : status'[x] = status[x] \/ x \in moderated'
      PROVE  SettledInv'
  <2>1. StampsPast'
      BY <1>2 DEF SettledInv, StampsPast
  <2>2. \A a, b \in Listing : Done(a, b)' => Done(a, b)
      BY <1>2 DEF Done, PassedBy, Run, RunIsCurrent
  <2> QED
      BY <1>2, <2>1, <2>2, SettledFrame
<1>3. ASSUME NEW l \in Listing, NEW s \in Moderation, Moderate(l, s) PROVE SettledInv'
    BY <1>2, <1>3 DEF Moderate, TypeInv, TypeOK
<1>4. CASE Backfill
    BY <1>2, <1>4 DEF Backfill, listings, history
<1>5. ASSUME NEW p \in Pair, NEW l \in p \ GuestListing, NEW s \in Marks, Mark(p, l, s)
      PROVE  SettledInv'
    BY <1>2, <1>5 DEF Mark, listings, history
<1>6. ASSUME NEW j \in Job, LeaseExpires(j) PROVE SettledInv'
    BY <1>2, <1>6 DEF LeaseExpires, listings, history
<1>7. ASSUME NEW w \in Worker, NEW j \in Job, Claim(w, j) PROVE SettledInv'
  <2>1. UNCHANGED <<listings, newest, moderated>>
      BY <1>7 DEF Claim, history
  <2>2. worker'[w].pc = "checking" /\ \A x \in Worker \ {w} : worker'[x] = worker[x]
      BY <1>7 DEF Claim, TypeInv, TypeOK
  <2>3. worker'[w].pc \notin Pairing
      BY <2>2 DEF Pairing, PairStep
  <2> QED
      BY <2>1, <2>2, <2>3, SettledRun
<1>8. ASSUME NEW w \in Worker, Work(w) PROVE SettledInv'
    BY <1>8, SettledWork
<1>9. ASSUME NEW w \in Worker, Crash(w) PROVE SettledInv'
  <2>1. UNCHANGED <<listings, newest, moderated>>
      BY <1>9 DEF Crash
  <2>2. worker'[w] = Idle /\ \A x \in Worker \ {w} : worker'[x] = worker[x]
      BY <1>9 DEF Crash, TypeInv, TypeOK
  <2>3. worker'[w].pc \notin Pairing
      BY <2>2 DEF Pairing, PairStep, Idle
  <2> QED
      BY <2>1, <2>2, <2>3, SettledRun
<1>10. CASE UNCHANGED vars
    BY <1>2, <1>10 DEF vars, listings, history
<1> QED
    BY <1>1, <1>3, <1>4, <1>5, <1>6, <1>7, <1>8, <1>9, <1>10 DEF Next

LEMMA SettledInit == Init => SettledInv
<1> SUFFICES ASSUME Init PROVE SettledInv
    OBVIOUS
<1> USE DEF Init
<1>1. NewestPast /\ StampsPast
    BY DEF NewestPast, StampsPast
<1>2. \A a, b \in Listing : ~Done(a, b)
    BY DEF Done, PassedBy, Pairing, PairStep, Idle
<1> QED
    BY <1>1, <1>2 DEF SettledInv, FoundWhenDone, Settling

LEMMA SettledInvariant == Spec => [](TypeInv /\ SnapshotInv /\ SettledInv)
    BY TypeInit, TypeStep, SnapshotInit, SnapshotStep, SettledInit, SettledStep, PTL DEF Spec

(* Two ACTIVE listings that fit and are both stamped at their versions are shown to their *)
(* owners, however many listings and runs there are, unless a run with an older snapshot  *)
(* wrote over their match.                                                                 *)
THEOREM SettledShown == Spec => []SettledPairShown
<1>1. TypeInv /\ SnapshotInv /\ SettledInv => SettledPairShown
  <2> SUFFICES ASSUME TypeInv, SnapshotInv, SettledInv, NEW p \in Pair, Fit(p), ~Overtaken(p),
                      \A l \in p : /\ status[l] = "ACTIVE"
                                   /\ matchedVersion[l] = version[l]
                                   /\ l \notin moderated
               PROVE  Shown(p)
      BY DEF SettledPairShown
  <2>1. PICK a \in Listing, b \in Listing : p = {a, b} /\ a # b
      BY DEF Pair
  <2>2. Done(a, b) /\ Done(b, a)
      BY <2>1 DEF Done
  <2>3. Settling(a, b)
      BY <2>1, <2>2 DEF Settling
  <2>4. \A l \in p : newest[p][l] = version[l]
      BY <2>1, <2>3 DEF SettledInv, FoundWhenDone
  <2>5. \A l \in p : l \in Listing /\ row[p][l] \in Nat /\ version[l] \in Nat
      BY <2>1 DEF TypeInv, TypeOK, Version
  <2>6. \A l \in p : row[p][l] <= version[l] /\ ~(row[p][l] < newest[p][l])
      BY <2>5 DEF SnapshotInv, RowsPast, Overtaken
  <2>7. \A l \in p : row[p][l] = version[l]
      BY <2>4, <2>5, <2>6
  <2> QED
      BY <2>7 DEF Shown
<1> QED
    BY <1>1, SettledInvariant, PTL

=============================================================================
