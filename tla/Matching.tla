------------------------------- MODULE Matching -------------------------------
(***************************************************************************)
(* MatchingJobsService and MatchingService: versioned jobs claimed under a    *)
(* lease, and the run each of them asks for, which pairs one version of a      *)
(* listing with the listings it finds.                                        *)
(*                                                                         *)
(* A run is a chain of separate statements: nothing is locked between reading *)
(* the listing, reading the candidates, writing a match and stamping the       *)
(* listing, and listings are edited meanwhile.  A Worker is the processing of  *)
(* one claimed job; processPending takes the jobs of its batch one by one,     *)
(* and workers that run side by side include that.                             *)
(*                                                                         *)
(* What two listings must have in common (category, attributes, score) is       *)
(* abstracted to pieces that complement each other, a relation Compatibility    *)
(* defines; the caps of 200 candidates and 25 matches are not reached.          *)
(***************************************************************************)
EXTENDS Naturals

CONSTANTS
    Listing,        \* listing ids
    GuestListing,   \* those created by guests
    OwnerOf,        \* "userId" of each listing
    Piece,          \* what a listing offers
    Complement,     \* the pairs of pieces that pass the rules and the threshold
    Worker,         \* jobs in progress at one time
    MaxAttempts,    \* claims after which a failure is terminal (8)
    Moderation,     \* the statuses administrators set
    Marks,          \* what owners make of a match: VIEWED, DISMISSED
    MaxChanges,     \* bound: changes people and the sweep make
    MaxCrashes,     \* bound: workers killed in one behaviour
    NoJob,          \* a worker without a job
    Unread          \* a run that has yet to read its listing, or no longer needs it

Version == 1..(MaxChanges + 1)
Pair == {{a, b} : a, b \in Listing} \ {{a} : a \in Listing}  \* "canonicalKey"
Job == [listing : Listing, version : Version]           \* the unique key of a job

ASSUME MatchingAssumption ==
    /\ GuestListing \subseteq Listing
    /\ Complement \subseteq Piece \X Piece
    \* Compatibility's Fits is symmetric (CompatibilityProofs)
    /\ \A a, b \in Piece : <<a, b>> \in Complement => <<b, a>> \in Complement
    /\ MaxAttempts \in Nat \ {0}
    /\ Moderation \subseteq {"ACTIVE", "HIDDEN", "CLOSED"}
    /\ Marks \subseteq {"VIEWED", "DISMISSED"}
    /\ MaxChanges \in Nat
    /\ MaxCrashes \in Nat
    /\ NoJob \notin Job
    /\ Unread \notin Piece

VARIABLES
    status,         \* "Listing"."status"; HIDDEN stands for PAUSED and EXPIRED, which the
                    \* owner can leave, CLOSED for COMPLETED, FLAGGED and DELETED
    version,        \* "version"
    piece,          \* what the listing says at this version
    matchedVersion, \* "matchedVersion", 0 for null
    jobStatus,      \* "MatchingJob"."status", or "ABSENT" before the row exists
    attempts,       \* "attempts", as far as it is compared with MaxAttempts
    expired,        \* jobs whose "lockedAt" is more than five minutes old
    row,            \* row[p][l]: the version of l in match p, 0 when there is none
    notified,       \* matches whose "notifiedAt" is set
    participant,    \* participant[p][l]: how the owner of l has marked match p
    worker,         \* the jobs in progress: how far they are and what they have read
    newest,         \* history: the newest version of l that match p has held
    told,           \* history: notifications since the last claim was given back
    lost,           \* history: matches whose claim outlived its worker
    moderated,      \* history: listings an administrator switched at this version
    changes,        \* how many they have made
    crashes         \* how many workers have been killed

listings == <<status, version, piece, matchedVersion>>
jobs == <<jobStatus, attempts, expired>>
matches == <<row, notified, participant>>
history == <<newest, told, lost, moderated>>
bounds == <<changes, crashes>>
vars == <<listings, jobs, matches, worker, history, bounds>>

-----------------------------------------------------------------------------
(* The steps of a job in progress, in the order of process and of the run.       *)
Step == {"checking", "reading", "searching", "pairing", "joining", "claiming",
         "notifying", "returning", "alerting", "completing", "releasing"}

(* The statements of runMatchForListing, within which an error ends the run.       *)
RunStep == {"reading", "searching", "pairing", "joining", "claiming", "returning"}

Candidate == [listing : Listing, version : Version]

Idle == [pc |-> "idle", job |-> NoJob]
InProgress == [pc : Step,               \* the next statement
               job : Job,
               attempt : 1..MaxAttempts,
               piece : Piece \cup {Unread},     \* of the listing, until the search
               kept : SUBSET Candidate, \* candidates still to be paired
               with : Listing,          \* the one being paired
               failed : BOOLEAN]        \* an error to be thrown when both runs are over

TypeOK ==
    /\ status \in [Listing -> {"ACTIVE", "HIDDEN", "CLOSED"}]
    /\ version \in [Listing -> Version]
    /\ piece \in [Listing -> Piece]
    /\ matchedVersion \in [Listing -> Version \cup {0}]
    /\ jobStatus \in [Job -> {"ABSENT", "PENDING", "PROCESSING", "COMPLETED", "FAILED"}]
    /\ attempts \in [Job -> 0..MaxAttempts]
    /\ expired \subseteq Job
    /\ row \in [Pair -> [Listing -> Version \cup {0}]]
    /\ notified \subseteq Pair
    /\ participant \in [Pair -> [Listing -> {"NONE", "PENDING", "VIEWED", "DISMISSED"}]]
    /\ worker \in [Worker -> {Idle} \cup InProgress]
    /\ newest \in [Pair -> [Listing -> Version \cup {0}]]
    /\ told \in [Pair -> [Listing -> Nat]]
    /\ lost \subseteq Pair
    /\ moderated \subseteq Listing
    /\ changes \in 0..MaxChanges
    /\ crashes \in 0..MaxCrashes

(* Every listing has just been created, and its first job queued with it.            *)
Init ==
    /\ status = [l \in Listing |-> "ACTIVE"]
    /\ version = [l \in Listing |-> 1]
    /\ piece \in [Listing -> Piece]
    /\ matchedVersion = [l \in Listing |-> 0]
    /\ jobStatus = [j \in Job |-> IF j.version = 1 THEN "PENDING" ELSE "ABSENT"]
    /\ attempts = [j \in Job |-> 0]
    /\ expired = {}
    /\ row = [p \in Pair |-> [l \in Listing |-> 0]]
    /\ notified = {}
    /\ participant = [p \in Pair |-> [l \in Listing |-> "NONE"]]
    /\ worker = [w \in Worker |-> Idle]
    /\ newest = [p \in Pair |-> [l \in Listing |-> 0]]
    /\ told = [p \in Pair |-> [l \in Listing |-> 0]]
    /\ lost = {}
    /\ moderated = {}
    /\ changes = 0
    /\ crashes = 0

Exists(p) == \E l \in p : row[p][l] # 0

-----------------------------------------------------------------------------
(* People and the maintenance job change listings.  Every change of theirs raises  *)
(* the version; only an owner's edit queues the job of the new version.             *)

(* enqueueListing: an upsert that leaves an existing job alone. *)
Enqueue(l, v) ==
    LET j == [listing |-> l, version |-> v] IN
    jobStatus' = [jobStatus EXCEPT ![j] = IF @ = "ABSENT" THEN "PENDING" ELSE @]

Change == changes < MaxChanges /\ changes' = changes + 1

NextVersion(l) ==
    /\ Change
    /\ version' = [version EXCEPT ![l] = @ + 1]
    /\ moderated' = moderated \ {l}

(* assertStatusTransition, as far as the statuses are told apart here. *)
MayBecome(s) == IF s = "CLOSED" THEN {"CLOSED"} ELSE {"ACTIVE", "HIDDEN", "CLOSED"}

(* update *)
Edit(l) ==
    /\ l \notin GuestListing
    /\ NextVersion(l)
    /\ piece' \in {[piece EXCEPT ![l] = x] : x \in Piece}
    /\ status' \in {[status EXCEPT ![l] = s] : s \in MayBecome(status[l])}
    /\ Enqueue(l, version[l] + 1)
    /\ UNCHANGED <<matchedVersion, attempts, expired, matches, worker,
                   newest, told, lost, crashes>>

(* updateGuestStatus, updateGuestContact: a new version without a job. *)
GuestUpdate(l) ==
    /\ l \in GuestListing
    /\ NextVersion(l)
    /\ status' \in {[status EXCEPT ![l] = s] : s \in MayBecome(status[l])}
    /\ UNCHANGED <<piece, matchedVersion, jobs, matches, worker, newest, told, lost,
                   crashes>>

(* remove, and expireListings, which deletes a guest's listing and hides another's. *)
Withdraw(l) ==
    /\ NextVersion(l)
    /\ \/ status' = [status EXCEPT ![l] = "CLOSED"]
       \/ /\ status[l] = "ACTIVE"
          /\ l \notin GuestListing
          /\ status' = [status EXCEPT ![l] = "HIDDEN"]
    /\ UNCHANGED <<piece, matchedVersion, jobs, matches, worker, newest, told, lost,
                   crashes>>

(* updateListingStatus, removeListing: the status alone, same version, no job. *)
Moderate(l, s) ==
    /\ s # status[l]
    /\ Change
    /\ status' = [status EXCEPT ![l] = s]
    /\ moderated' = moderated \cup {l}
    /\ UNCHANGED <<version, piece, matchedVersion, jobs, matches, worker, newest, told,
                   lost, crashes>>

(* runDailyBackfill: a job for each ACTIVE listing not matched at its version, unless *)
(* the version has had one already (skipDuplicates).                                  *)
Stale(l) == status[l] = "ACTIVE" /\ matchedVersion[l] # version[l]

Backfill ==
    LET found == {[listing |-> l, version |-> version[l]] : l \in {x \in Listing : Stale(x)}}
        new == {j \in found : jobStatus[j] = "ABSENT"}
    IN  /\ new # {}
        /\ jobStatus' = [j \in Job |-> IF j \in new THEN "PENDING" ELSE jobStatus[j]]
        /\ UNCHANGED <<listings, attempts, expired, matches, worker, history,
                       bounds>>

(* updateMatchStatus, by the owner of l. *)
Mark(p, l, s) ==
    /\ Exists(p)
    /\ Change
    /\ participant' = [participant EXCEPT ![p][l] = s]
    /\ UNCHANGED <<listings, jobs, row, notified, worker, history, crashes>>

-----------------------------------------------------------------------------
(* Time, as far as the claim looks at it: a lease ends after five minutes.  The backoff *)
(* of a released job only delays it, and a claim may always be late.                    *)
LeaseExpires(j) ==
    /\ jobStatus[j] = "PROCESSING"
    /\ j \notin expired
    /\ expired' = expired \cup {j}
    /\ UNCHANGED <<listings, jobStatus, attempts, matches, worker, history,
                   bounds>>

(* Mutant: an abandoned lease is not taken over. *)
DueOnce(j) == jobStatus[j] = "PENDING"

Due(j) ==
    \/ jobStatus[j] = "PENDING"
    \/ jobStatus[j] = "PROCESSING" /\ j \in expired

Claim(w, j) ==
    /\ worker[w] = Idle
    /\ Due(j)
    /\ LET n == IF attempts[j] < MaxAttempts THEN attempts[j] + 1 ELSE attempts[j] IN
       /\ attempts' = [attempts EXCEPT ![j] = n]
       /\ worker' = [worker EXCEPT ![w] =
                        [pc |-> "checking", job |-> j, attempt |-> n,
                         piece |-> Unread, kept |-> {}, with |-> j.listing, failed |-> FALSE]]
    /\ jobStatus' = [jobStatus EXCEPT ![j] = "PROCESSING"]
    /\ expired' = expired \ {j}
    /\ UNCHANGED <<listings, matches, history, bounds>>

-----------------------------------------------------------------------------
(* process, and runMatchForListing within it. *)
At(w, pc) == worker[w].pc = pc
Goto(w, pc) == worker' = [worker EXCEPT ![w].pc = pc]
Run(w) == worker[w].job
MatchOf(w) == {Run(w).listing, worker[w].with}

(* Mutant: the error is forgotten. *)
ThrowQuietly(w) ==
    worker' = [worker EXCEPT ![w].pc = "alerting", ![w].piece = Unread,
                             ![w].kept = {}, ![w].with = Run(w).listing]

(* On to the next candidate, or out of the run with an error, which process remembers. *)
Proceed(w) == worker' = [worker EXCEPT ![w].pc = "pairing", ![w].with = Run(w).listing]
Throw(w) ==
    worker' = [worker EXCEPT ![w].pc = "alerting", ![w].failed = TRUE, ![w].piece = Unread,
                             ![w].kept = {}, ![w].with = Run(w).listing]

Current(j) == status[j.listing] = "ACTIVE" /\ version[j.listing] = j.version

(* A job that has been superseded is completed without a run. *)
Check(w) ==
    /\ At(w, "checking")
    /\ Goto(w, IF Current(Run(w)) THEN "reading" ELSE "completing")
    /\ UNCHANGED <<listings, jobs, matches, history, bounds>>

CheckFails(w) ==
    /\ At(w, "checking")
    /\ Goto(w, "releasing")
    /\ UNCHANGED <<listings, jobs, matches, history, bounds>>

ReadListing(w) ==
    /\ At(w, "reading")
    /\ IF Current(Run(w))
       THEN worker' = [worker EXCEPT ![w].piece = piece[Run(w).listing],
                                     ![w].pc = "searching"]
       ELSE Goto(w, "alerting")
    /\ UNCHANGED <<listings, jobs, matches, history, bounds>>

(* passesHardCompatibility and the score against the threshold. *)
Compatible(a, x, b, y) == OwnerOf[a] # OwnerOf[b] /\ <<x, y>> \in Complement

(* Mutant: what has been matched at its version is not looked at again. *)
CandidatesUnmatched(w) ==
    {l \in Listing : /\ status[l] = "ACTIVE"
                     /\ matchedVersion[l] # version[l]
                     /\ Compatible(Run(w).listing, worker[w].piece, l, piece[l])}

Candidates(w) ==
    {l \in Listing : /\ status[l] = "ACTIVE"
                     /\ Compatible(Run(w).listing, worker[w].piece, l, piece[l])}

Search(w) ==
    /\ At(w, "searching")
    /\ worker' = [worker EXCEPT
                    ![w].kept = {[listing |-> l, version |-> version[l]] : l \in Candidates(w)},
                    ![w].piece = Unread,
                    ![w].pc = "pairing"]
    /\ UNCHANGED <<listings, jobs, matches, history, bounds>>

(* Mutant: the match is saved with the versions of the moment. *)
FreshSnapshot(l, v, c) ==
    [x \in Listing |-> IF x \in {l, c.listing} THEN version[x] ELSE 0]

(* What the upsert makes of a match of version v of l with candidate c. *)
Snapshot(l, v, c) ==
    [x \in Listing |-> IF x = l THEN v ELSE IF x = c.listing THEN c.version ELSE 0]

SaveMatch(w) ==
    /\ At(w, "pairing")
    /\ \E c \in worker[w].kept :
        LET p == {Run(w).listing, c.listing}
            saved == Snapshot(Run(w).listing, Run(w).version, c)
        IN  /\ row' = [row EXCEPT ![p] = saved]
            /\ newest' = [newest EXCEPT ![p] =
                            [x \in Listing |-> IF saved[x] > @[x] THEN saved[x] ELSE @[x]]]
            /\ worker' = [worker EXCEPT ![w].kept = @ \ {c}, ![w].with = c.listing,
                                        ![w].pc = "joining"]
    /\ UNCHANGED <<listings, jobs, notified, participant, told, lost, moderated, bounds>>

(* Mutant: joining resets what the owners have marked. *)
JoinedAnew(mark) == "PENDING"

(* createMany with skipDuplicates. *)
Joined(mark) == IF mark = "NONE" THEN "PENDING" ELSE mark

JoinParticipants(w) ==
    /\ At(w, "joining")
    /\ participant' = [participant EXCEPT ![MatchOf(w)] =
                        [l \in Listing |-> IF l \in MatchOf(w) THEN Joined(@[l]) ELSE @[l]]]
    /\ Goto(w, "claiming")
    /\ UNCHANGED <<listings, jobs, row, notified, history, bounds>>

(* Mutant: a match is announced whenever it is found. *)
ClaimAlways(w) ==
    /\ At(w, "claiming")
    /\ notified' = notified \cup {MatchOf(w)}
    /\ Goto(w, "notifying")
    /\ UNCHANGED <<listings, jobs, row, participant, history, bounds>>

(* The UPDATE ... WHERE "notifiedAt" IS NULL decides which run tells the owners.   *)
ClaimNotice(w) ==
    /\ At(w, "claiming")
    /\ notified' = notified \cup {MatchOf(w)}
    /\ IF MatchOf(w) \in notified THEN Proceed(w) ELSE Goto(w, "notifying")
    /\ UNCHANGED <<listings, jobs, row, participant, history, bounds>>

(* notifyMatchOwners: of the owners who are no guests, each is told or not.  A notice *)
(* still being written when another fails is counted with the failure.                 *)
Recipients(p) == p \ GuestListing

Notify(w) ==
    /\ At(w, "notifying")
    /\ \E reached \in SUBSET Recipients(MatchOf(w)) :
        /\ told' = [told EXCEPT ![MatchOf(w)] =
                        [l \in Listing |-> IF l \in reached THEN @[l] + 1 ELSE @[l]]]
        /\ IF reached = Recipients(MatchOf(w)) THEN Proceed(w) ELSE Goto(w, "returning")
    /\ UNCHANGED <<listings, jobs, matches, newest, lost, moderated, bounds>>

(* Mutant: the claim is kept. *)
KeepNotice(w) ==
    /\ At(w, "returning")
    /\ Throw(w)
    /\ UNCHANGED <<listings, jobs, matches, history, bounds>>

(* Its catch gives the claim back and rethrows, which ends the run. *)
ReturnNotice(w) ==
    /\ At(w, "returning")
    /\ notified' = notified \ {MatchOf(w)}
    /\ told' = [told EXCEPT ![MatchOf(w)] = [l \in Listing |-> 0]]
    /\ Throw(w)
    /\ UNCHANGED <<listings, jobs, row, participant, newest, lost, moderated, bounds>>

(* The listing is stamped when all its candidates are paired, if still at the version. *)
Stamp(w) ==
    /\ At(w, "pairing")
    /\ worker[w].kept = {}
    /\ matchedVersion' = [matchedVersion EXCEPT ![Run(w).listing] =
                            IF version[Run(w).listing] = Run(w).version THEN Run(w).version ELSE @]
    /\ Goto(w, "alerting")
    /\ UNCHANGED <<status, version, piece, jobs, matches, history, bounds>>

(* A statement of the run fails: process remembers the error and goes on. *)
RunFails(w) ==
    /\ worker[w].pc \in RunStep
    /\ Throw(w)
    /\ lost' = IF At(w, "returning") THEN lost \cup {MatchOf(w)} ELSE lost
    /\ UNCHANGED <<listings, jobs, matches, newest, told, moderated, bounds>>

(* PairAlertsService.runMatchForListing, of which process sees only an error. *)
Alert(w) ==
    /\ At(w, "alerting")
    /\ \E error \in BOOLEAN :
        LET failed == worker[w].failed \/ error IN
        worker' = [worker EXCEPT ![w].failed = failed,
                                 ![w].pc = IF failed THEN "releasing" ELSE "completing"]
    /\ UNCHANGED <<listings, jobs, matches, history, bounds>>

-----------------------------------------------------------------------------
(* processPending settles the job, if it is still PROCESSING: the statement does not *)
(* ask who holds the lease.                                                          *)
Settle(w, s) ==
    LET j == Run(w) IN
    /\ jobStatus' = [jobStatus EXCEPT ![j] = IF @ = "PROCESSING" THEN s ELSE @]
    /\ expired' = expired \ {j}
    /\ worker' = [worker EXCEPT ![w] = Idle]

Complete(w) ==
    /\ At(w, "completing")
    /\ Settle(w, "COMPLETED")
    /\ UNCHANGED <<listings, attempts, matches, history, bounds>>

CompleteFails(w) ==
    /\ At(w, "completing")
    /\ Goto(w, "releasing")
    /\ UNCHANGED <<listings, jobs, matches, history, bounds>>

Released(attempt) == IF attempt >= MaxAttempts THEN "FAILED" ELSE "PENDING"

(* releaseForRetry *)
Release(w) ==
    /\ At(w, "releasing")
    /\ Settle(w, Released(worker[w].attempt))
    /\ UNCHANGED <<listings, attempts, matches, history, bounds>>

(* The invocation is killed; its job stays PROCESSING until the lease expires. *)
Crash(w) ==
    /\ worker[w] # Idle
    /\ crashes < MaxCrashes
    /\ crashes' = crashes + 1
    /\ worker' = [worker EXCEPT ![w] = Idle]
    /\ lost' = IF worker[w].pc \in {"notifying", "returning"}
               THEN lost \cup {MatchOf(w)} ELSE lost
    /\ UNCHANGED <<listings, jobs, matches, newest, told, moderated, changes>>

-----------------------------------------------------------------------------
Work(w) ==
    \/ Check(w) \/ CheckFails(w)
    \/ ReadListing(w) \/ Search(w)
    \/ SaveMatch(w) \/ JoinParticipants(w) \/ ClaimNotice(w) \/ Notify(w) \/ ReturnNotice(w)
    \/ Stamp(w) \/ RunFails(w)
    \/ Alert(w)
    \/ Complete(w) \/ CompleteFails(w) \/ Release(w)

Next ==
    \/ \E l \in Listing : Edit(l) \/ GuestUpdate(l) \/ Withdraw(l)
    \/ \E l \in Listing, s \in Moderation : Moderate(l, s)
    \/ Backfill
    \/ \E p \in Pair : \E l \in p \ GuestListing, s \in Marks : Mark(p, l, s)
    \/ \E j \in Job : LeaseExpires(j)
    \/ \E w \in Worker, j \in Job : Claim(w, j)
    \/ \E w \in Worker : Work(w) \/ Crash(w)

Spec == Init /\ [][Next]_vars

(* The schedule claims every minute and queues what is stale every day, leases end,  *)
(* and a worker that is not killed goes on; no statement is assumed to succeed.        *)
Fairness ==
    /\ WF_vars(Backfill)
    /\ WF_vars(\E j \in Job : LeaseExpires(j))
    /\ WF_vars(\E w \in Worker, j \in Job : Claim(w, j))
    /\ \A w \in Worker : WF_vars(Work(w))

FairSpec == Spec /\ Fairness

-----------------------------------------------------------------------------
(* getMatchesForUser: both listings ACTIVE and at the versions of the match. *)
Shown(p) ==
    \A l \in p : status[l] = "ACTIVE" /\ row[p][l] = version[l]

(* What the two listings say now goes together. *)
Fit(p) == \A a, b \in p : a # b => Compatible(a, piece[a], b, piece[b])

(* A match that users are shown fits what both listings say now, whatever was edited *)
(* while the run that found it was under way (matching.service.ts:188, 213).           *)
ShownMatchesFit == \A p \in Pair : Shown(p) => Fit(p)

(* A job that is COMPLETED for the version an ACTIVE listing still has did stamp it:   *)
(* no outcome of a run is taken for success, and skipping is for superseded versions.   *)
(* An administrator who switches a listing without a new version voids this             *)
(* (matching-jobs.service.ts:48, 92).                                                    *)
CompletedMeansMatched ==
    \A j \in Job : jobStatus[j] = "COMPLETED" /\ Current(j) /\ j.listing \notin moderated
                    => matchedVersion[j.listing] = j.version

(* A run with an old snapshot wrote over a newer one. *)
Overtaken(p) == \E l \in p : row[p][l] < newest[p][l]

(* Two ACTIVE listings that fit and are both stamped at their versions are shown to     *)
(* their owners.  Whichever was changed last, its own run saw the other; what can still   *)
(* hide the match is a run that wrote an older snapshot over it (matching.service.ts:137). *)
SettledPairShown ==
    \A p \in Pair :
        /\ Fit(p)
        /\ \A l \in p : /\ status[l] = "ACTIVE"
                        /\ matchedVersion[l] = version[l]
                        /\ l \notin moderated
        /\ ~Overtaken(p)
        => Shown(p)

(* However many runs find a match, at once or again, each owner is told once, and once *)
(* more only after a claim was given back (matching.service.ts:172).                     *)
AnnouncedOnce == \A p \in Pair, l \in Listing : told[p][l] <= 1

(* "notifiedAt" stands for owners who were told: it is set only while a run is still    *)
(* telling them, afterwards if it reached them all, or if that run was lost between.     *)
ClaimedMeansTold ==
    \A p \in notified \ lost :
        \/ \E w \in Worker : worker[w].pc \in {"notifying", "returning"} /\ MatchOf(w) = p
        \/ \A l \in Recipients(p) : told[p][l] > 0

(* Where the announcement of a match stands: it is free to be claimed, or a run has it,  *)
(* or it is over.                                                                        *)
Held(p, pc) == \E w \in Worker : At(w, pc) /\ MatchOf(w) = p

Phase(p) ==
    IF p \notin notified THEN "FREE"
    ELSE IF Held(p, "notifying") THEN "TELLING"
    ELSE IF Held(p, "returning") THEN "RETURNING"
    ELSE IF \A l \in Recipients(p) : told[p][l] > 0 THEN "DONE" ELSE "LOST"

Notice(p) ==
    INSTANCE Announcement WITH
        Parties <- Recipients(p), phase <- Phase(p), told <- [l \in Recipients(p) |-> told[p][l]]

(* Every match is announced as Announcement has it, by whatever runs find it: one of them *)
(* claims it, tells each owner once, and only a run that could not give the claim back     *)
(* leaves it claimed with an owner untold (matching.service.ts:172).                       *)
ImplementsAnnouncement ==
    /\ \A p \in Pair : Notice(p)!Init
    /\ [][\A p \in Pair : [Notice(p)!Next]_(Notice(p)!vars)]_vars

(* What an owner made of a match survives every later run that finds it again           *)
(* (matching.service.ts:164).                                                            *)
MarksSurvive ==
    \A p \in Pair, l \in Listing :
        participant[p][l] \in {"VIEWED", "DISMISSED"}
            => participant'[p][l] \in {"VIEWED", "DISMISSED"}
MarksAlwaysSurvive == [][MarksSurvive]_vars

(* A version that its listing keeps gets matched, with a job or through the backfill,    *)
(* unless its job ran out of attempts or an administrator switched the listing            *)
(* (matching.service.ts:264).                                                             *)
VersionsGetMatched ==
    \A l \in Listing, v \in Version :
        (status[l] = "ACTIVE" /\ version[l] = v)
            ~> \/ matchedVersion[l] = v
               \/ status[l] # "ACTIVE" \/ version[l] # v \/ l \in moderated
               \/ jobStatus[[listing |-> l, version |-> v]] = "FAILED"

=============================================================================
