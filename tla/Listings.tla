------------------------------- MODULE Listings -------------------------------
(***************************************************************************)
(* ListingsService and UploadService: listings, the registry of uploaded      *)
(* images, the S3 objects behind it, and the scheduled jobs that expire       *)
(* listings and clean up unattached uploads.                                  *)
(*                                                                         *)
(* An owner's edit reads the listing, checks, and writes it in a transaction  *)
(* guarded by the version it read; creating a listing is guarded by the       *)
(* unique (userId, clientRequestId).  A transaction's statements are guarded   *)
(* by row locks, so each is one action; the read before it, and every S3       *)
(* call, is an action of its own.  Moderation writes the status alone.        *)
(***************************************************************************)
EXTENDS Naturals, FiniteSets

CONSTANTS
    Listing,        \* listing ids
    GuestListing,   \* the ones guests create: isGuestListing
    Upload,         \* upload ids; each names one S3 key
    Request,        \* (userId, clientRequestId) of a creation
    Call,           \* concurrent create, update and updateGuestStatus calls
    Moderation,     \* the statuses administrators set
    NoListing,      \* null
    MaxVersion      \* bound: the version up to which people edit and moderate a listing

Published == {"ACTIVE", "PAUSED", "COMPLETED", "EXPIRED", "FLAGGED", "DELETED"}

ASSUME ListingAssumption ==
    /\ GuestListing \subseteq Listing
    /\ NoListing \notin Listing
    /\ Request # {}
    /\ Moderation \subseteq Published
    /\ MaxVersion \in Nat \ {0}

VARIABLES
    status,         \* "Listing"."status", or "NONE" before the row exists
    version,        \* "version"
    images,         \* "images", as the uploads whose keys they name
    request,        \* "clientRequestId"
    expired,        \* "expiresAt" has passed
    registry,       \* "Upload"."status", or "ABSENT" before the row exists
    listingId,      \* "listingId"
    aged,           \* "createdAt" is more than 24 hours ago
    object,         \* the S3 object exists
    storing,        \* where uploadForOwner is with the upload
    call,           \* the calls in progress: what they read and what they want
    sweep,          \* expireListings: what remains to do, and the guests it found
    queue,          \* cleanupPendingUploads: uploads found and not yet handled
    gone,           \* the upload whose object it has just deleted, if any
    moderated       \* history: listings whose status an administrator has set

listingRows == <<status, version, images, request, expired>>
uploadRows == <<registry, listingId, aged>>
cleaner == <<queue, gone>>
vars == <<listingRows, uploadRows, object, storing, call, sweep, cleaner,
          moderated>>

-----------------------------------------------------------------------------
NewStatus == {"KEEP", "ACTIVE", "PAUSED", "COMPLETED"}

Idle == [op |-> "idle"]
Creating == [op : {"create"}, request : Request, images : SUBSET Upload]
Versions == 1..(MaxVersion + 1)    \* the sweep may still act on the last one
Updating == [op : {"update"}, listing : Listing, version : Versions,
             seen : SUBSET Upload, images : SUBSET Upload, status : NewStatus]
GuestUpdating == [op : {"guest"}, listing : Listing, version : Versions,
                  status : NewStatus \ {"KEEP"}]

TypeOK ==
    /\ status \in [Listing -> Published \cup {"NONE"}]
    /\ version \in [Listing -> Versions]
    /\ images \in [Listing -> SUBSET Upload]
    /\ request \in [Listing -> Request]
    /\ expired \in [Listing -> BOOLEAN]
    /\ registry \in [Upload -> {"ABSENT", "PENDING", "ATTACHED", "DELETED"}]
    /\ listingId \in [Upload -> Listing \cup {NoListing}]
    /\ aged \in [Upload -> BOOLEAN]
    /\ object \in [Upload -> BOOLEAN]
    /\ storing \in [Upload -> {"new", "stored", "failed", "done"}]
    /\ call \in [Call -> {Idle} \cup Creating \cup Updating \cup GuestUpdating]
    /\ sweep \in [pc : {"idle", "guests", "regular"}, ids : SUBSET Listing]
    /\ queue \subseteq Upload
    /\ gone \subseteq Upload
    /\ moderated \subseteq Listing

Init ==
    /\ status = [l \in Listing |-> "NONE"]
    /\ version = [l \in Listing |-> 1]
    /\ images = [l \in Listing |-> {}]
    /\ request = [l \in Listing |-> CHOOSE r \in Request : TRUE]
    /\ expired = [l \in Listing |-> FALSE]
    /\ registry = [u \in Upload |-> "ABSENT"]
    /\ listingId = [u \in Upload |-> NoListing]
    /\ aged = [u \in Upload |-> FALSE]
    /\ object = [u \in Upload |-> FALSE]
    /\ storing = [u \in Upload |-> "new"]
    /\ call = [c \in Call |-> Idle]
    /\ sweep = [pc |-> "idle", ids |-> {}]
    /\ queue = {}
    /\ gone = {}
    /\ moderated = {}

Exists(l) == status[l] # "NONE"

-----------------------------------------------------------------------------
(* uploadForOwner: the object first, then its row; a failed insert is undone by   *)
(* deleting the object, which may fail in turn.                                    *)
StoreObject(u) ==
    /\ storing[u] = "new"
    /\ storing' = [storing EXCEPT ![u] = "stored"]
    /\ object' = [object EXCEPT ![u] = TRUE]
    /\ UNCHANGED <<listingRows, uploadRows, call, sweep, cleaner, moderated>>

RegisterUpload(u) ==
    /\ storing[u] = "stored"
    /\ storing' = [storing EXCEPT ![u] = "done"]
    /\ registry' = [registry EXCEPT ![u] = "PENDING"]
    /\ UNCHANGED <<listingRows, listingId, aged, object, call, sweep, cleaner,
                   moderated>>

RegisterFails(u) ==
    /\ storing[u] = "stored"
    /\ storing' = [storing EXCEPT ![u] = "failed"]
    /\ UNCHANGED <<listingRows, uploadRows, object, call, sweep, cleaner, moderated>>

RemoveUnregistered(u) ==
    /\ storing[u] = "failed"
    /\ storing' = [storing EXCEPT ![u] = "done"]
    /\ object' \in {object, [object EXCEPT ![u] = FALSE]}
    /\ UNCHANGED <<listingRows, uploadRows, call, sweep, cleaner, moderated>>

(* Time, as far as the jobs look at it.                                             *)
UploadAges(u) ==
    /\ registry[u] # "ABSENT"
    /\ ~aged[u]
    /\ aged' = [aged EXCEPT ![u] = TRUE]
    /\ UNCHANGED <<listingRows, registry, listingId, object, storing, call, sweep,
                   cleaner, moderated>>

ListingExpires(l) ==
    /\ Exists(l) /\ ~expired[l]
    /\ expired' = [expired EXCEPT ![l] = TRUE]
    /\ UNCHANGED <<status, version, images, request, uploadRows, object, storing, call,
                   sweep, cleaner, moderated>>

-----------------------------------------------------------------------------
(* attachUploads and its opposite, within the transaction that changes images.     *)
Unattached(S) == \A u \in S : registry[u] = "PENDING" /\ listingId[u] = NoListing

AttachedTo(L) == {u \in Upload : registry[u] = "ATTACHED" /\ listingId[u] \in L}

(* Mutant: a released upload keeps the listing it was attached to. *)
ReregisterKeeping(attach, release, l) ==
    /\ registry' = [u \in Upload |-> IF u \in attach THEN "ATTACHED"
                                     ELSE IF u \in release THEN "PENDING" ELSE registry[u]]
    /\ listingId' = [u \in Upload |-> IF u \in attach THEN l ELSE listingId[u]]
    /\ aged' = aged

Reregister(attach, release, l) ==
    /\ registry' = [u \in Upload |-> IF u \in attach THEN "ATTACHED"
                                     ELSE IF u \in release THEN "PENDING" ELSE registry[u]]
    /\ listingId' = [u \in Upload |-> IF u \in attach THEN l
                                      ELSE IF u \in release THEN NoListing ELSE listingId[u]]
    /\ aged' = aged

Begin(c, record) == call[c] = Idle /\ call' = [call EXCEPT ![c] = record]
End(c) == call' = [call EXCEPT ![c] = Idle]

(* create, createGuest: an existing row of the request is answered as it is.        *)
BeginCreate(c, r, S) ==
    /\ S # {}
    /\ \A l \in Listing : Exists(l) => request[l] # r
    /\ Begin(c, [op |-> "create", request |-> r, images |-> S])
    /\ UNCHANGED <<listingRows, uploadRows, object, storing, sweep, cleaner, moderated>>

CommitCreate(c, l) ==
    /\ call[c].op = "create"
    /\ ~Exists(l)
    /\ \A k \in Listing : Exists(k) => request[k] # call[c].request
    /\ Unattached(call[c].images)
    /\ status' = [status EXCEPT ![l] = "ACTIVE"]
    /\ images' = [images EXCEPT ![l] = call[c].images]
    /\ request' = [request EXCEPT ![l] = call[c].request]
    /\ Reregister(call[c].images, {}, l)
    /\ End(c)
    /\ UNCHANGED <<version, expired, object, storing, sweep, cleaner, moderated>>

-----------------------------------------------------------------------------
(* assertStatusTransition.                                                          *)
MayBecome(from, to) ==
    \/ to \in {"KEEP", from}
    \/ from = "ACTIVE" /\ to \in {"PAUSED", "COMPLETED"}
    \/ from = "PAUSED" /\ to \in {"ACTIVE", "COMPLETED"}
    \/ from = "EXPIRED" /\ to = "ACTIVE"

(* update: images are demanded with every edit, and at least one of them is new;   *)
(* a completed listing is not edited.                                              *)
BeginUpdate(c, l, S, st) ==
    /\ l \notin GuestListing
    /\ Exists(l) /\ status[l] # "COMPLETED"
    /\ MayBecome(status[l], st)
    /\ S \ images[l] # {}
    /\ Begin(c, [op |-> "update", listing |-> l, version |-> version[l],
                 seen |-> images[l], images |-> S, status |-> st])
    /\ UNCHANGED <<listingRows, uploadRows, object, storing, sweep, cleaner, moderated>>

Wanted(q) == IF q.status = "KEEP" THEN status[q.listing] ELSE q.status

WriteListing(q) ==
    /\ q.version < MaxVersion
    /\ status' = [status EXCEPT ![q.listing] = Wanted(q)]
    /\ version' = [version EXCEPT ![q.listing] = @ + 1]
    /\ images' = [images EXCEPT ![q.listing] = q.images]
    /\ expired' = [expired EXCEPT ![q.listing] = @ /\ q.status # "ACTIVE"]
    /\ request' = request

(* Mutants: the version is not in the WHERE; what is taken out stays attached. *)
CommitUpdateBlind(c) ==
    LET q == call[c] IN
    /\ q.op = "update"
    /\ Unattached(q.images \ q.seen)
    /\ WriteListing(q)
    /\ Reregister(q.images \ q.seen,
                  (q.seen \ q.images) \cap AttachedTo({q.listing}), q.listing)
    /\ End(c)
    /\ UNCHANGED <<object, storing, sweep, cleaner, moderated>>

CommitUpdateKeeping(c) ==
    LET q == call[c] IN
    /\ q.op = "update"
    /\ version[q.listing] = q.version
    /\ Unattached(q.images \ q.seen)
    /\ WriteListing(q)
    /\ Reregister(q.images \ q.seen, {}, q.listing)
    /\ End(c)
    /\ UNCHANGED <<object, storing, sweep, cleaner, moderated>>

CommitUpdate(c) ==
    LET q == call[c] IN
    /\ q.op = "update"
    /\ version[q.listing] = q.version
    /\ Unattached(q.images \ q.seen)
    /\ WriteListing(q)
    /\ Reregister(q.images \ q.seen,
                  (q.seen \ q.images) \cap AttachedTo({q.listing}), q.listing)
    /\ End(c)
    /\ UNCHANGED <<object, storing, sweep, cleaner, moderated>>

(* updateGuestStatus: a guest may not republish after the seven days.               *)
BeginGuestStatus(c, l, st) ==
    /\ l \in GuestListing
    /\ Exists(l)
    /\ st = "ACTIVE" => ~expired[l]
    /\ MayBecome(status[l], st)
    /\ Begin(c, [op |-> "guest", listing |-> l, version |-> version[l], status |-> st])
    /\ UNCHANGED <<listingRows, uploadRows, object, storing, sweep, cleaner, moderated>>

CommitGuestStatus(c) ==
    LET q == call[c] IN
    /\ q.op = "guest"
    /\ version[q.listing] = q.version
    /\ version[q.listing] < MaxVersion
    /\ status' = [status EXCEPT ![q.listing] = q.status]
    /\ version' = [version EXCEPT ![q.listing] = @ + 1]
    /\ End(c)
    /\ UNCHANGED <<images, request, expired, uploadRows, object, storing, sweep, cleaner,
                   moderated>>

(* A call that conflicts, is refused, rolls back or is killed changes nothing.       *)
EndCall(c) ==
    /\ call[c] # Idle
    /\ End(c)
    /\ UNCHANGED <<listingRows, uploadRows, object, storing, sweep, cleaner, moderated>>

(* updateGuestContact.                                                               *)
UpdateGuestContact(l) ==
    /\ l \in GuestListing
    /\ Exists(l) /\ version[l] < MaxVersion
    /\ version' = [version EXCEPT ![l] = @ + 1]
    /\ UNCHANGED <<status, images, request, expired, uploadRows, object, storing, call,
                   sweep, cleaner, moderated>>

(* remove.                                                                           *)
Remove(l) ==
    /\ l \notin GuestListing
    /\ Exists(l) /\ version[l] < MaxVersion
    /\ status' = [status EXCEPT ![l] = "DELETED"]
    /\ version' = [version EXCEPT ![l] = @ + 1]
    /\ images' = [images EXCEPT ![l] = {}]
    /\ Reregister({}, AttachedTo({l}), l)
    /\ UNCHANGED <<request, expired, object, storing, call, sweep, cleaner, moderated>>

(* AdminService: updateListingStatus, removeListing, actOnReport.                    *)
AdminSetsStatus(l, st) ==
    /\ Exists(l) /\ version[l] <= MaxVersion
    /\ st \in Moderation
    /\ status' = [status EXCEPT ![l] = st]
    /\ moderated' = moderated \cup {l}
    /\ UNCHANGED <<version, images, request, expired, uploadRows, object, storing, call,
                   sweep, cleaner>>

-----------------------------------------------------------------------------
(* expireListings: guests are found, then deleted in a transaction; the others are    *)
(* marked in one statement.                                                          *)
(* Mutant: completed guest listings are left out. *)
DoomedUnsold == {l \in GuestListing :
                    expired[l] /\ status[l] \in {"ACTIVE", "PAUSED", "EXPIRED"}}

Doomed == {l \in GuestListing :
              expired[l] /\ status[l] \in {"ACTIVE", "PAUSED", "EXPIRED", "COMPLETED"}}

FindExpired ==
    /\ sweep.pc = "idle"
    /\ sweep' = [pc |-> IF Doomed = {} THEN "regular" ELSE "guests", ids |-> Doomed]
    /\ UNCHANGED <<listingRows, uploadRows, object, storing, call, cleaner, moderated>>

(* Mutant: the second check leaves out completed listings. *)
DeleteGuestsUnsold ==
    LET D == sweep.ids \cap DoomedUnsold IN
    /\ sweep.pc = "guests"
    /\ \A l \in D : version[l] <= MaxVersion
    /\ status' = [l \in Listing |-> IF l \in D THEN "DELETED" ELSE status[l]]
    /\ version' = [l \in Listing |-> IF l \in D THEN version[l] + 1 ELSE version[l]]
    /\ images' = [l \in Listing |-> IF l \in D THEN {} ELSE images[l]]
    /\ Reregister({}, AttachedTo(sweep.ids), NoListing)
    /\ sweep' = [pc |-> "regular", ids |-> {}]
    /\ UNCHANGED <<request, expired, object, storing, call, cleaner, moderated>>

DeleteExpiredGuests ==
    LET D == sweep.ids \cap Doomed IN
    /\ sweep.pc = "guests"
    /\ \A l \in D : version[l] <= MaxVersion
    /\ status' = [l \in Listing |-> IF l \in D THEN "DELETED" ELSE status[l]]
    /\ version' = [l \in Listing |-> IF l \in D THEN version[l] + 1 ELSE version[l]]
    /\ images' = [l \in Listing |-> IF l \in D THEN {} ELSE images[l]]
    /\ Reregister({}, AttachedTo(sweep.ids), NoListing)
    /\ sweep' = [pc |-> "regular", ids |-> {}]
    /\ UNCHANGED <<request, expired, object, storing, call, cleaner, moderated>>

ExpireRegular ==
    LET D == {l \in Listing \ GuestListing : expired[l] /\ status[l] = "ACTIVE"} IN
    /\ sweep.pc = "regular"
    /\ \A l \in D : version[l] <= MaxVersion
    /\ status' = [l \in Listing |-> IF l \in D THEN "EXPIRED" ELSE status[l]]
    /\ version' = [l \in Listing |-> IF l \in D THEN version[l] + 1 ELSE version[l]]
    /\ sweep' = [pc |-> "idle", ids |-> {}]
    /\ UNCHANGED <<images, request, expired, uploadRows, object, storing, call, cleaner,
                   moderated>>

StopSweep ==
    /\ sweep.pc # "idle"
    /\ sweep' = [pc |-> "idle", ids |-> {}]
    /\ UNCHANGED <<listingRows, uploadRows, object, storing, call, cleaner, moderated>>

-----------------------------------------------------------------------------
(* cleanupPendingUploads: for each upload found, the object first, then the row.      *)
(* Mutant: the age is not asked for. *)
FindAnyAge ==
    LET found == {u \in Upload : registry[u] = "PENDING" /\ listingId[u] = NoListing} IN
    /\ queue = {} /\ gone = {}
    /\ found # {}
    /\ queue' = found
    /\ UNCHANGED <<listingRows, uploadRows, object, storing, call, sweep, gone,
                   moderated>>

FindUnattached ==
    LET found == {u \in Upload : registry[u] = "PENDING" /\ listingId[u] = NoListing
                                                         /\ aged[u]} IN
    /\ queue = {} /\ gone = {}
    /\ found # {}
    /\ queue' = found
    /\ UNCHANGED <<listingRows, uploadRows, object, storing, call, sweep, gone,
                   moderated>>

DeleteObject(u) ==
    /\ u \in queue /\ gone = {}
    /\ object' = [object EXCEPT ![u] = FALSE]
    /\ queue' = queue \ {u}
    /\ gone' = {u}
    /\ UNCHANGED <<listingRows, uploadRows, storing, call, sweep, moderated>>

(* S3 refuses: the row is left for the next run.                                      *)
SkipUpload(u) ==
    /\ u \in queue /\ gone = {}
    /\ queue' = queue \ {u}
    /\ UNCHANGED <<listingRows, uploadRows, object, storing, call, sweep, gone,
                   moderated>>

MarkDeleted(u) ==
    /\ u \in gone
    /\ gone' = {}
    /\ registry' = [registry EXCEPT ![u] =
                      IF @ = "PENDING" /\ listingId[u] = NoListing THEN "DELETED" ELSE @]
    /\ UNCHANGED <<listingRows, listingId, aged, object, storing, call, sweep, queue,
                   moderated>>

(* The row's statement fails, or the invocation is killed.                            *)
MarkFails ==
    /\ gone # {}
    /\ gone' = {}
    /\ UNCHANGED <<listingRows, uploadRows, object, storing, call, sweep, queue,
                   moderated>>

StopCleaning ==
    /\ queue # {}
    /\ queue' = {} /\ gone' = {}
    /\ UNCHANGED <<listingRows, uploadRows, object, storing, call, sweep, moderated>>

-----------------------------------------------------------------------------
Uploading ==
    \E u \in Upload :
        \/ StoreObject(u) \/ RegisterUpload(u) \/ RegisterFails(u)
        \/ RemoveUnregistered(u) \/ UploadAges(u)

Editing ==
    \E c \in Call :
        \/ \E r \in Request, S \in SUBSET Upload : BeginCreate(c, r, S)
        \/ \E l \in Listing :
              \/ CommitCreate(c, l)
              \/ \E S \in SUBSET Upload, st \in NewStatus : BeginUpdate(c, l, S, st)
              \/ \E st \in NewStatus \ {"KEEP"} : BeginGuestStatus(c, l, st)
        \/ CommitUpdate(c) \/ CommitGuestStatus(c) \/ EndCall(c)

Managing ==
    \E l \in Listing :
        \/ ListingExpires(l) \/ UpdateGuestContact(l) \/ Remove(l)
        \/ \E st \in Published : AdminSetsStatus(l, st)

Sweeping == FindExpired \/ DeleteExpiredGuests \/ ExpireRegular \/ StopSweep

Cleaning ==
    \/ FindUnattached \/ MarkFails \/ StopCleaning
    \/ \E u \in Upload : DeleteObject(u) \/ SkipUpload(u) \/ MarkDeleted(u)

Next == Uploading \/ Editing \/ Managing \/ Sweeping \/ Cleaning

Spec == Init /\ [][Next]_vars

(* Maintenance runs every day; what S3 or the database refuses today is tried again   *)
(* tomorrow, and is not refused forever.                                             *)
FairSpec ==
    /\ Spec
    /\ WF_vars(FindUnattached)
    /\ \A u \in Upload :
          /\ WF_vars(UploadAges(u))
          /\ SF_vars(DeleteObject(u)) /\ SF_vars(MarkDeleted(u))
    /\ WF_vars(FindExpired) /\ WF_vars(ExpireRegular) /\ SF_vars(DeleteExpiredGuests)

-----------------------------------------------------------------------------
(* Properties. *)

(* An upload attached to a listing is one of the listing's images, so that removing    *)
(* the listing, or the image from it, releases the upload.                            *)
AttachedIsListed ==
    \A u \in Upload : registry[u] = "ATTACHED" => u \in images[listingId[u]]

(* The images of a listing are exactly the uploads registered to it: an owner's through *)
(* concurrent edits of the same version, a guest's through the sweep, which takes both  *)
(* or neither unless an administrator has had a hand in the listing.                   *)
RegistryIsExact ==
    \A l \in Listing \ (GuestListing \cap moderated), u \in Upload :
        u \in images[l] <=> u \in AttachedTo({l})

(* A creation request, retried however often, makes one listing.                     *)
OneListingPerRequest ==
    \A k, l \in Listing :
        Exists(k) /\ Exists(l) /\ request[k] = request[l] => k = l

(* A row says DELETED only when its object is gone from the bucket.                   *)
DeletedMeansGone == \A u \in Upload : registry[u] = "DELETED" => ~object[u]

(* Every status a listing takes follows assertStatusTransition's table, although the  *)
(* table is consulted for the status that was read: an edit begun before an expiry,    *)
(* a removal or another edit conflicts.  Administrators are excepted.                 *)
StatusFollowsTable ==
    [][\A l \in Listing \ moderated' :
          Exists(l) => \/ MayBecome(status[l], status'[l])
                       \/ status'[l] = "DELETED"
                       \/ status[l] = "ACTIVE" /\ status'[l] = "EXPIRED"]_vars

(* An administrator has flagged or removed the listing.                              *)
TakenOut(l) == l \in moderated /\ status[l] \in {"FLAGGED", "DELETED"}

(* expireListings reads the guests' listings, deletes those that still qualify and      *)
(* releases the uploads of all it read.  A listing that no longer qualifies keeps        *)
(* naming its images while their uploads go to the cleanup: that is a defect, and this   *)
(* is how far it goes.  An upload is released from under its listing only where an       *)
(* administrator flagged or removed the listing between the sweep's read and its         *)
(* transaction; nothing a guest does in between, selling included, comes to it.          *)
ReleasedWhenTakenOut ==
    [][\A l \in GuestListing, u \in Upload :
          u \in AttachedTo({l}) \cap images'[l] /\ u \notin AttachedTo({l})'
            => TakenOut(l)]_vars

(* A guest's listing whose seven days are over is deleted in the end, and its images    *)
(* and uploads let go.  Not so one that an administrator has flagged or removed: the     *)
(* sweep does not look for it, and what images and attached uploads it has stay.         *)
ExpiredGuestsGo ==
    \A l \in GuestListing :
        []<>(Exists(l) /\ expired[l]
               => \/ status[l] = "DELETED" /\ images[l] = {} /\ AttachedTo({l}) = {}
                  \/ TakenOut(l))

(* A pending upload is attached or cleaned up in the end.                             *)
PendingIsResolved ==
    \A u \in Upload : []<>(registry[u] # "PENDING")

(* An upload keeps its object through its first day: whatever is attached, released or *)
(* cleaned up meanwhile, an image that is not a day old can be shown.                  *)
YoungImagesExist ==
    \A l \in Listing : \A u \in images[l] : ~aged[u] => object[u]

(* What Catalogue speaks of: the images a listing offers, the uploads nobody uses, and *)
(* those there are rows of.  The rows of a guest's images are what counts, since the   *)
(* sweep may release them and leave the column.                                        *)
Offered(l) == IF l \in GuestListing THEN AttachedTo({l}) ELSE images[l]

shown == [l \in Listing |-> Offered(l)]
free == {u \in Upload : registry[u] = "PENDING"}
known == {u \in Upload : registry[u] # "ABSENT"}

Atomic == INSTANCE Catalogue

(* Edits that read, check and write in several steps, beside expiry, removal, the      *)
(* sweep and moderation, are as good as edits made in one instant: an owner's images    *)
(* and the registry change together, a status follows by the table from the one there  *)
(* is and a completed listing is not edited, unless an administrator had a hand in it.  *)
ImplementsCatalogue == Atomic!Spec

(* A flag may be overwritten by an edit or a guest's change that had read the listing    *)
(* before, and by nothing else: when none of those is left it stays, whoever tries       *)
(* afterwards, until an administrator decides otherwise or the listing is removed.       *)
MayLift(c, l) ==
    /\ call[c].op \in {"update", "guest"} /\ call[c].listing = l
    /\ call[c].version = version[l]
    /\ call[c].status # "KEEP"

SafelyFlagged(l) == status[l] = "FLAGGED" /\ \A c \in Call : ~MayLift(c, l)

FlagHolds ==
    [][\A l \in Listing :
          SafelyFlagged(l) => \/ SafelyFlagged(l)'
                              \/ status'[l] = "DELETED"
                              \/ \E st \in Moderation : AdminSetsStatus(l, st)]_vars

(* BACKEND_LAUNCH_SETUP.md: the cleanup removes uploads that remain unattached, so the  *)
(* images an active listing refers to have their objects.                             *)
ActiveImagesExist ==
    \A l \in Listing : status[l] = "ACTIVE" => \A u \in images[l] : object[u]

(* assertStatusTransition: FLAGGED leads nowhere.  What an administrator flags stays   *)
(* flagged or is removed, until an administrator decides otherwise.                    *)
FlaggedStays ==
    [][\A l \in Listing :
          status[l] = "FLAGGED" => status'[l] \in {"FLAGGED", "DELETED"}]_vars

=============================================================================
