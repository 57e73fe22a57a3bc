---------------------------- MODULE ListingsProofs ----------------------------
(***************************************************************************)
(* What Listings promises of any number of listings, uploads, concurrent    *)
(* calls and versions.                                                      *)
(***************************************************************************)
EXTENDS Listings, TLAPS

-----------------------------------------------------------------------------
(* The invariant.  A row of the registry names a listing if and only if it is attached, and then    *)
(* to one that has the image; the images of a listing are attached to it, but where an             *)
(* administrator has had a hand in a guest's.                                                      *)
Registered ==
    /\ \A u \in Upload : registry[u] = "ATTACHED" => /\ listingId[u] \in Listing
                                                     /\ u \in images[listingId[u]]
    /\ \A u \in Upload : registry[u] # "ATTACHED" => listingId[u] = NoListing
    /\ \A l \in Listing \ (GuestListing \cap moderated), u \in Upload :
            u \in images[l] => registry[u] = "ATTACHED" /\ listingId[u] = l
    /\ \A l \in Listing : ~Exists(l) => images[l] = {}
    /\ sweep.ids \subseteq GuestListing

(* The cleanup only ever handles uploads whose storing is over, so that no object appears behind     *)
(* the row it marks.                                                                                *)
Stored ==
    /\ \A u \in Upload : storing[u] # "done" => registry[u] = "ABSENT"
    /\ \A u \in queue \cup gone : registry[u] # "ABSENT"
    /\ \A u \in gone : ~object[u]
    /\ DeletedMeansGone

(* A call whose version is still the listing's has seen the listing as it is, but for what an        *)
(* administrator set.                                                                               *)
UpToDate(q) ==
    q.version = version[q.listing] =>
        /\ q.op = "update" => q.seen = images[q.listing]
        /\ q.listing \in moderated \/ MayBecome(status[q.listing], q.status)

CallOK(c) ==
    call[c].op \in {"update", "guest"} =>
        /\ Exists(call[c].listing)
        /\ call[c].op = "update" => call[c].listing \notin GuestListing
        /\ call[c].version <= version[call[c].listing]
        /\ UpToDate(call[c])

(* What the sweep has found is due, unless an administrator has stepped in. *)
Sweepable == {"ACTIVE", "PAUSED", "EXPIRED", "COMPLETED"}

FoundOK(l) == expired[l] /\ (status[l] \in Sweepable \/ l \in moderated)

IInv ==
    /\ TypeOK
    /\ Registered
    /\ \A l \in sweep.ids : FoundOK(l)
    /\ Stored
    /\ \A c \in Call : CallOK(c)
    /\ OneListingPerRequest

-----------------------------------------------------------------------------
LEMMA CallTyped ==
    ASSUME TypeOK, NEW c \in Call
    PROVE  /\ call[c].op = "create" => call[c] \in Creating
           /\ call[c].op = "update" => call[c] \in Updating
           /\ call[c].op = "guest" => call[c] \in GuestUpdating
           /\ call[c].op \in {"idle", "create", "update", "guest"}
BY DEF TypeOK, Idle, Creating, Updating, GuestUpdating

LEMMA Moving ==
    ASSUME NEW v \in Versions, v <= MaxVersion
    PROVE  v + 1 \in Versions
BY ListingAssumption DEF Versions

(* The actions, by what they touch. *)
Storing(u) == StoreObject(u) \/ RegisterUpload(u) \/ RegisterFails(u) \/ RemoveUnregistered(u)
Beginning(c) ==
    \/ \E r \in Request, S \in SUBSET Upload : BeginCreate(c, r, S)
    \/ \E l \in Listing, S \in SUBSET Upload, st \in NewStatus : BeginUpdate(c, l, S, st)
    \/ \E l \in Listing, st \in NewStatus \ {"KEEP"} : BeginGuestStatus(c, l, st)

(* Types. *)
LEMMA ReregisterTyped ==
    ASSUME TypeOK, NEW attach, NEW release, NEW l \in Listing \cup {NoListing},
           Reregister(attach, release, l)
    PROVE  /\ registry' \in [Upload -> {"ABSENT", "PENDING", "ATTACHED", "DELETED"}]
           /\ listingId' \in [Upload -> Listing \cup {NoListing}]
           /\ aged' \in [Upload -> BOOLEAN]
BY DEF TypeOK, Reregister

LEMMA TypeStep == TypeOK /\ [Next]_vars => TypeOK'
<1> SUFFICES ASSUME TypeOK, [Next]_vars PROVE TypeOK'
    OBVIOUS
<1> USE DEF listingRows, uploadRows, cleaner
<1>1. ASSUME NEW u \in Upload, Storing(u) \/ UploadAges(u) PROVE TypeOK'
    <2>1. CASE StoreObject(u) \/ RegisterFails(u)
        BY <2>1 DEF TypeOK, StoreObject, RegisterFails
    <2>2. CASE RegisterUpload(u)
        BY <2>2 DEF TypeOK, RegisterUpload
    <2>3. CASE RemoveUnregistered(u)
        BY <2>3 DEF TypeOK, RemoveUnregistered
    <2>4. CASE UploadAges(u)
        BY <2>4 DEF TypeOK, UploadAges
    <2> QED
        BY <1>1, <2>1, <2>2, <2>3, <2>4 DEF Storing
<1>2. ASSUME NEW c \in Call, Beginning(c) PROVE TypeOK'
    <2>1. CASE \E r \in Request, S \in SUBSET Upload : BeginCreate(c, r, S)
        BY <2>1 DEF TypeOK, BeginCreate, Begin, Creating
    <2>2. CASE \E l \in Listing, S \in SUBSET Upload, st \in NewStatus : BeginUpdate(c, l, S, st)
        BY <2>2 DEF TypeOK, BeginUpdate, Begin, Updating
    <2>3. CASE \E l \in Listing, st \in NewStatus \ {"KEEP"} : BeginGuestStatus(c, l, st)
        BY <2>3 DEF TypeOK, BeginGuestStatus, Begin, GuestUpdating
    <2> QED
        BY <1>2, <2>1, <2>2, <2>3 DEF Beginning
<1>3. ASSUME NEW c \in Call, EndCall(c) PROVE TypeOK'
    BY <1>3 DEF TypeOK, EndCall, End
<1>4. ASSUME NEW c \in Call, NEW l \in Listing, CommitCreate(c, l) PROVE TypeOK'
    <2>1. call[c] \in Creating
        BY <1>4, CallTyped DEF CommitCreate
    <2>2. UNCHANGED <<version, expired, object, storing, sweep, cleaner, moderated>>
        BY <1>4 DEF CommitCreate
    <2>3. /\ status' \in [Listing -> Published \cup {"NONE"}]
          /\ images' \in [Listing -> SUBSET Upload] /\ request' \in [Listing -> Request]
          /\ call' \in [Call -> {Idle} \cup Creating \cup Updating \cup GuestUpdating]
        BY <1>4, <2>1 DEF TypeOK, CommitCreate, End, Creating, Published
    <2> QED
        BY <1>4, <2>2, <2>3, ReregisterTyped DEF TypeOK, CommitCreate
<1>5. ASSUME NEW c \in Call, CommitUpdate(c) PROVE TypeOK'
    <2>1. call[c] \in Updating
        BY <1>5, CallTyped DEF CommitUpdate
    <2>2. PICK q \in Updating : q = call[c]
        BY <2>1
    <2>3. UNCHANGED <<object, storing, sweep, cleaner, moderated>>
        BY <1>5 DEF CommitUpdate
    <2>4. WriteListing(q) /\ version[q.listing] = q.version
        BY <1>5, <2>2 DEF CommitUpdate
    <2>5. q.listing \in Listing /\ q.images \in SUBSET Upload /\ q.status \in NewStatus
        BY DEF Updating
    <2>6. Wanted(q) \in Published \cup {"NONE"}
        BY <2>5 DEF Wanted, TypeOK, NewStatus, Published
    <2>7. version[q.listing] + 1 \in Versions
        BY <2>4, <2>5, Moving, ListingAssumption DEF TypeOK, WriteListing, Versions
    <2>8. /\ status' \in [Listing -> Published \cup {"NONE"}]
          /\ version' \in [Listing -> Versions]
          /\ images' \in [Listing -> SUBSET Upload] /\ request' \in [Listing -> Request]
          /\ expired' \in [Listing -> BOOLEAN]
        BY <2>4, <2>5, <2>6, <2>7 DEF TypeOK, WriteListing
    <2>9. call' \in [Call -> {Idle} \cup Creating \cup Updating \cup GuestUpdating]
        BY <1>5 DEF TypeOK, CommitUpdate, End
    <2>10. Reregister(q.images \ q.seen, (q.seen \ q.images) \cap AttachedTo({q.listing}), q.listing)
        BY <1>5, <2>2 DEF CommitUpdate
    <2> QED
        BY <2>3, <2>5, <2>8, <2>9, <2>10, ReregisterTyped DEF TypeOK
<1>6. ASSUME NEW c \in Call, CommitGuestStatus(c) PROVE TypeOK'
    <2>1. call[c] \in GuestUpdating
        BY <1>6, CallTyped DEF CommitGuestStatus
    <2>2. call[c].listing \in Listing /\ call[c].status \in Published
        BY <2>1 DEF GuestUpdating, NewStatus, Published
    <2>3. version[call[c].listing] + 1 \in Versions
        BY <1>6, <2>2, Moving, ListingAssumption DEF TypeOK, CommitGuestStatus, Versions
    <2> QED
        BY <1>6, <2>2, <2>3 DEF TypeOK, CommitGuestStatus, End
<1>7. ASSUME NEW l \in Listing, ListingExpires(l) PROVE TypeOK'
    BY <1>7 DEF TypeOK, ListingExpires
<1>8. ASSUME NEW l \in Listing, UpdateGuestContact(l) PROVE TypeOK'
    <2>1. version[l] + 1 \in Versions
        BY <1>8, Moving, ListingAssumption DEF TypeOK, UpdateGuestContact, Versions
    <2> QED
        BY <1>8, <2>1 DEF TypeOK, UpdateGuestContact
<1>9. ASSUME NEW l \in Listing, Remove(l) PROVE TypeOK'
    <2>1. version[l] + 1 \in Versions
        BY <1>9, Moving, ListingAssumption DEF TypeOK, Remove, Versions
    <2>2. /\ status' \in [Listing -> Published \cup {"NONE"}]
          /\ version' \in [Listing -> Versions] /\ images' \in [Listing -> SUBSET Upload]
        BY <1>9, <2>1 DEF TypeOK, Remove, Published
    <2> QED
        BY <1>9, <2>2, ReregisterTyped DEF TypeOK, Remove
<1>10. ASSUME NEW l \in Listing, NEW st \in Published, AdminSetsStatus(l, st) PROVE TypeOK'
    BY <1>10 DEF TypeOK, AdminSetsStatus
<1>11. CASE FindExpired
    <2>1. Doomed \in SUBSET Listing
        BY ListingAssumption DEF Doomed
    <2>2. sweep' \in [pc : {"idle", "guests", "regular"}, ids : SUBSET Listing]
        BY <1>11, <2>1 DEF FindExpired
    <2> QED
        BY <1>11, <2>2 DEF TypeOK, FindExpired
<1>12. CASE DeleteExpiredGuests
    <2> DEFINE D == sweep.ids \cap Doomed
    <2>1. \A l \in Listing : l \in D => version[l] + 1 \in Versions
        BY <1>12, Moving DEF TypeOK, DeleteExpiredGuests
    <2> HIDE DEF D
    <2>2. /\ status' = [l \in Listing |-> IF l \in D THEN "DELETED" ELSE status[l]]
          /\ version' = [l \in Listing |-> IF l \in D THEN version[l] + 1 ELSE version[l]]
          /\ images' = [l \in Listing |-> IF l \in D THEN {} ELSE images[l]]
        BY <1>12 DEF DeleteExpiredGuests, D
    <2>3. /\ status' \in [Listing -> Published \cup {"NONE"}]
          /\ version' \in [Listing -> Versions] /\ images' \in [Listing -> SUBSET Upload]
        BY <2>1, <2>2 DEF TypeOK, Published
    <2> QED
        BY <1>12, <2>3, ReregisterTyped DEF TypeOK, DeleteExpiredGuests
<1>13. CASE ExpireRegular
    <2> DEFINE D == {l \in Listing \ GuestListing : expired[l] /\ status[l] = "ACTIVE"}
    <2>1. \A l \in Listing : l \in D => version[l] + 1 \in Versions
        BY <1>13, Moving DEF TypeOK, ExpireRegular
    <2> HIDE DEF D
    <2>2. /\ status' = [l \in Listing |-> IF l \in D THEN "EXPIRED" ELSE status[l]]
          /\ version' = [l \in Listing |-> IF l \in D THEN version[l] + 1 ELSE version[l]]
        BY <1>13 DEF ExpireRegular, D
    <2>3. /\ status' \in [Listing -> Published \cup {"NONE"}] /\ version' \in [Listing -> Versions]
        BY <2>1, <2>2 DEF TypeOK, Published
    <2> QED
        BY <1>13, <2>3 DEF TypeOK, ExpireRegular
<1>14. CASE StopSweep
    BY <1>14 DEF TypeOK, StopSweep
<1>15. CASE FindUnattached \/ MarkFails \/ StopCleaning
    BY <1>15 DEF TypeOK, FindUnattached, MarkFails, StopCleaning
<1>16. ASSUME NEW u \in Upload, DeleteObject(u) \/ SkipUpload(u) \/ MarkDeleted(u) PROVE TypeOK'
    BY <1>16 DEF TypeOK, DeleteObject, SkipUpload, MarkDeleted
<1>17. CASE UNCHANGED vars
    BY <1>17 DEF TypeOK, vars
<1> QED
    BY <1>1, <1>2, <1>3, <1>4, <1>5, <1>6, <1>7, <1>8, <1>9, <1>10, <1>11, <1>12, <1>13, <1>14,
       <1>15, <1>16, <1>17
    DEF Next, Uploading, Editing, Managing, Sweeping, Cleaning, Storing, Beginning

-----------------------------------------------------------------------------
(* A listing that exists goes on existing; its images change, and its status but for an            *)
(* administrator, only as its version moves on.                                                   *)
Versioned(l) ==
    /\ Exists(l)'
    /\ version'[l] >= version[l]
    /\ version'[l] = version[l] => images'[l] = images[l]
    /\ version'[l] = version[l] => status'[l] = status[l] \/ l \in moderated'

LEMMA VersionedStep ==
    ASSUME TypeOK, \A c \in Call : CallOK(c), [Next]_vars, NEW l \in Listing, Exists(l)
    PROVE  Versioned(l) /\ moderated \subseteq moderated'
<1> USE DEF listingRows, uploadRows, cleaner, Exists, Versioned
<1>1. version[l] \in Nat
    BY ListingAssumption DEF TypeOK, Versions
<1>2. ASSUME UNCHANGED listingRows, UNCHANGED moderated PROVE Versioned(l) /\ moderated \subseteq moderated'
    BY <1>1, <1>2
<1>3. ASSUME NEW c \in Call, NEW k \in Listing, CommitCreate(c, k)
      PROVE  Versioned(l) /\ moderated \subseteq moderated'
    BY <1>1, <1>3 DEF CommitCreate, TypeOK
<1>4. ASSUME NEW c \in Call, CommitUpdate(c) PROVE Versioned(l) /\ moderated \subseteq moderated'
    <2>1. PICK q \in Updating : q = call[c]
        BY <1>4, CallTyped DEF CommitUpdate
    <2>2. q.listing \in Listing /\ q.status \in NewStatus
        BY DEF Updating
    <2>3. status[q.listing] # "NONE"
        BY <1>4, <2>1 DEF CallOK, CommitUpdate
    <2>4. /\ status' = [status EXCEPT ![q.listing] = Wanted(q)]
          /\ version' = [version EXCEPT ![q.listing] = @ + 1]
          /\ images' = [images EXCEPT ![q.listing] = q.images]
          /\ moderated' = moderated
        BY <1>4, <2>1 DEF CommitUpdate, WriteListing
    <2>5. Wanted(q) # "NONE"
        BY <2>2, <2>3 DEF Wanted, NewStatus
    <2> QED
        BY <1>1, <2>2, <2>4, <2>5 DEF TypeOK
<1>5. ASSUME NEW c \in Call, CommitGuestStatus(c)
      PROVE  Versioned(l) /\ moderated \subseteq moderated'
    <2>1. PICK q \in GuestUpdating : q = call[c]
        BY <1>5, CallTyped DEF CommitGuestStatus
    <2>2. q.listing \in Listing /\ q.status # "NONE"
        BY DEF GuestUpdating, NewStatus
    <2>3. /\ status' = [status EXCEPT ![q.listing] = q.status]
          /\ version' = [version EXCEPT ![q.listing] = @ + 1]
          /\ images' = images /\ moderated' = moderated
        BY <1>5, <2>1 DEF CommitGuestStatus
    <2> QED
        BY <1>1, <2>2, <2>3 DEF TypeOK
<1>6. ASSUME NEW k \in Listing, ListingExpires(k) \/ UpdateGuestContact(k) \/ Remove(k)
      PROVE  Versioned(l) /\ moderated \subseteq moderated'
    BY <1>1, <1>6 DEF ListingExpires, UpdateGuestContact, Remove, TypeOK
<1>7. ASSUME NEW k \in Listing, NEW st \in Published, AdminSetsStatus(k, st)
      PROVE  Versioned(l) /\ moderated \subseteq moderated'
    BY <1>1, <1>7 DEF AdminSetsStatus, TypeOK, Published
<1>8. CASE DeleteExpiredGuests
    BY <1>1, <1>8 DEF DeleteExpiredGuests, TypeOK
<1>9. CASE ExpireRegular
    BY <1>1, <1>9 DEF ExpireRegular, TypeOK
<1>10. ASSUME NEW u \in Upload, Storing(u) \/ UploadAges(u)
       PROVE  UNCHANGED listingRows /\ UNCHANGED moderated
    BY <1>10 DEF Storing, StoreObject, RegisterUpload, RegisterFails, RemoveUnregistered, UploadAges
<1>11. ASSUME NEW c \in Call, Beginning(c) \/ EndCall(c)
       PROVE  UNCHANGED listingRows /\ UNCHANGED moderated
    BY <1>11 DEF Beginning, BeginCreate, BeginUpdate, BeginGuestStatus, EndCall
<1>12. ASSUME FindExpired \/ StopSweep \/ Cleaning
       PROVE  UNCHANGED listingRows /\ UNCHANGED moderated
    BY <1>12 DEF FindExpired, StopSweep, Cleaning, FindUnattached, MarkFails, StopCleaning,
       DeleteObject, SkipUpload, MarkDeleted
<1>13. CASE UNCHANGED vars
    BY <1>2, <1>13 DEF vars
<1> QED
    BY <1>2, <1>3, <1>4, <1>5, <1>6, <1>7, <1>8, <1>9, <1>10, <1>11, <1>12, <1>13
    DEF Next, Uploading, Editing, Managing, Sweeping, Storing, Beginning

(* What calls in progress know. *)
LEMMA CallStep ==
    ASSUME TypeOK, \A c \in Call : CallOK(c), [Next]_vars, NEW c \in Call
    PROVE  CallOK(c)'
<1> USE DEF listingRows, uploadRows, cleaner
<1>1. ASSUME call'[c] = call[c] PROVE CallOK(c)'
    <2> SUFFICES ASSUME call[c].op \in {"update", "guest"} PROVE CallOK(c)'
        BY <1>1 DEF CallOK
    <2>1. PICK q \in Updating \cup GuestUpdating : q = call[c]
        BY CallTyped
    <2>2. q.listing \in Listing /\ q.version \in Versions
        BY DEF Updating, GuestUpdating
    <2>3. /\ Exists(q.listing)
          /\ q.op = "update" => q.listing \notin GuestListing
          /\ q.version <= version[q.listing]
          /\ UpToDate(q)
        BY <2>1 DEF CallOK
    <2>4. Versioned(q.listing) /\ moderated \subseteq moderated'
        BY <2>2, <2>3, VersionedStep
    <2>5. version[q.listing] \in Nat /\ q.version \in Nat /\ version'[q.listing] \in Nat
        BY <2>2, TypeStep, ListingAssumption DEF TypeOK, Versions
    <2>6. UpToDate(q)'
        BY <2>3, <2>4, <2>5 DEF UpToDate, Versioned, MayBecome
    <2>7. Exists(q.listing)' /\ q.version <= version'[q.listing]
        BY <2>3, <2>4, <2>5 DEF Versioned
    <2>8. call'[c] = q
        BY <1>1, <2>1
    <2> QED
        BY <2>3, <2>6, <2>7, <2>8 DEF CallOK, UpToDate
<1>2. ASSUME call'[c] = Idle PROVE CallOK(c)'
    BY <1>2 DEF CallOK, Idle
<1>3. ASSUME NEW d \in Call, End(d) PROVE CallOK(c)'
    <2>1. call' = [call EXCEPT ![d] = Idle]
        BY <1>3 DEF End
    <2>2. call'[c] = call[c] \/ call'[c] = Idle
        BY <2>1 DEF TypeOK
    <2> QED
        BY <1>1, <1>2, <2>2
<1>4. ASSUME NEW d \in Call, NEW q, Begin(d, q), d = c => CallOK(c)' PROVE CallOK(c)'
    <2>1. d # c => call'[c] = call[c]
        BY <1>4 DEF Begin, TypeOK
    <2> QED
        BY <1>1, <1>4, <2>1
<1>5. ASSUME NEW r \in Request, NEW S \in SUBSET Upload, BeginCreate(c, r, S) PROVE CallOK(c)'
    <2>1. call'[c].op = "create"
        BY <1>5 DEF BeginCreate, Begin, TypeOK
    <2> QED
        BY <2>1 DEF CallOK
<1>6. ASSUME NEW l \in Listing, NEW S \in SUBSET Upload, NEW st \in NewStatus,
             BeginUpdate(c, l, S, st)
      PROVE  CallOK(c)'
    <2>1. PICK q : q = [op |-> "update", listing |-> l, version |-> version[l],
                        seen |-> images[l], images |-> S, status |-> st]
        OBVIOUS
    <2>2. call'[c] = q
        BY <1>6, <2>1 DEF BeginUpdate, Begin, TypeOK
    <2>3. /\ q.op = "update" /\ q.listing = l /\ q.version = version[l] /\ q.seen = images[l]
          /\ q.status = st
        BY <2>1
    <2>4. UNCHANGED <<version, images, status, moderated>>
        BY <1>6 DEF BeginUpdate
    <2>5. Exists(l)' /\ l \notin GuestListing /\ MayBecome(status[l], st)
        BY <1>6, <2>4 DEF BeginUpdate, Exists
    <2>6. version[l] \in Nat
        BY ListingAssumption DEF TypeOK, Versions
    <2> QED
        BY <2>2, <2>3, <2>4, <2>5, <2>6 DEF CallOK, UpToDate
<1>7. ASSUME NEW l \in Listing, NEW st \in NewStatus \ {"KEEP"}, BeginGuestStatus(c, l, st)
      PROVE  CallOK(c)'
    <2>1. PICK q : q = [op |-> "guest", listing |-> l, version |-> version[l], status |-> st]
        OBVIOUS
    <2>2. call'[c] = q
        BY <1>7, <2>1 DEF BeginGuestStatus, Begin, TypeOK
    <2>3. q.op = "guest" /\ q.listing = l /\ q.version = version[l] /\ q.status = st
        BY <2>1
    <2>4. UNCHANGED <<version, images, status, moderated>>
        BY <1>7 DEF BeginGuestStatus
    <2>5. Exists(l)' /\ MayBecome(status[l], st)
        BY <1>7, <2>4 DEF BeginGuestStatus, Exists
    <2>6. version[l] \in Nat
        BY ListingAssumption DEF TypeOK, Versions
    <2> QED
        BY <2>2, <2>3, <2>4, <2>5, <2>6 DEF CallOK, UpToDate
<1>8. ASSUME NEW d \in Call, Beginning(d) PROVE CallOK(c)'
    <2>1. \E q : Begin(d, q)
        BY <1>8 DEF Beginning, BeginCreate, BeginUpdate, BeginGuestStatus
    <2> QED
        BY <1>4, <1>5, <1>6, <1>7, <1>8, <2>1 DEF Beginning
<1>9. ASSUME NEW d \in Call,
             CommitUpdate(d) \/ CommitGuestStatus(d) \/ EndCall(d)
             \/ \E l \in Listing : CommitCreate(d, l)
      PROVE  End(d)
    BY <1>9 DEF CommitUpdate, CommitGuestStatus, EndCall, CommitCreate
<1>10. ASSUME NEW u \in Upload, Storing(u) \/ UploadAges(u) PROVE UNCHANGED call
    BY <1>10 DEF Storing, StoreObject, RegisterUpload, RegisterFails, RemoveUnregistered, UploadAges
<1>11. ASSUME Managing \/ Sweeping \/ Cleaning PROVE UNCHANGED call
    BY <1>11 DEF Managing, ListingExpires, UpdateGuestContact, Remove, AdminSetsStatus, Sweeping,
       FindExpired, DeleteExpiredGuests, ExpireRegular, StopSweep, Cleaning, FindUnattached,
       MarkFails, StopCleaning, DeleteObject, SkipUpload, MarkDeleted
<1>12. CASE UNCHANGED vars
    BY <1>1, <1>12 DEF vars
<1> QED
    BY <1>1, <1>3, <1>8, <1>9, <1>10, <1>11, <1>12
    DEF Next, Uploading, Editing, Storing, Beginning

-----------------------------------------------------------------------------
(* The registry. *)

(* What the sweep has found stays due but for an administrator, whatever its guest does to it. *)
LEMMA FoundStep ==
    ASSUME TypeOK, Registered, \A c \in Call : CallOK(c), \A l \in sweep.ids : FoundOK(l),
           [Next]_vars
    PROVE  (\A l \in sweep.ids : FoundOK(l))'
<1> USE DEF listingRows
<1>1. TypeOK /\ (\A d \in Call : CallOK(d)) /\ sweep.ids \subseteq GuestListing /\ TypeOK'
    BY TypeStep DEF Registered
<1>2. ASSUME sweep' = sweep, moderated \subseteq moderated',
             \A l \in GuestListing : expired[l] => expired'[l],
             \A l \in GuestListing : status[l] \in Sweepable =>
                                        status'[l] \in Sweepable \/ l \in moderated'
      PROVE  (\A l \in sweep.ids : FoundOK(l))'
    BY <1>1, <1>2 DEF FoundOK
<1>3. ASSUME UNCHANGED <<status, expired, moderated, sweep>>
      PROVE  (\A l \in sweep.ids : FoundOK(l))'
    BY <1>3 DEF FoundOK
<1>4. ASSUME NEW c \in Call, NEW l \in Listing, CommitCreate(c, l)
      PROVE  (\A k \in sweep.ids : FoundOK(k))'
    BY <1>1, <1>2, <1>4 DEF CommitCreate, TypeOK, Sweepable
<1>5. ASSUME NEW c \in Call, CommitUpdate(c) PROVE (\A k \in sweep.ids : FoundOK(k))'
    <2>1. PICK q \in Updating : q = call[c]
        BY <1>1, <1>5, CallTyped DEF CommitUpdate
    <2>2. q.listing \in Listing /\ q.listing \notin GuestListing
        BY <1>1, <2>1 DEF CallOK, Updating
    <2>3. /\ status' = [status EXCEPT ![q.listing] = Wanted(q)]
          /\ expired' = [expired EXCEPT ![q.listing] = @ /\ q.status # "ACTIVE"]
          /\ UNCHANGED <<sweep, moderated>>
        BY <1>5, <2>1 DEF CommitUpdate, WriteListing
    <2>4. \A l \in GuestListing : status'[l] = status[l] /\ expired'[l] = expired[l]
        BY <1>1, <2>2, <2>3, ListingAssumption DEF TypeOK
    <2> QED
        BY <1>2, <2>3, <2>4
<1>6. ASSUME NEW c \in Call, CommitGuestStatus(c) PROVE (\A k \in sweep.ids : FoundOK(k))'
    <2>1. PICK q \in GuestUpdating : q = call[c]
        BY <1>1, <1>6, CallTyped DEF CommitGuestStatus
    <2>2. q.listing \in Listing /\ q.status \in Sweepable
        BY DEF GuestUpdating, NewStatus, Sweepable
    <2>3. status' = [status EXCEPT ![q.listing] = q.status] /\ UNCHANGED <<expired, sweep, moderated>>
        BY <1>6, <2>1 DEF CommitGuestStatus
    <2> QED
        BY <1>1, <1>2, <2>2, <2>3, ListingAssumption DEF TypeOK
<1>7. ASSUME NEW l \in Listing, ListingExpires(l) PROVE (\A k \in sweep.ids : FoundOK(k))'
    BY <1>1, <1>2, <1>7, ListingAssumption DEF ListingExpires, TypeOK
<1>8. ASSUME NEW l \in Listing, Remove(l) PROVE (\A k \in sweep.ids : FoundOK(k))'
    BY <1>1, <1>2, <1>8, ListingAssumption DEF Remove, TypeOK
<1>9. ASSUME NEW l \in Listing, NEW st \in Published, AdminSetsStatus(l, st)
      PROVE  (\A k \in sweep.ids : FoundOK(k))'
    BY <1>1, <1>2, <1>9, ListingAssumption DEF AdminSetsStatus, TypeOK
<1>10. CASE FindExpired
    BY <1>10 DEF FindExpired, Doomed, FoundOK, Sweepable
<1>11. CASE DeleteExpiredGuests \/ ExpireRegular \/ StopSweep
    BY <1>11 DEF DeleteExpiredGuests, ExpireRegular, StopSweep
<1>12. ASSUME NEW l \in Listing, UpdateGuestContact(l)
       PROVE  UNCHANGED <<status, expired, moderated, sweep>>
    BY <1>12 DEF UpdateGuestContact
<1>13. ASSUME NEW c \in Call, Beginning(c) \/ EndCall(c)
       PROVE  UNCHANGED <<status, expired, moderated, sweep>>
    BY <1>13 DEF Beginning, BeginCreate, BeginUpdate, BeginGuestStatus, EndCall
<1>14. ASSUME Uploading \/ Cleaning \/ UNCHANGED vars
       PROVE  UNCHANGED <<status, expired, moderated, sweep>>
    BY <1>14 DEF Uploading, StoreObject, RegisterUpload, RegisterFails, RemoveUnregistered,
       UploadAges, Cleaning, FindUnattached, MarkFails, StopCleaning, DeleteObject, SkipUpload,
       MarkDeleted, vars
<1> QED
    BY <1>3, <1>4, <1>5, <1>6, <1>7, <1>8, <1>9, <1>10, <1>11, <1>12, <1>13, <1>14
    DEF Next, Editing, Managing, Sweeping, Beginning

(* What changes neither listings nor the registry's attachments, nor what the sweep found. *)
LEMMA RegisteredRest ==
    ASSUME Registered, UNCHANGED <<status, images, listingId, moderated>>,
           \A u \in Upload : registry'[u] = "ATTACHED" <=> registry[u] = "ATTACHED",
           sweep'.ids \subseteq GuestListing
    PROVE  Registered'
BY DEF Registered, Exists

LEMMA RegisteredStep ==
    ASSUME TypeOK, Registered, \A l \in sweep.ids : FoundOK(l), Stored,
           \A c \in Call : CallOK(c), [Next]_vars
    PROVE  Registered'
<1> USE DEF listingRows, uploadRows, cleaner
<1>1. ASSUME NEW u \in Upload, Storing(u) PROVE Registered'
    <2>1. UNCHANGED <<status, images, listingId, sweep, moderated>>
        BY <1>1 DEF Storing, StoreObject, RegisterUpload, RegisterFails, RemoveUnregistered
    <2>2. \A w \in Upload : registry'[w] = "ATTACHED" <=> registry[w] = "ATTACHED"
        BY <1>1 DEF Storing, StoreObject, RegisterUpload, RegisterFails, RemoveUnregistered,
           Stored, TypeOK
    <2> QED
        BY <2>1, <2>2, RegisteredRest DEF Registered
<1>2. ASSUME NEW u \in Upload, UploadAges(u) PROVE Registered'
    BY <1>2, RegisteredRest DEF UploadAges, Registered
<1>3. ASSUME NEW c \in Call, Beginning(c) \/ EndCall(c) PROVE Registered'
    BY <1>3, RegisteredRest
    DEF Beginning, BeginCreate, BeginUpdate, BeginGuestStatus, EndCall, Registered
<1>4. ASSUME NEW c \in Call, NEW l \in Listing, CommitCreate(c, l) PROVE Registered'
    <2>1. PICK q \in Creating : q = call[c]
        BY <1>4, CallTyped DEF CommitCreate
    <2>2. q.images \subseteq Upload
        BY DEF Creating
    <2>3. PICK S \in SUBSET Upload : S = q.images
        BY <2>2
    <2>4. /\ ~Exists(l) /\ \A u \in S : registry[u] = "PENDING"
          /\ status' = [status EXCEPT ![l] = "ACTIVE"]
          /\ images' = [images EXCEPT ![l] = S]
          /\ registry' = [u \in Upload |-> IF u \in S THEN "ATTACHED" ELSE registry[u]]
          /\ listingId' = [u \in Upload |-> IF u \in S THEN l ELSE listingId[u]]
          /\ sweep' = sweep /\ moderated' = moderated
        BY <1>4, <2>1, <2>3 DEF CommitCreate, Reregister, Unattached
    <2>5. images[l] = {}
        BY <2>4 DEF Registered
    <2> QED
        BY <2>4, <2>5 DEF Registered, TypeOK, Exists
<1>5. ASSUME NEW c \in Call, CommitUpdate(c) PROVE Registered'
    <2>1. PICK q \in Updating : q = call[c]
        BY <1>5, CallTyped DEF CommitUpdate
    <2>2. PICK l \in Listing, S \in SUBSET Upload : l = q.listing /\ S = q.images
        BY DEF Updating
    <2>3. /\ status' = [status EXCEPT ![l] = Wanted(q)]
          /\ images' = [images EXCEPT ![l] = S]
          /\ sweep' = sweep /\ moderated' = moderated
          /\ version[l] = q.version
          /\ Unattached(S \ q.seen)
          /\ Reregister(S \ q.seen, (q.seen \ S) \cap AttachedTo({l}), l)
        BY <1>5, <2>1, <2>2 DEF CommitUpdate, WriteListing
    <2>4. q.seen = images[l] /\ Exists(l) /\ l \notin GuestListing
        BY <2>1, <2>2, <2>3 DEF CallOK, UpToDate, Updating
    <2>5. Wanted(q) # "NONE"
        BY <2>2, <2>4 DEF Wanted, Exists, Updating, NewStatus
    <2>6. \A u \in S \ images[l] : registry[u] = "PENDING" /\ listingId[u] = NoListing
        BY <2>3, <2>4 DEF Unattached
    <2>7. /\ registry' = [u \in Upload |->
                IF u \in S \ images[l] THEN "ATTACHED"
                ELSE IF u \in images[l] \ S /\ registry[u] = "ATTACHED" /\ listingId[u] = l
                     THEN "PENDING" ELSE registry[u]]
          /\ listingId' = [u \in Upload |->
                IF u \in S \ images[l] THEN l
                ELSE IF u \in images[l] \ S /\ registry[u] = "ATTACHED" /\ listingId[u] = l
                     THEN NoListing ELSE listingId[u]]
        BY <2>3, <2>4 DEF Reregister, AttachedTo
    <2> HIDE DEF Exists
    <2>8. \A k \in Listing : ~Exists(k)' => k # l /\ ~Exists(k)
        BY <2>3, <2>5 DEF Exists, TypeOK
    <2>9. \A k \in Listing : images'[k] = IF k = l THEN S ELSE images[k]
        BY <2>3 DEF TypeOK
    <2>10. \A u \in Upload : registry'[u] = "ATTACHED" =>
                    listingId'[u] \in Listing /\ u \in images'[listingId'[u]]
        BY <2>6, <2>7, <2>9 DEF Registered
    <2>11. \A u \in Upload : registry'[u] # "ATTACHED" => listingId'[u] = NoListing
        BY <2>6, <2>7 DEF Registered
    <2>12. \A k \in Listing \ (GuestListing \cap moderated'), u \in Upload :
                u \in images'[k] => registry'[u] = "ATTACHED" /\ listingId'[u] = k
        BY <2>3, <2>4, <2>6, <2>7, <2>9, ListingAssumption DEF Registered
    <2>13. \A k \in Listing : ~Exists(k)' => images'[k] = {}
        BY <2>8, <2>9 DEF Registered
    <2> QED
        BY <2>3, <2>10, <2>11, <2>12, <2>13 DEF Registered
<1>6. ASSUME NEW c \in Call, CommitGuestStatus(c) PROVE Registered'
    <2>1. PICK q \in GuestUpdating : q = call[c]
        BY <1>6, CallTyped DEF CommitGuestStatus
    <2>2. q.listing \in Listing /\ q.status # "NONE"
        BY DEF GuestUpdating, NewStatus
    <2>3. /\ status' = [status EXCEPT ![q.listing] = q.status]
          /\ UNCHANGED <<images, registry, listingId, sweep, moderated>>
        BY <1>6, <2>1 DEF CommitGuestStatus
    <2> QED
        BY <2>2, <2>3 DEF Registered, Exists, TypeOK
<1>7. ASSUME NEW l \in Listing, ListingExpires(l) \/ UpdateGuestContact(l) PROVE Registered'
    BY <1>7, RegisteredRest DEF ListingExpires, UpdateGuestContact, Registered
<1>8. ASSUME NEW l \in Listing, NEW st \in Published, AdminSetsStatus(l, st) PROVE Registered'
    BY <1>8 DEF AdminSetsStatus, Registered, Exists, TypeOK, Published

(* Listings that are deleted, and the uploads attached to them and to others. *)
<1>9. ASSUME NEW D \in SUBSET Listing, NEW L \in SUBSET Listing, D \subseteq L,
             L \ D \subseteq GuestListing \cap moderated, moderated' = moderated, NEW l,
             Reregister({}, AttachedTo(L), l),
             images' = [k \in Listing |-> IF k \in D THEN {} ELSE images[k]],
             \A k \in Listing : ~Exists(k)' => k \in D \/ ~Exists(k),
             sweep'.ids \subseteq GuestListing
      PROVE  Registered'
    <2>1. /\ registry' = [u \in Upload |-> IF registry[u] = "ATTACHED" /\ listingId[u] \in L
                                           THEN "PENDING" ELSE registry[u]]
          /\ listingId' = [u \in Upload |-> IF registry[u] = "ATTACHED" /\ listingId[u] \in L
                                            THEN NoListing ELSE listingId[u]]
        BY <1>9 DEF Reregister, AttachedTo
    <2>2. \A u \in Upload : registry'[u] = "ATTACHED" =>
                    listingId'[u] \in Listing /\ u \in images'[listingId'[u]]
        BY <1>9, <2>1 DEF Registered
    <2>3. \A u \in Upload : registry'[u] # "ATTACHED" => listingId'[u] = NoListing
        BY <2>1 DEF Registered
    <2>4. \A k \in Listing \ (GuestListing \cap moderated'), u \in Upload :
                u \in images'[k] => registry'[u] = "ATTACHED" /\ listingId'[u] = k
        BY <1>9, <2>1 DEF Registered
    <2>5. \A k \in Listing : ~Exists(k)' => images'[k] = {}
        BY <1>9 DEF Registered
    <2> QED
        BY <1>9, <2>2, <2>3, <2>4, <2>5 DEF Registered
<1>10. ASSUME NEW l \in Listing, Remove(l) PROVE Registered'
    <2>1. images' = [k \in Listing |-> IF k \in {l} THEN {} ELSE images[k]]
        BY <1>10 DEF Remove, TypeOK
    <2>2. \A k \in Listing : ~Exists(k)' => k \in {l} \/ ~Exists(k)
        BY <1>10 DEF Remove, TypeOK, Exists
    <2>3. /\ Reregister({}, AttachedTo({l}), l) /\ moderated' = moderated
          /\ sweep'.ids \subseteq GuestListing
        BY <1>10 DEF Remove, Registered
    <2> QED
        BY <1>9, <2>1, <2>2, <2>3
<1>11. CASE DeleteExpiredGuests
    <2>1. PICK D \in SUBSET Listing, L \in SUBSET Listing : D = sweep.ids \cap Doomed /\ L = sweep.ids
        BY DEF TypeOK
    <2>2. /\ status' = [k \in Listing |-> IF k \in D THEN "DELETED" ELSE status[k]]
          /\ images' = [k \in Listing |-> IF k \in D THEN {} ELSE images[k]]
          /\ Reregister({}, AttachedTo(L), NoListing)
          /\ sweep'.ids = {} /\ moderated' = moderated
        BY <1>11, <2>1 DEF DeleteExpiredGuests
    <2>3. \A k \in Listing : ~Exists(k)' => k \in D \/ ~Exists(k)
        BY <2>2 DEF Exists
    <2>4. D \subseteq L /\ L \ D \subseteq GuestListing \cap moderated
        BY <2>1 DEF Registered, FoundOK, Doomed, Sweepable
    <2> QED
        BY <1>9, <2>2, <2>3, <2>4
<1>12. CASE ExpireRegular
    <2>1. \A k \in Listing : ~Exists(k)' => ~Exists(k)
        BY <1>12 DEF ExpireRegular, Exists
    <2>2. sweep'.ids = {} /\ UNCHANGED <<images, registry, listingId, moderated>>
        BY <1>12 DEF ExpireRegular
    <2> QED
        BY <2>1, <2>2 DEF Registered
<1>13. CASE FindExpired \/ StopSweep
    <2>1. sweep'.ids \subseteq GuestListing
        BY <1>13 DEF FindExpired, StopSweep, Doomed
    <2>2. UNCHANGED <<status, images, listingId, registry, moderated>>
        BY <1>13 DEF FindExpired, StopSweep
    <2> QED
        BY <2>1, <2>2, RegisteredRest
<1>14. CASE Cleaning
    <2>1. UNCHANGED <<status, images, listingId, sweep, moderated>>
        BY <1>14 DEF Cleaning, FindUnattached, MarkFails, StopCleaning, DeleteObject, SkipUpload,
           MarkDeleted
    <2>2. \A w \in Upload : registry'[w] = "ATTACHED" <=> registry[w] = "ATTACHED"
        BY <1>14 DEF Cleaning, FindUnattached, MarkFails, StopCleaning, DeleteObject, SkipUpload,
           MarkDeleted, TypeOK
    <2> QED
        BY <2>1, <2>2, RegisteredRest DEF Registered
<1>15. CASE UNCHANGED vars
    BY <1>15, RegisteredRest DEF vars, Registered
<1> QED
    BY <1>1, <1>2, <1>3, <1>4, <1>5, <1>6, <1>7, <1>8, <1>10, <1>11, <1>12, <1>13, <1>14, <1>15
    DEF Next, Uploading, Editing, Managing, Sweeping, Storing, Beginning

-----------------------------------------------------------------------------
(* The objects behind the registry: a row appears when the storing of its object is over, and       *)
(* rows found by the cleanup never disappear.                                                      *)
LEMMA StoredRest ==
    ASSUME Stored, UNCHANGED <<object, storing, queue, gone>>,
           \A u \in Upload : /\ registry[u] = "ABSENT" <=> registry'[u] = "ABSENT"
                             /\ registry[u] = "DELETED" <=> registry'[u] = "DELETED",
           queue \subseteq Upload, gone \subseteq Upload
    PROVE  Stored'
BY DEF Stored, DeletedMeansGone

LEMMA ReregisterStored ==
    ASSUME TypeOK, NEW attach \in SUBSET Upload, NEW L \in SUBSET Listing,
           NEW release \in SUBSET AttachedTo(L), NEW l,
           \A u \in attach : registry[u] = "PENDING",
           Reregister(attach, release, l)
    PROVE  \A u \in Upload : /\ registry[u] = "ABSENT" <=> registry'[u] = "ABSENT"
                             /\ registry[u] = "DELETED" <=> registry'[u] = "DELETED"
BY DEF Reregister, AttachedTo, TypeOK

LEMMA StoredStep ==
    ASSUME TypeOK, Stored, [Next]_vars PROVE Stored'
<1> USE DEF listingRows, uploadRows, cleaner
<1>1. ASSUME NEW u \in Upload, Storing(u) PROVE Stored'
    <2>1. CASE StoreObject(u)
        BY <2>1 DEF StoreObject, Stored, DeletedMeansGone, TypeOK
    <2>2. CASE RegisterUpload(u)
        BY <2>2 DEF RegisterUpload, Stored, DeletedMeansGone, TypeOK
    <2>3. CASE RegisterFails(u)
        BY <2>3 DEF RegisterFails, Stored, DeletedMeansGone, TypeOK
    <2>4. CASE RemoveUnregistered(u)
        BY <2>4 DEF RemoveUnregistered, Stored, DeletedMeansGone, TypeOK
    <2> QED
        BY <1>1, <2>1, <2>2, <2>3, <2>4 DEF Storing
<1>2. ASSUME UNCHANGED <<registry, object, storing, queue, gone>> PROVE Stored'
    BY <1>2 DEF Stored, DeletedMeansGone
<1>3. ASSUME NEW c \in Call, NEW l \in Listing, CommitCreate(c, l) PROVE Stored'
    <2>1. PICK q \in Creating : q = call[c]
        BY <1>3, CallTyped DEF CommitCreate
    <2>2. q.images \in SUBSET Upload /\ {} \in SUBSET AttachedTo({})
        BY DEF Creating
    <2>3. /\ Reregister(q.images, {}, l) /\ \A u \in q.images : registry[u] = "PENDING"
          /\ UNCHANGED <<object, storing, queue, gone>>
        BY <1>3, <2>1 DEF CommitCreate, Unattached
    <2> QED
        BY <2>2, <2>3, ReregisterStored, StoredRest DEF TypeOK
<1>4. ASSUME NEW c \in Call, CommitUpdate(c) PROVE Stored'
    <2>1. PICK q \in Updating : q = call[c]
        BY <1>4, CallTyped DEF CommitUpdate
    <2>2. PICK A, R : A = q.images \ q.seen /\ R = (q.seen \ q.images) \cap AttachedTo({q.listing})
        OBVIOUS
    <2>3. A \in SUBSET Upload /\ R \in SUBSET AttachedTo({q.listing}) /\ {q.listing} \in SUBSET Listing
        BY <2>2 DEF Updating
    <2>4. /\ Reregister(A, R, q.listing) /\ \A u \in A : registry[u] = "PENDING"
          /\ UNCHANGED <<object, storing, queue, gone>>
        BY <1>4, <2>1, <2>2 DEF CommitUpdate, Unattached
    <2> QED
        BY <2>3, <2>4, ReregisterStored, StoredRest DEF TypeOK
<1>5. ASSUME NEW l \in Listing, Remove(l) PROVE Stored'
    <2>1. /\ Reregister({}, AttachedTo({l}), l) /\ UNCHANGED <<object, storing, queue, gone>>
          /\ {} \in SUBSET Upload /\ {l} \in SUBSET Listing
        BY <1>5 DEF Remove
    <2> QED
        BY <2>1, ReregisterStored, StoredRest DEF TypeOK
<1>6. CASE DeleteExpiredGuests
    <2>1. PICK L \in SUBSET Listing : L = sweep.ids
        BY DEF TypeOK
    <2>2. /\ Reregister({}, AttachedTo(L), NoListing) /\ UNCHANGED <<object, storing, queue, gone>>
          /\ {} \in SUBSET Upload
        BY <1>6, <2>1 DEF DeleteExpiredGuests
    <2> QED
        BY <2>2, ReregisterStored, StoredRest DEF TypeOK
<1>7. CASE Cleaning
    <2>1. CASE FindUnattached
        BY <2>1 DEF FindUnattached, Stored, DeletedMeansGone
    <2>2. CASE MarkFails \/ StopCleaning
        BY <2>2 DEF MarkFails, StopCleaning, Stored, DeletedMeansGone
    <2>3. ASSUME NEW u \in Upload, DeleteObject(u) PROVE Stored'
        BY <2>3 DEF DeleteObject, Stored, DeletedMeansGone, TypeOK
    <2>4. ASSUME NEW u \in Upload, SkipUpload(u) PROVE Stored'
        BY <2>4 DEF SkipUpload, Stored, DeletedMeansGone, TypeOK
    <2>5. ASSUME NEW u \in Upload, MarkDeleted(u) PROVE Stored'
        BY <2>5 DEF MarkDeleted, Stored, DeletedMeansGone, TypeOK
    <2> QED
        BY <1>7, <2>1, <2>2, <2>3, <2>4, <2>5 DEF Cleaning
<1>8. ASSUME NEW c \in Call, Beginning(c) \/ EndCall(c) \/ CommitGuestStatus(c)
      PROVE  UNCHANGED <<registry, object, storing, queue, gone>>
    BY <1>8 DEF Beginning, BeginCreate, BeginUpdate, BeginGuestStatus, EndCall, CommitGuestStatus
<1>9. ASSUME NEW l \in Listing,
             ListingExpires(l) \/ UpdateGuestContact(l) \/ \E st \in Published : AdminSetsStatus(l, st)
      PROVE  UNCHANGED <<registry, object, storing, queue, gone>>
    BY <1>9 DEF ListingExpires, UpdateGuestContact, AdminSetsStatus
<1>10. ASSUME FindExpired \/ ExpireRegular \/ StopSweep \/ \E u \in Upload : UploadAges(u)
       PROVE  UNCHANGED <<registry, object, storing, queue, gone>>
    BY <1>10 DEF FindExpired, ExpireRegular, StopSweep, UploadAges
<1>11. CASE UNCHANGED vars
    BY <1>2, <1>11 DEF vars
<1> QED
    BY <1>1, <1>2, <1>3, <1>4, <1>5, <1>6, <1>7, <1>8, <1>9, <1>10, <1>11
    DEF Next, Uploading, Editing, Managing, Sweeping, Storing, Beginning

-----------------------------------------------------------------------------
(* Creation requests. *)
LEMMA RequestStep ==
    ASSUME TypeOK, OneListingPerRequest, \A c \in Call : CallOK(c), [Next]_vars
    PROVE  OneListingPerRequest'
<1> USE DEF listingRows, uploadRows, cleaner
<1>1. ASSUME request' = request, \A l \in Listing : Exists(l)' => Exists(l)
      PROVE  OneListingPerRequest'
    BY <1>1 DEF OneListingPerRequest
<1>2. ASSUME NEW c \in Call, NEW l \in Listing, CommitCreate(c, l) PROVE OneListingPerRequest'
    <2>1. PICK r : r = call[c].request
        OBVIOUS
    <2>2. /\ \A k \in Listing : Exists(k) => request[k] # r
          /\ status' = [status EXCEPT ![l] = "ACTIVE"] /\ request' = [request EXCEPT ![l] = r]
        BY <1>2, <2>1 DEF CommitCreate
    <2> QED
        BY <2>2 DEF OneListingPerRequest, Exists, TypeOK
<1>3. ASSUME NEW c \in Call, CommitUpdate(c) PROVE OneListingPerRequest'
    <2>1. PICK q \in Updating : q = call[c]
        BY <1>3, CallTyped DEF CommitUpdate
    <2>2. q.listing \in Listing /\ Exists(q.listing)
        BY <2>1 DEF CallOK, Updating
    <2>3. status' = [status EXCEPT ![q.listing] = Wanted(q)] /\ request' = request
        BY <1>3, <2>1 DEF CommitUpdate, WriteListing
    <2> QED
        BY <1>1, <2>2, <2>3 DEF Exists, TypeOK
<1>4. ASSUME NEW c \in Call, CommitGuestStatus(c) PROVE OneListingPerRequest'
    <2>1. PICK q \in GuestUpdating : q = call[c]
        BY <1>4, CallTyped DEF CommitGuestStatus
    <2>2. q.listing \in Listing /\ Exists(q.listing)
        BY <2>1 DEF CallOK, GuestUpdating
    <2>3. status' = [status EXCEPT ![q.listing] = q.status] /\ request' = request
        BY <1>4, <2>1 DEF CommitGuestStatus
    <2> QED
        BY <1>1, <2>2, <2>3 DEF Exists, TypeOK
<1>5. ASSUME NEW l \in Listing, Remove(l) \/ \E st \in Published : AdminSetsStatus(l, st)
      PROVE  OneListingPerRequest'
    BY <1>1, <1>5 DEF Remove, AdminSetsStatus, Exists, TypeOK
<1>6. CASE DeleteExpiredGuests
    <2>1. \A l \in Listing : l \in sweep.ids \cap Doomed => Exists(l)
        BY DEF Doomed, Exists
    <2> QED
        BY <1>1, <1>6, <2>1 DEF DeleteExpiredGuests, Exists
<1>7. CASE ExpireRegular
    BY <1>1, <1>7 DEF ExpireRegular, Exists
<1>8. ASSUME NEW l \in Listing, ListingExpires(l) \/ UpdateGuestContact(l)
      PROVE  UNCHANGED <<status, request>>
    BY <1>8 DEF ListingExpires, UpdateGuestContact
<1>9. ASSUME NEW c \in Call, Beginning(c) \/ EndCall(c)
      PROVE  UNCHANGED <<status, request>>
    BY <1>9 DEF Beginning, BeginCreate, BeginUpdate, BeginGuestStatus, EndCall
<1>10. ASSUME Uploading \/ FindExpired \/ StopSweep \/ Cleaning PROVE UNCHANGED <<status, request>>
    BY <1>10 DEF Uploading, StoreObject, RegisterUpload, RegisterFails, RemoveUnregistered,
       UploadAges, FindExpired, StopSweep, Cleaning, FindUnattached, MarkFails, StopCleaning,
       DeleteObject, SkipUpload, MarkDeleted
<1>11. CASE UNCHANGED vars
    BY <1>1, <1>11 DEF vars, Exists
<1>12. ASSUME UNCHANGED <<status, request>> PROVE OneListingPerRequest'
    BY <1>1, <1>12 DEF Exists
<1> QED
    BY <1>2, <1>3, <1>4, <1>5, <1>6, <1>7, <1>8, <1>9, <1>10, <1>11, <1>12
    DEF Next, Editing, Managing, Sweeping, Beginning

-----------------------------------------------------------------------------
LEMMA InitIInv == Init => IInv
<1> SUFFICES ASSUME Init PROVE IInv
    OBVIOUS
<1>1. TypeOK
    <2>1. (CHOOSE r \in Request : TRUE) \in Request
        BY ListingAssumption
    <2>2. 1 \in Versions
        BY ListingAssumption DEF Versions
    <2> QED
        BY <2>1, <2>2 DEF Init, TypeOK, Published
<1>2. Registered
    BY DEF Init, Registered
<1>3. Stored
    BY DEF Init, Stored, DeletedMeansGone
<1>4. \A c \in Call : CallOK(c)
    BY DEF Init, CallOK, Idle
<1>5. OneListingPerRequest
    BY DEF Init, OneListingPerRequest, Exists
<1>6. \A l \in sweep.ids : FoundOK(l)
    BY DEF Init
<1> QED
    BY <1>1, <1>2, <1>3, <1>4, <1>5, <1>6 DEF IInv

LEMMA NextIInv == IInv /\ [Next]_vars => IInv'
<1> SUFFICES ASSUME IInv, [Next]_vars PROVE IInv'
    OBVIOUS
<1>1. /\ TypeOK /\ Registered /\ Stored /\ OneListingPerRequest
      /\ (\A c \in Call : CallOK(c)) /\ \A l \in sweep.ids : FoundOK(l)
    BY DEF IInv
<1>2. TypeOK'
    BY <1>1, TypeStep
<1>3. Registered'
    BY <1>1, RegisteredStep
<1>4. Stored'
    BY <1>1, StoredStep
<1>5. \A c \in Call : CallOK(c)'
    BY <1>1, CallStep
<1>6. OneListingPerRequest'
    BY <1>1, RequestStep
<1>7. (\A l \in sweep.ids : FoundOK(l))'
    BY <1>1, FoundStep
<1> QED
    BY <1>2, <1>3, <1>4, <1>5, <1>6, <1>7 DEF IInv

(* The invariant holds in every reachable state, whatever calls, jobs and failures interleave. *)
THEOREM ListingsInvariant == Spec => []IInv
BY InitIInv, NextIInv, PTL DEF Spec

(* The variables keep their types. *)
THEOREM TypeCorrect == Spec => []TypeOK
<1>1. IInv => TypeOK
    BY DEF IInv
<1> QED
    BY <1>1, ListingsInvariant, PTL

(* An attached upload is among its listing's images, for guests' listings and owners'. *)
THEOREM Attached == Spec => []AttachedIsListed
<1>1. IInv => AttachedIsListed
    BY DEF IInv, Registered, AttachedIsListed
<1> QED
    BY <1>1, ListingsInvariant, PTL

(* The images of a listing are exactly the uploads attached to it, whatever edits of one version     *)
(* are concurrent and whatever the sweep had found, but for a guest's an administrator dealt with.   *)
THEOREM Registry == Spec => []RegistryIsExact
<1>1. IInv => RegistryIsExact
    BY ListingAssumption DEF IInv, Registered, RegistryIsExact, AttachedTo
<1> QED
    BY <1>1, ListingsInvariant, PTL

(* A row that says DELETED has no object. *)
THEOREM Deleted == Spec => []DeletedMeansGone
<1>1. IInv => DeletedMeansGone
    BY DEF IInv, Stored
<1> QED
    BY <1>1, ListingsInvariant, PTL

(* However many calls retry one creation request, one listing comes of it. *)
THEOREM OnePerRequest == Spec => []OneListingPerRequest
<1>1. IInv => OneListingPerRequest
    BY DEF IInv
<1> QED
    BY <1>1, ListingsInvariant, PTL

-----------------------------------------------------------------------------
(* A status written by a call comes from the status it read, which the version guards. *)
LEMMA TableStep ==
    ASSUME IInv, [Next]_vars, NEW l \in Listing, l \notin moderated', Exists(l)
    PROVE  \/ MayBecome(status[l], status'[l])
           \/ status'[l] = "DELETED"
           \/ status[l] = "ACTIVE" /\ status'[l] = "EXPIRED"
<1> USE DEF listingRows, uploadRows, cleaner
<1>1. TypeOK /\ \A c \in Call : CallOK(c)
    BY DEF IInv
<1>2. ASSUME status' = status PROVE MayBecome(status[l], status'[l])
    BY <1>2 DEF MayBecome
<1>3. ASSUME NEW c \in Call, NEW k \in Listing, CommitCreate(c, k)
      PROVE  MayBecome(status[l], status'[l])
    BY <1>1, <1>3 DEF CommitCreate, MayBecome, Exists, TypeOK
<1>4. ASSUME NEW c \in Call, CommitUpdate(c) PROVE MayBecome(status[l], status'[l])
    <2>1. PICK q \in Updating : q = call[c]
        BY <1>1, <1>4, CallTyped DEF CommitUpdate
    <2>2. /\ status' = [status EXCEPT ![q.listing] = Wanted(q)]
          /\ version[q.listing] = q.version /\ moderated' = moderated
        BY <1>4, <2>1 DEF CommitUpdate, WriteListing
    <2>3. UpToDate(q)
        BY <1>1, <2>1 DEF CallOK, Updating
    <2>4. l = q.listing => MayBecome(status[l], q.status)
        BY <2>2, <2>3 DEF UpToDate
    <2> QED
        BY <1>1, <2>2, <2>4 DEF Wanted, MayBecome, TypeOK
<1>5. ASSUME NEW c \in Call, CommitGuestStatus(c) PROVE MayBecome(status[l], status'[l])
    <2>1. PICK q \in GuestUpdating : q = call[c]
        BY <1>1, <1>5, CallTyped DEF CommitGuestStatus
    <2>2. /\ status' = [status EXCEPT ![q.listing] = q.status]
          /\ version[q.listing] = q.version /\ moderated' = moderated
        BY <1>5, <2>1 DEF CommitGuestStatus
    <2>3. UpToDate(q)
        BY <1>1, <2>1 DEF CallOK, GuestUpdating
    <2> QED
        BY <1>1, <2>2, <2>3 DEF UpToDate, MayBecome, TypeOK
<1>6. ASSUME NEW k \in Listing, Remove(k)
      PROVE  MayBecome(status[l], status'[l]) \/ status'[l] = "DELETED"
    BY <1>1, <1>6 DEF Remove, MayBecome, TypeOK
<1>7. ASSUME NEW k \in Listing, NEW st \in Published, AdminSetsStatus(k, st)
      PROVE  MayBecome(status[l], status'[l])
    BY <1>1, <1>7 DEF AdminSetsStatus, MayBecome, TypeOK
<1>8. ASSUME DeleteExpiredGuests PROVE MayBecome(status[l], status'[l]) \/ status'[l] = "DELETED"
    BY <1>8 DEF DeleteExpiredGuests, MayBecome
<1>9. ASSUME ExpireRegular
      PROVE  \/ MayBecome(status[l], status'[l])
             \/ status[l] = "ACTIVE" /\ status'[l] = "EXPIRED"
    BY <1>9 DEF ExpireRegular, MayBecome
<1>10. ASSUME NEW k \in Listing, ListingExpires(k) \/ UpdateGuestContact(k) PROVE status' = status
    BY <1>10 DEF ListingExpires, UpdateGuestContact
<1>11. ASSUME NEW c \in Call, Beginning(c) \/ EndCall(c) PROVE status' = status
    BY <1>11 DEF Beginning, BeginCreate, BeginUpdate, BeginGuestStatus, EndCall
<1>12. ASSUME Uploading \/ FindExpired \/ StopSweep \/ Cleaning PROVE status' = status
    BY <1>12 DEF Uploading, StoreObject, RegisterUpload, RegisterFails, RemoveUnregistered,
       UploadAges, FindExpired, StopSweep, Cleaning, FindUnattached, MarkFails, StopCleaning,
       DeleteObject, SkipUpload, MarkDeleted
<1>13. ASSUME UNCHANGED vars PROVE status' = status
    BY <1>13 DEF vars
<1> QED
    BY <1>2, <1>3, <1>4, <1>5, <1>6, <1>7, <1>8, <1>9, <1>10, <1>11, <1>12, <1>13
    DEF Next, Editing, Managing, Sweeping, Beginning

(* Statuses follow assertStatusTransition's table, although it is consulted for a status read        *)
(* earlier.                                                                                         *)
THEOREM Table == Spec => StatusFollowsTable
<1>1. IInv /\ [Next]_vars =>
        [\A l \in Listing \ moderated' :
            Exists(l) => \/ MayBecome(status[l], status'[l])
                         \/ status'[l] = "DELETED"
                         \/ status[l] = "ACTIVE" /\ status'[l] = "EXPIRED"]_vars
    BY TableStep
<1> QED
    BY <1>1, ListingsInvariant, PTL DEF Spec, StatusFollowsTable

(* An upload is released from under a guest's listing that goes on naming it only by the sweep, and     *)
(* only where an administrator took the listing out after the sweep had found it: FoundOK carries     *)
(* what was read to the transaction, through every edit of the guest's.                              *)
THEOREM Released == Spec => ReleasedWhenTakenOut
<1>1. ASSUME IInv, [Next]_vars, NEW l \in GuestListing, NEW u \in Upload,
             u \in AttachedTo({l}), u \in images'[l], u \notin AttachedTo({l})'
      PROVE  TakenOut(l)
    <2>1. l \in Listing /\ TypeOK /\ sweep.ids \subseteq GuestListing
        BY <1>1, ListingAssumption DEF IInv, Registered
    <2>2. registry[u] = "ATTACHED" /\ listingId[u] = l
        BY <1>1 DEF AttachedTo
    <2>3. registry'[u] # "ATTACHED" \/ listingId'[u] # l
        BY <1>1 DEF AttachedTo
    <2>4. CASE DeleteExpiredGuests
        <3>1. u \in AttachedTo(sweep.ids)
            BY <2>2, <2>3, <2>4 DEF DeleteExpiredGuests, Reregister
        <3>2. l \in sweep.ids
            BY <2>2, <3>1 DEF AttachedTo
        <3>3. l \notin Doomed
            BY <1>1, <2>1, <2>4, <3>2 DEF DeleteExpiredGuests
        <3>4. expired[l] /\ l \in moderated
            BY <1>1, <3>2, <3>3 DEF IInv, FoundOK, Sweepable, Doomed
        <3>5. status[l] \in Published
            BY <1>1, <2>1, <2>2 DEF IInv, Registered, Exists, TypeOK
        <3> QED
            BY <1>1, <3>3, <3>4, <3>5 DEF TakenOut, Doomed, Published
    <2>5. ASSUME NEW c \in Call, CommitUpdate(c) PROVE FALSE
        <3>1. PICK q \in Updating : q = call[c]
            BY <2>1, <2>5, CallTyped DEF CommitUpdate
        <3>2. q.listing # l
            BY <1>1, <2>5, <3>1 DEF IInv, CallOK, CommitUpdate
        <3>3. /\ Unattached(q.images \ q.seen)
              /\ Reregister(q.images \ q.seen,
                            (q.seen \ q.images) \cap AttachedTo({q.listing}), q.listing)
            BY <2>5, <3>1 DEF CommitUpdate
        <3>4. u \notin q.images \ q.seen
            BY <2>2, <3>3 DEF Unattached
        <3> QED
            BY <2>2, <2>3, <3>2, <3>3, <3>4 DEF Reregister, AttachedTo
    <2>6. ASSUME NEW c \in Call, NEW k \in Listing, CommitCreate(c, k) PROVE FALSE
        BY <2>2, <2>3, <2>6 DEF CommitCreate, Reregister, Unattached
    <2>7. ASSUME NEW k \in Listing, Remove(k) PROVE FALSE
        BY <1>1, <2>2, <2>3, <2>7 DEF Remove, Reregister, AttachedTo
    <2>8. ASSUME NEW w \in Upload, RegisterUpload(w) \/ MarkDeleted(w) PROVE FALSE
        BY <1>1, <2>1, <2>2, <2>3, <2>8 DEF RegisterUpload, MarkDeleted, IInv, Stored, TypeOK
    <2>9. ASSUME UNCHANGED <<registry, listingId>> PROVE FALSE
        BY <2>2, <2>3, <2>9
    <2>10. ASSUME NEW c \in Call, Beginning(c) \/ CommitGuestStatus(c) \/ EndCall(c)
           PROVE  UNCHANGED <<registry, listingId>>
        BY <2>10 DEF Beginning, BeginCreate, BeginUpdate, BeginGuestStatus, CommitGuestStatus,
           EndCall, uploadRows
    <2>11. ASSUME NEW k \in Listing, ListingExpires(k) \/ UpdateGuestContact(k)
                                      \/ \E st \in Published : AdminSetsStatus(k, st)
           PROVE  UNCHANGED <<registry, listingId>>
        BY <2>11 DEF ListingExpires, UpdateGuestContact, AdminSetsStatus, uploadRows
    <2>12. ASSUME FindExpired \/ ExpireRegular \/ StopSweep \/ FindUnattached \/ MarkFails
                  \/ StopCleaning \/ UNCHANGED vars
           PROVE  UNCHANGED <<registry, listingId>>
        BY <2>12 DEF FindExpired, ExpireRegular, StopSweep, FindUnattached, MarkFails,
           StopCleaning, uploadRows, vars
    <2>13. ASSUME NEW w \in Upload,
                  StoreObject(w) \/ RegisterFails(w) \/ RemoveUnregistered(w) \/ UploadAges(w)
                  \/ DeleteObject(w) \/ SkipUpload(w)
           PROVE  UNCHANGED <<registry, listingId>>
        BY <2>13 DEF StoreObject, RegisterFails, RemoveUnregistered, UploadAges, DeleteObject,
           SkipUpload, uploadRows
    <2> QED
        BY <1>1, <2>4, <2>5, <2>6, <2>7, <2>8, <2>9, <2>10, <2>11, <2>12, <2>13
        DEF Next, Uploading, Editing, Managing, Sweeping, Cleaning, Beginning
<1>2. IInv /\ [Next]_vars =>
        [\A l \in GuestListing, u \in Upload :
            u \in AttachedTo({l}) \cap images'[l] /\ u \notin AttachedTo({l})' => TakenOut(l)]_vars
    BY <1>1
<1> QED
    BY <1>2, ListingsInvariant, PTL DEF Spec, ReleasedWhenTakenOut

-----------------------------------------------------------------------------
(* The first day of an upload.  An object is missing only behind a row the cleanup has read as a    *)
(* day old, or behind no row at all.                                                               *)
Kept ==
    /\ \A u \in Upload : storing[u] = "stored" => object[u]
    /\ \A u \in Upload : registry[u] # "ABSENT" /\ ~aged[u] => object[u]
    /\ \A u \in queue \cup gone : aged[u]
    /\ \A l \in Listing : \A u \in images[l] : registry[u] # "ABSENT"

(* A step that leaves objects, ages and the cleanup alone, and shows only uploads that have a row. *)
LEMMA KeptRest ==
    ASSUME TypeOK, Kept, UNCHANGED <<object, aged, storing, cleaner>>,
           \A u \in Upload : registry[u] = "ABSENT" <=> registry'[u] = "ABSENT",
           \A l \in Listing : \A u \in images'[l] : u \in images[l] \/ registry[u] # "ABSENT",
           images' \in [Listing -> SUBSET Upload]
    PROVE  Kept'
BY DEF Kept, cleaner, TypeOK

LEMMA KeptStep ==
    ASSUME TypeOK, TypeOK', Stored, \A c \in Call : CallOK(c), Kept, [Next]_vars
    PROVE  Kept'
<1> USE DEF listingRows, uploadRows, cleaner
<1>1. ASSUME NEW u \in Upload, Storing(u) PROVE Kept'
    <2>1. CASE StoreObject(u)
        BY <2>1 DEF StoreObject, Kept, Stored, TypeOK
    <2>2. CASE RegisterUpload(u)
        BY <2>2 DEF RegisterUpload, Kept, TypeOK
    <2>3. CASE RegisterFails(u)
        BY <2>3 DEF RegisterFails, Kept, TypeOK
    <2>4. CASE RemoveUnregistered(u)
        BY <2>4 DEF RemoveUnregistered, Kept, Stored, TypeOK
    <2> QED
        BY <1>1, <2>1, <2>2, <2>3, <2>4 DEF Storing
<1>2. ASSUME NEW u \in Upload, UploadAges(u) PROVE Kept'
    BY <1>2 DEF UploadAges, Kept, TypeOK
<1>3. ASSUME NEW c \in Call, NEW l \in Listing, CommitCreate(c, l) PROVE Kept'
    <2>1. PICK S \in SUBSET Upload : S = call[c].images
        BY <1>3, CallTyped DEF CommitCreate, Creating
    <2>2. /\ \A u \in S : registry[u] = "PENDING"
          /\ images' = [images EXCEPT ![l] = S]
          /\ registry' = [u \in Upload |-> IF u \in S THEN "ATTACHED" ELSE registry[u]]
          /\ UNCHANGED <<object, aged, storing, cleaner>>
        BY <1>3, <2>1 DEF CommitCreate, Reregister, Unattached
    <2>3. \A k \in Listing : \A u \in images'[k] : u \in images[k] \/ registry[u] # "ABSENT"
        BY <2>2 DEF TypeOK
    <2>4. \A u \in Upload : registry[u] = "ABSENT" <=> registry'[u] = "ABSENT"
        BY <2>2
    <2> QED
        BY <2>2, <2>3, <2>4, KeptRest DEF TypeOK
<1>4. ASSUME NEW c \in Call, CommitUpdate(c) PROVE Kept'
    <2>1. PICK q \in Updating : q = call[c]
        BY <1>4, CallTyped DEF CommitUpdate
    <2>2. PICK l \in Listing, S \in SUBSET Upload : l = q.listing /\ S = q.images
        BY DEF Updating
    <2>3. q.seen = images[l]
        BY <1>4, <2>1, <2>2 DEF CommitUpdate, CallOK, UpToDate, Updating
    <2>4. /\ images' = [images EXCEPT ![l] = S]
          /\ \A u \in S \ images[l] : registry[u] = "PENDING"
          /\ UNCHANGED <<object, aged, storing, cleaner>>
        BY <1>4, <2>1, <2>2, <2>3 DEF CommitUpdate, WriteListing, Unattached, Reregister
    <2>5. registry' = [u \in Upload |-> IF u \in S \ images[l] THEN "ATTACHED"
                            ELSE IF u \in (images[l] \ S) \cap AttachedTo({l}) THEN "PENDING"
                            ELSE registry[u]]
        BY <1>4, <2>1, <2>2, <2>3 DEF CommitUpdate, Reregister
    <2>6. \A u \in Upload : registry[u] = "ABSENT" <=> registry'[u] = "ABSENT"
        BY <2>4, <2>5 DEF AttachedTo
    <2>7. \A k \in Listing : \A u \in images'[k] : u \in images[k] \/ registry[u] # "ABSENT"
        BY <2>4 DEF TypeOK
    <2> QED
        BY <2>4, <2>6, <2>7, KeptRest DEF TypeOK
<1>5. ASSUME NEW L, NEW l, Reregister({}, AttachedTo(L), l),
             UNCHANGED <<object, storing, cleaner>>,
             \A k \in Listing : images'[k] \subseteq images[k]
      PROVE  Kept'
    <2>1. \A u \in Upload : registry[u] = "ABSENT" <=> registry'[u] = "ABSENT"
        BY <1>5 DEF Reregister, AttachedTo
    <2>2. aged' = aged
        BY <1>5 DEF Reregister
    <2> QED
        BY <1>5, <2>1, <2>2, KeptRest DEF TypeOK
<1>6. ASSUME NEW l \in Listing, Remove(l) PROVE Kept'
    <2>1. \A k \in Listing : images'[k] \subseteq images[k]
        BY <1>6 DEF Remove, TypeOK
    <2> QED
        BY <1>5, <1>6, <2>1 DEF Remove
<1>7. CASE DeleteExpiredGuests
    <2>1. \A k \in Listing : images'[k] \subseteq images[k]
        BY <1>7 DEF DeleteExpiredGuests
    <2> QED
        BY <1>5, <1>7, <2>1 DEF DeleteExpiredGuests
<1>8. CASE FindUnattached
    BY <1>8 DEF FindUnattached, Kept
<1>9. CASE MarkFails \/ StopCleaning
    BY <1>9 DEF MarkFails, StopCleaning, Kept
<1>10. ASSUME NEW u \in Upload, DeleteObject(u) PROVE Kept'
    <2>1. aged[u] /\ storing[u] # "stored"
        BY <1>10 DEF DeleteObject, Kept, Stored
    <2> QED
        BY <1>10, <2>1 DEF DeleteObject, Kept, TypeOK
<1>11. ASSUME NEW u \in Upload, SkipUpload(u) PROVE Kept'
    BY <1>11 DEF SkipUpload, Kept
<1>12. ASSUME NEW u \in Upload, MarkDeleted(u) PROVE Kept'
    BY <1>12 DEF MarkDeleted, Kept, TypeOK
<1>13. ASSUME NEW c \in Call, Beginning(c) \/ EndCall(c) \/ CommitGuestStatus(c)
       PROVE  UNCHANGED <<registry, images, object, aged, storing, cleaner>>
    BY <1>13 DEF Beginning, BeginCreate, BeginUpdate, BeginGuestStatus, EndCall, CommitGuestStatus
<1>14. ASSUME NEW l \in Listing,
              ListingExpires(l) \/ UpdateGuestContact(l) \/ \E st \in Published : AdminSetsStatus(l, st)
       PROVE  UNCHANGED <<registry, images, object, aged, storing, cleaner>>
    BY <1>14 DEF ListingExpires, UpdateGuestContact, AdminSetsStatus
<1>15. ASSUME FindExpired \/ ExpireRegular \/ StopSweep \/ UNCHANGED vars
       PROVE  UNCHANGED <<registry, images, object, aged, storing, cleaner>>
    BY <1>15 DEF FindExpired, ExpireRegular, StopSweep, vars
<1>16. ASSUME UNCHANGED <<registry, images, object, aged, storing, cleaner>> PROVE Kept'
    BY <1>16 DEF Kept
<1> QED
    BY <1>1, <1>2, <1>3, <1>4, <1>6, <1>7, <1>8, <1>9, <1>10, <1>11, <1>12, <1>13, <1>14, <1>15, <1>16
    DEF Next, Uploading, Editing, Managing, Sweeping, Cleaning, Storing, Beginning

(* An image less than a day old has its object, whenever its listing took it up and whatever the     *)
(* cleanup had found: what the cleanup may take from under a listing was uploaded a day before.      *)
THEOREM YoungImages == Spec => []YoungImagesExist
<1>1. Init => Kept
    BY DEF Init, Kept
<1>2. IInv /\ IInv' /\ Kept /\ [Next]_vars => Kept'
    BY KeptStep DEF IInv
<1>3. IInv /\ Kept => YoungImagesExist
    BY DEF IInv, TypeOK, Kept, YoungImagesExist
<1> QED
    BY <1>1, <1>2, <1>3, ListingsInvariant, PTL DEF Spec

-----------------------------------------------------------------------------
(* The refinement of Catalogue.  One more fact of what is in progress: an edit whose version is      *)
(* current is not of a completed listing, unless an administrator has stepped in.                    *)
OpenOK(c) ==
    /\ call[c].op = "guest" => call[c].listing \in GuestListing
    /\ call[c].op = "update" /\ call[c].version = version[call[c].listing] =>
          status[call[c].listing] # "COMPLETED" \/ call[c].listing \in moderated

LEMMA OpenStep ==
    ASSUME IInv, NEW c \in Call, OpenOK(c), [Next]_vars
    PROVE  OpenOK(c)'
<1> USE DEF listingRows
<1>1. TypeOK /\ (\A d \in Call : CallOK(d)) /\ TypeOK'
    BY TypeStep DEF IInv
<1>2. ASSUME call'[c] = call[c] PROVE OpenOK(c)'
    <2> SUFFICES ASSUME call[c].op = "update", call[c].version = version'[call[c].listing]
                 PROVE  status'[call[c].listing] # "COMPLETED" \/ call[c].listing \in moderated'
        BY <1>2 DEF OpenOK
    <2>1. PICK q \in Updating : q = call[c]
        BY <1>1, CallTyped
    <2>2. q.listing \in Listing /\ q.version \in Nat
        BY ListingAssumption DEF Updating, Versions
    <2>3. Exists(q.listing) /\ q.version <= version[q.listing]
        BY <1>1, <2>1 DEF CallOK
    <2>4. Versioned(q.listing) /\ moderated \subseteq moderated'
        BY <1>1, <2>2, <2>3, VersionedStep
    <2>5. version[q.listing] \in Nat /\ version'[q.listing] \in Nat
        BY <1>1, <2>2, ListingAssumption DEF TypeOK, Versions
    <2>6. q.version = version[q.listing] /\ version'[q.listing] = version[q.listing]
        BY <2>1, <2>2, <2>3, <2>4, <2>5 DEF Versioned
    <2> QED
        BY <2>1, <2>4, <2>6 DEF OpenOK, Versioned
<1>3. ASSUME call'[c].op \notin {"update", "guest"} PROVE OpenOK(c)'
    BY <1>3 DEF OpenOK
<1>4. ASSUME NEW d \in Call, End(d) PROVE OpenOK(c)'
    <2>1. call'[c] = call[c] \/ call'[c] = Idle
        BY <1>1, <1>4 DEF End, TypeOK
    <2> QED
        BY <1>2, <1>3, <2>1 DEF Idle
<1>5. ASSUME NEW d \in Call, Beginning(d) PROVE OpenOK(c)'
    <2>1. ASSUME d # c PROVE call'[c] = call[c]
        BY <1>1, <1>5, <2>1 DEF Beginning, BeginCreate, BeginUpdate, BeginGuestStatus, Begin, TypeOK
    <2>2. ASSUME NEW r \in Request, NEW S \in SUBSET Upload, BeginCreate(c, r, S) PROVE OpenOK(c)'
        BY <1>1, <1>3, <2>2 DEF BeginCreate, Begin, TypeOK
    <2>3. ASSUME NEW l \in Listing, NEW st \in NewStatus \ {"KEEP"}, BeginGuestStatus(c, l, st)
          PROVE  OpenOK(c)'
        <3>1. call'[c] = [op |-> "guest", listing |-> l, version |-> version[l], status |-> st]
            BY <1>1, <2>3 DEF BeginGuestStatus, Begin, TypeOK
        <3>2. call'[c].op = "guest" /\ call'[c].listing \in GuestListing
            BY <2>3, <3>1 DEF BeginGuestStatus
        <3> QED
            BY <3>2 DEF OpenOK
    <2>4. ASSUME NEW l \in Listing, NEW S \in SUBSET Upload, NEW st \in NewStatus,
                 BeginUpdate(c, l, S, st)
          PROVE  OpenOK(c)'
        <3>1. call'[c].listing = l /\ call'[c].op = "update"
            BY <1>1, <2>4 DEF BeginUpdate, Begin, TypeOK
        <3>2. status[l] # "COMPLETED" /\ status' = status
            BY <2>4 DEF BeginUpdate
        <3> QED
            BY <3>1, <3>2 DEF OpenOK
    <2> QED
        BY <1>2, <1>5, <2>1, <2>2, <2>3, <2>4 DEF Beginning
<1>6. ASSUME NEW d \in Call,
             CommitUpdate(d) \/ CommitGuestStatus(d) \/ EndCall(d)
             \/ \E l \in Listing : CommitCreate(d, l)
      PROVE  End(d)
    BY <1>6 DEF CommitUpdate, CommitGuestStatus, EndCall, CommitCreate
<1>7. ASSUME Uploading \/ Managing \/ Sweeping \/ Cleaning \/ UNCHANGED vars PROVE UNCHANGED call
    BY <1>7 DEF Uploading, StoreObject, RegisterUpload, RegisterFails, RemoveUnregistered, UploadAges,
       Managing, ListingExpires, UpdateGuestContact, Remove, AdminSetsStatus, Sweeping,
       FindExpired, DeleteExpiredGuests, ExpireRegular, StopSweep, Cleaning, FindUnattached,
       MarkFails, StopCleaning, DeleteObject, SkipUpload, MarkDeleted, vars
<1> QED
    BY <1>2, <1>4, <1>5, <1>6, <1>7 DEF Next, Editing, Beginning

(* What nobody can see from outside. *)
LEMMA NothingShown ==
    ASSUME UNCHANGED <<status, images, registry, listingId, moderated>>
    PROVE  UNCHANGED Atomic!vars
<1>1. \A k : AttachedTo({k})' = AttachedTo({k})
    BY DEF AttachedTo
<1>2. shown' = shown
    BY <1>1 DEF shown, Offered
<1>3. free' = free /\ known' = known
    BY DEF free, known
<1> QED
    BY <1>2, <1>3 DEF Atomic!vars

(* What reregistering does to what is free, and to what is attached to whom. *)
LEMMA Reregistering ==
    ASSUME NEW attach \in SUBSET free, NEW release \in SUBSET AttachedTo(Listing),
           NEW m \in Listing \cup {NoListing}, Reregister(attach, release, m)
    PROVE  /\ free' = (free \ attach) \cup release
           /\ known' = known
           /\ \A k \in Listing :
                 AttachedTo({k})' = (AttachedTo({k}) \ release) \cup (IF k = m THEN attach ELSE {})
<1>1. /\ registry' = [u \in Upload |-> IF u \in attach THEN "ATTACHED"
                                     ELSE IF u \in release THEN "PENDING" ELSE registry[u]]
      /\ listingId' = [u \in Upload |-> IF u \in attach THEN m
                                      ELSE IF u \in release THEN NoListing ELSE listingId[u]]
    BY DEF Reregister
<1>2. /\ \A u \in attach : u \in Upload /\ registry[u] = "PENDING"
      /\ \A u \in release : u \in Upload /\ registry[u] = "ATTACHED"
    BY DEF free, AttachedTo
<1>3. free' = (free \ attach) \cup release
    BY <1>1, <1>2 DEF free
<1>4. known' = known
    BY <1>1, <1>2 DEF known
<1>5. ASSUME NEW k \in Listing
      PROVE  AttachedTo({k})' = (AttachedTo({k}) \ release) \cup (IF k = m THEN attach ELSE {})
    BY <1>1, <1>2, ListingAssumption DEF AttachedTo
<1> QED
    BY <1>3, <1>4, <1>5

(* Releasing alone: the listing it is written with is not used. *)
LEMMA Releasing ==
    ASSUME NEW release \in SUBSET AttachedTo(Listing), NEW l, Reregister({}, release, l)
    PROVE  /\ free' = free \cup release
           /\ known' = known
           /\ \A k \in Listing : AttachedTo({k})' = AttachedTo({k}) \ release
<1>1. PICK A \in SUBSET free : A = {}
    OBVIOUS
<1>2. PICK n \in Listing \cup {NoListing} : n = NoListing /\ Reregister(A, release, n)
    BY <1>1 DEF Reregister
<1>3. /\ free' = (free \ A) \cup release /\ known' = known
      /\ \A k \in Listing :
            AttachedTo({k})' = (AttachedTo({k}) \ release) \cup (IF k = n THEN A ELSE {})
    BY <1>2, Reregistering
<1> QED
    BY <1>1, <1>3

LEMMA CreateIsPublish ==
    ASSUME IInv, NEW c \in Call, NEW l \in Listing, CommitCreate(c, l)
    PROVE  \E S \in SUBSET Upload : Atomic!Publish(l, S)
<1>1. TypeOK /\ Registered
    BY DEF IInv
<1>2. PICK S \in SUBSET Upload : S = call[c].images
    BY <1>1, CallTyped DEF CommitCreate, Creating
<1>3. /\ ~Exists(l) /\ S \subseteq free
      /\ status' = [status EXCEPT ![l] = "ACTIVE"]
      /\ images' = [images EXCEPT ![l] = S]
      /\ Reregister(S, {}, l)
      /\ moderated' = moderated
    BY <1>2 DEF CommitCreate, Unattached, free
<1>4. /\ free' = free \ S /\ known' = known
      /\ \A k \in Listing : AttachedTo({k})' = AttachedTo({k}) \cup (IF k = l THEN S ELSE {})
    <2>1. PICK R \in SUBSET AttachedTo(Listing) : R = {}
        OBVIOUS
    <2>2. PICK A \in SUBSET free : A = S
        BY <1>3
    <2>3. Reregister(A, R, l)
        BY <1>3, <2>1, <2>2
    <2>4. free' = (free \ A) \cup R /\ known' = known
        BY <2>3, Reregistering
    <2>5. \A k \in Listing :
                AttachedTo({k})' = (AttachedTo({k}) \ R) \cup (IF k = l THEN A ELSE {})
        BY <2>3, Reregistering
    <2> QED
        BY <2>1, <2>2, <2>4, <2>5
<1>5. AttachedTo({l}) = {}
    BY <1>1, <1>3 DEF AttachedTo, Registered
<1>6. \A k \in Listing : Offered(k)' = IF k = l THEN S ELSE Offered(k)
    BY <1>1, <1>3, <1>4, <1>5 DEF Offered, TypeOK
<1>7. shown' = [shown EXCEPT ![l] = S]
    BY <1>6 DEF shown
<1> QED
    BY <1>3, <1>4, <1>7 DEF Atomic!Publish, Exists

LEMMA UpdateIsEdit ==
    ASSUME IInv, NEW c \in Call, OpenOK(c), CommitUpdate(c)
    PROVE  \E l \in Listing : \E S \in SUBSET Upload, st \in Published : Atomic!Edit(l, S, st)
<1>1. TypeOK /\ Registered /\ CallOK(c)
    BY DEF IInv
<1>2. PICK q \in Updating : q = call[c]
    BY <1>1, CallTyped DEF CommitUpdate
<1>3. PICK l \in Listing, S \in SUBSET Upload : l = q.listing /\ S = q.images
    BY DEF Updating
<1>4. /\ q.seen = images[l] /\ l \notin GuestListing /\ Exists(l)
      /\ l \in moderated \/ MayBecome(status[l], q.status)
      /\ status[l] # "COMPLETED" \/ l \in moderated
    BY <1>1, <1>2, <1>3 DEF CommitUpdate, CallOK, UpToDate, OpenOK, Updating
<1>5. PICK st : st = Wanted(q)
    OBVIOUS
<1>6. /\ status' = [status EXCEPT ![l] = st]
      /\ images' = [images EXCEPT ![l] = S]
      /\ S \ images[l] \subseteq free
      /\ Reregister(S \ images[l], (images[l] \ S) \cap AttachedTo({l}), l)
      /\ moderated' = moderated
    BY <1>2, <1>3, <1>4, <1>5 DEF CommitUpdate, WriteListing, Unattached, free
<1>7. /\ st \in Published
      /\ Atomic!Leads(status[l], st) \/ l \in moderated
    BY <1>1, <1>3, <1>4, <1>5
    DEF Wanted, MayBecome, Atomic!Leads, Updating, NewStatus, Published, Exists, TypeOK
<1>8. images[l] = AttachedTo({l})
    BY <1>1, <1>4 DEF Registered, AttachedTo, TypeOK
<1>9. PICK R \in SUBSET AttachedTo(Listing) : R = images[l] \ S
    BY <1>8 DEF AttachedTo
<1>10. PICK A \in SUBSET free : A = S \ images[l]
    BY <1>6
<1>11. /\ free' = (free \ A) \cup R /\ known' = known
       /\ \A k \in Listing : AttachedTo({k})' = (AttachedTo({k}) \ R) \cup (IF k = l THEN A ELSE {})
    <2>1. Reregister(A, R, l)
        BY <1>6, <1>8, <1>9, <1>10
    <2>2. free' = (free \ A) \cup R /\ known' = known
        BY <2>1, Reregistering
    <2>3. \A k \in Listing : AttachedTo({k})' = (AttachedTo({k}) \ R) \cup (IF k = l THEN A ELSE {})
        BY <2>1, Reregistering
    <2> QED
        BY <2>2, <2>3
<1>12. shown' = [shown EXCEPT ![l] = S]
    <2>1. \A k \in Listing : k # l => AttachedTo({k}) \cap R = {}
        BY <1>8, <1>9 DEF AttachedTo
    <2>2. \A k \in Listing : k # l => AttachedTo({k})' = AttachedTo({k})
        BY <1>11, <2>1
    <2>3. \A k \in Listing : images'[k] = IF k = l THEN S ELSE images[k]
        BY <1>1, <1>6 DEF TypeOK
    <2>4. \A k \in Listing : Offered(k)' = IF k = l THEN S ELSE Offered(k)
        BY <1>4, <2>2, <2>3 DEF Offered
    <2> QED
        BY <2>4 DEF shown
<1>13. shown[l] = images[l]
    BY <1>4 DEF shown, Offered
<1>14. images[l] \cap free = {}
    BY <1>8 DEF AttachedTo, free
<1>15. free' = (free \ S) \cup (shown[l] \ S)
    BY <1>9, <1>10, <1>11, <1>13, <1>14
<1>16. Atomic!Sets(l, st)
    BY <1>4, <1>6, <1>7 DEF Atomic!Sets, Exists
<1>17. Atomic!Edit(l, S, st)
    BY <1>4, <1>6, <1>10, <1>11, <1>12, <1>13, <1>15, <1>16 DEF Atomic!Edit
<1> QED
    BY <1>7, <1>17

LEMMA GuestStatusIsSet ==
    ASSUME IInv, NEW c \in Call, OpenOK(c), CommitGuestStatus(c)
    PROVE  \E l \in Listing, st \in Published : Atomic!GuestSets(l, st)
<1>1. TypeOK /\ CallOK(c)
    BY DEF IInv
<1>2. PICK q \in GuestUpdating : q = call[c]
    BY <1>1, CallTyped DEF CommitGuestStatus
<1>3. PICK l \in Listing, st \in Published : l = q.listing /\ st = q.status
    BY DEF GuestUpdating, NewStatus, Published
<1>4. /\ l \in GuestListing /\ Exists(l)
      /\ l \in moderated \/ MayBecome(status[l], st)
    BY <1>1, <1>2, <1>3 DEF CommitGuestStatus, CallOK, UpToDate, OpenOK, GuestUpdating
<1>5. /\ status' = [status EXCEPT ![l] = st]
      /\ UNCHANGED <<images, registry, listingId, moderated>>
    BY <1>2, <1>3 DEF CommitGuestStatus, uploadRows
<1>6. Atomic!Leads(status[l], st) \/ l \in moderated
    BY <1>4 DEF MayBecome, Atomic!Leads, Published
<1>7. Atomic!Sets(l, st)
    BY <1>4, <1>5, <1>6 DEF Atomic!Sets, Exists
<1>8. UNCHANGED <<shown, free, known>>
    <2>1. \A k : AttachedTo({k})' = AttachedTo({k})
        BY <1>5 DEF AttachedTo
    <2> QED
        BY <1>5, <2>1 DEF shown, Offered, free, known
<1>9. Atomic!GuestSets(l, st)
    BY <1>4, <1>5, <1>7, <1>8 DEF Atomic!GuestSets
<1> QED
    BY <1>9

LEMMA RemoveIsRemove ==
    ASSUME IInv, NEW l \in Listing, Remove(l)
    PROVE  Atomic!Remove(l)
<1>1. TypeOK /\ Registered
    BY DEF IInv
<1>2. /\ l \notin GuestListing /\ Exists(l)
      /\ status' = [status EXCEPT ![l] = "DELETED"]
      /\ images' = [images EXCEPT ![l] = {}]
      /\ Reregister({}, AttachedTo({l}), l)
      /\ moderated' = moderated
    BY DEF Remove
<1>3. PICK R \in SUBSET AttachedTo(Listing) : R = AttachedTo({l})
    BY DEF AttachedTo
<1>4. /\ free' = free \cup R /\ known' = known
      /\ \A k \in Listing : AttachedTo({k})' = AttachedTo({k}) \ R
    BY <1>2, <1>3, Releasing
<1>5. \A k \in Listing : k # l => AttachedTo({k})' = AttachedTo({k})
    BY <1>3, <1>4 DEF AttachedTo
<1>6. \A k \in Listing : Offered(k)' = IF k = l THEN {} ELSE Offered(k)
    <2>1. \A k \in Listing : images'[k] = IF k = l THEN {} ELSE images[k]
        BY <1>1, <1>2 DEF TypeOK
    <2> QED
        BY <1>2, <1>5, <2>1 DEF Offered
<1>7. shown' = [shown EXCEPT ![l] = {}]
    BY <1>6 DEF shown
<1>8. shown[l] = R
    BY <1>1, <1>2, <1>3 DEF shown, Offered, Registered, AttachedTo, TypeOK
<1> QED
    BY <1>2, <1>4, <1>7, <1>8 DEF Atomic!Remove, Exists

LEMMA DeletionIsSweep ==
    ASSUME IInv, DeleteExpiredGuests
    PROVE  \E E \in SUBSET GuestListing : Atomic!Sweep(E)
<1>1. TypeOK /\ Registered /\ sweep.ids \subseteq GuestListing
    BY DEF IInv, Registered
<1>2. PICK E \in SUBSET GuestListing : E = sweep.ids
    BY <1>1
<1>3. PICK D : D = {l \in E : status[l] \in {"ACTIVE", "PAUSED", "EXPIRED", "COMPLETED"}}
    OBVIOUS
<1>4. E \cap Doomed = D /\ E \ D \subseteq moderated
    BY <1>2, <1>3 DEF IInv, FoundOK, Doomed, Sweepable
<1>5. /\ status' = [l \in Listing |-> IF l \in D THEN "DELETED" ELSE status[l]]
      /\ images' = [l \in Listing |-> IF l \in D THEN {} ELSE images[l]]
      /\ Reregister({}, AttachedTo(E), NoListing)
      /\ moderated' = moderated
    BY <1>2, <1>4 DEF DeleteExpiredGuests
<1>6. PICK R \in SUBSET AttachedTo(Listing) : R = AttachedTo(E)
    BY ListingAssumption DEF AttachedTo
<1>7. /\ free' = free \cup R /\ known' = known
      /\ \A k \in Listing : AttachedTo({k})' = AttachedTo({k}) \ R
    BY <1>5, <1>6, Releasing
<1>8. \A k \in Listing : AttachedTo({k}) \ R = IF k \in E THEN {} ELSE AttachedTo({k})
    BY <1>6 DEF AttachedTo
<1>9. \A k \in Listing : k \notin GuestListing => images'[k] = images[k]
    BY <1>1, <1>3, <1>5 DEF TypeOK
<1>10. \A k \in Listing : Offered(k)' = IF k \in E THEN {} ELSE Offered(k)
    BY <1>7, <1>8, <1>9 DEF Offered
<1>11. shown' = [l \in Listing |-> IF l \in E THEN {} ELSE shown[l]]
    BY <1>10 DEF shown
<1>12. \A l \in E : shown[l] = AttachedTo({l})
    BY ListingAssumption DEF shown, Offered
<1>13. R = UNION {shown[l] : l \in E}
    BY <1>6, <1>12 DEF AttachedTo
<1>14. Atomic!Sweep(E)
    BY <1>3, <1>4, <1>5, <1>7, <1>11, <1>13 DEF Atomic!Sweep
<1> QED
    BY <1>14

LEMMA ExpiryIsExpire ==
    ASSUME IInv, ExpireRegular
    PROVE  \E D \in SUBSET Listing : Atomic!Expire(D)
<1>1. PICK D \in SUBSET Listing : D = {l \in Listing \ GuestListing : expired[l] /\ status[l] = "ACTIVE"}
    OBVIOUS
<1>2. /\ status' = [l \in Listing |-> IF l \in D THEN "EXPIRED" ELSE status[l]]
      /\ UNCHANGED <<images, registry, listingId, moderated>>
    BY <1>1 DEF ExpireRegular, uploadRows
<1>3. UNCHANGED <<shown, free, known>>
    <2>1. \A k : AttachedTo({k})' = AttachedTo({k})
        BY <1>2 DEF AttachedTo
    <2> QED
        BY <1>2, <2>1 DEF shown, Offered, free, known
<1> QED
    BY <1>1, <1>2, <1>3 DEF Atomic!Expire

LEMMA ModerationIsModerate ==
    ASSUME NEW l \in Listing, NEW st \in Published, AdminSetsStatus(l, st)
    PROVE  Atomic!Moderate(l, st)
<1>1. UNCHANGED <<images, registry, listingId>>
    BY DEF AdminSetsStatus, uploadRows
<1>2. UNCHANGED <<shown, free, known>>
    <2>1. \A k : AttachedTo({k})' = AttachedTo({k})
        BY <1>1 DEF AttachedTo
    <2> QED
        BY <1>1, <2>1 DEF shown, Offered, free, known
<1> QED
    BY <1>2 DEF AdminSetsStatus, Atomic!Moderate, Exists

LEMMA RegisterIsArrive ==
    ASSUME IInv, NEW u \in Upload, RegisterUpload(u)
    PROVE  Atomic!Arrive(u)
<1>1. TypeOK /\ Stored
    BY DEF IInv
<1>2. /\ registry[u] = "ABSENT" /\ registry' = [registry EXCEPT ![u] = "PENDING"]
      /\ UNCHANGED <<listingId, status, images, moderated>>
    BY <1>1 DEF RegisterUpload, Stored, listingRows
<1>3. \A k : AttachedTo({k})' = AttachedTo({k})
    BY <1>1, <1>2 DEF AttachedTo, TypeOK
<1>4. shown' = shown
    BY <1>2, <1>3 DEF shown, Offered
<1>5. u \notin known /\ known' = known \cup {u} /\ free' = free \cup {u}
    BY <1>1, <1>2 DEF known, free, TypeOK
<1> QED
    BY <1>2, <1>4, <1>5 DEF Atomic!Arrive

LEMMA MarkIsThrowAway ==
    ASSUME IInv, NEW u \in Upload, MarkDeleted(u)
    PROVE  Atomic!ThrowAway(u) \/ UNCHANGED Atomic!vars
<1>1. TypeOK
    BY DEF IInv
<1>2. UNCHANGED <<listingId, status, images, moderated>>
    BY DEF MarkDeleted, listingRows
<1>3. CASE registry[u] = "PENDING" /\ listingId[u] = NoListing
    <2>1. registry' = [registry EXCEPT ![u] = "DELETED"]
        BY <1>3 DEF MarkDeleted
    <2>2. \A k : AttachedTo({k})' = AttachedTo({k})
        BY <1>1, <1>2, <1>3, <2>1 DEF AttachedTo, TypeOK
    <2>3. shown' = shown
        BY <1>2, <2>2 DEF shown, Offered
    <2>4. u \in free /\ known' = known /\ free' = free \ {u}
        BY <1>1, <1>3, <2>1 DEF known, free, TypeOK
    <2> QED
        BY <1>2, <2>3, <2>4 DEF Atomic!ThrowAway
<1>4. CASE ~(registry[u] = "PENDING" /\ listingId[u] = NoListing)
    <2>1. registry' = registry
        BY <1>1, <1>4 DEF MarkDeleted, TypeOK
    <2> QED
        BY <1>2, <2>1, NothingShown
<1> QED
    BY <1>3, <1>4

LEMMA CatalogueStep ==
    ASSUME IInv, \A c \in Call : OpenOK(c), [Next]_vars
    PROVE  [Atomic!Next]_Atomic!vars
<1> USE DEF listingRows, uploadRows
<1>1. ASSUME NEW c \in Call, NEW l \in Listing, CommitCreate(c, l) PROVE Atomic!Next
    BY <1>1, CreateIsPublish DEF Atomic!Next
<1>2. ASSUME NEW c \in Call, CommitUpdate(c) PROVE Atomic!Next
    BY <1>2, UpdateIsEdit DEF Atomic!Next, Atomic!Statuses, Published
<1>3. ASSUME NEW c \in Call, CommitGuestStatus(c) PROVE Atomic!Next
    BY <1>3, GuestStatusIsSet DEF Atomic!Next, Atomic!Statuses, Published
<1>4. ASSUME NEW l \in Listing, Remove(l) PROVE Atomic!Next
    BY <1>4, RemoveIsRemove DEF Atomic!Next
<1>5. ASSUME NEW l \in Listing, NEW st \in Published, AdminSetsStatus(l, st) PROVE Atomic!Next
    BY <1>5, ModerationIsModerate DEF Atomic!Next, Atomic!Statuses, Published
<1>6. CASE DeleteExpiredGuests
    BY <1>6, DeletionIsSweep DEF Atomic!Next
<1>7. CASE ExpireRegular
    BY <1>7, ExpiryIsExpire DEF Atomic!Next
<1>8. ASSUME NEW u \in Upload, RegisterUpload(u) PROVE Atomic!Next
    BY <1>8, RegisterIsArrive DEF Atomic!Next
<1>9. ASSUME NEW u \in Upload, MarkDeleted(u) PROVE Atomic!Next \/ UNCHANGED Atomic!vars
    BY <1>9, MarkIsThrowAway DEF Atomic!Next
<1>10. ASSUME NEW c \in Call, Beginning(c) \/ EndCall(c) PROVE UNCHANGED Atomic!vars
    BY <1>10, NothingShown DEF Beginning, BeginCreate, BeginUpdate, BeginGuestStatus, EndCall
<1>11. ASSUME NEW u \in Upload,
              StoreObject(u) \/ RegisterFails(u) \/ RemoveUnregistered(u) \/ UploadAges(u)
       PROVE  UNCHANGED Atomic!vars
    BY <1>11, NothingShown DEF StoreObject, RegisterFails, RemoveUnregistered, UploadAges
<1>12. ASSUME NEW l \in Listing, ListingExpires(l) \/ UpdateGuestContact(l)
       PROVE  UNCHANGED Atomic!vars
    BY <1>12, NothingShown DEF ListingExpires, UpdateGuestContact
<1>13. ASSUME FindExpired \/ StopSweep \/ FindUnattached \/ MarkFails \/ StopCleaning
              \/ \E u \in Upload : DeleteObject(u) \/ SkipUpload(u)
       PROVE  UNCHANGED Atomic!vars
    BY <1>13, NothingShown DEF FindExpired, StopSweep, FindUnattached, MarkFails, StopCleaning,
       DeleteObject, SkipUpload
<1>14. CASE UNCHANGED vars
    BY <1>14, NothingShown DEF vars
<1> QED
    BY <1>1, <1>2, <1>3, <1>4, <1>5, <1>6, <1>7, <1>8, <1>9, <1>10, <1>11, <1>12, <1>13, <1>14
    DEF Next, Uploading, Editing, Managing, Sweeping, Cleaning, Beginning

(* Any number of edits that read, check and write in steps of their own, beside expiry, removal,     *)
(* the sweep and moderation, amount to edits made one at a time.                                    *)
THEOREM CatalogueImplemented == Spec => ImplementsCatalogue
<1> DEFINE CallsOpen == \A c \in Call : OpenOK(c)
<1>1. Init => Atomic!Init /\ CallsOpen
    <2> SUFFICES ASSUME Init PROVE Atomic!Init /\ CallsOpen
        OBVIOUS
    <2>1. CallsOpen
        BY DEF Init, OpenOK, Idle
    <2>2. \A k \in Listing : Offered(k) = {}
        BY DEF Init, Offered, AttachedTo
    <2>3. shown = [l \in Listing |-> {}]
        BY <2>2 DEF shown
    <2>4. free = {} /\ known = {}
        BY DEF Init, free, known
    <2> QED
        BY <2>1, <2>3, <2>4 DEF Init, Atomic!Init
<1>2. IInv /\ CallsOpen /\ [Next]_vars => CallsOpen'
    BY OpenStep
<1>3. IInv /\ CallsOpen /\ [Next]_vars => [Atomic!Next]_Atomic!vars
    BY CatalogueStep
<1> HIDE DEF CallsOpen
<1> QED
    BY <1>1, <1>2, <1>3, ListingsInvariant, PTL DEF Spec, ImplementsCatalogue, Atomic!Spec

(* No two listings share an image, so that what removing the one, or an edit of it, releases is never  *)
(* an image of the other, but where an administrator has had a hand in a guest's.                    *)
COROLLARY ImagesApart ==
    Spec => [](\A k, l \in Listing \ (GuestListing \cap moderated) :
                  k # l => images[k] \cap images[l] = {})
<1>1. TypeOK /\ RegistryIsExact =>
          \A k, l \in Listing \ (GuestListing \cap moderated) :
              k # l => images[k] \cap images[l] = {}
    BY DEF TypeOK, RegistryIsExact, AttachedTo
<1> QED
    BY <1>1, TypeCorrect, Registry, PTL

-----------------------------------------------------------------------------
(* Flags.  A call that has not read the listing's present version conflicts, and one that reads it    *)
(* while it is flagged may only ask for the status to be kept.                                       *)
LEMMA NoneMayLift ==
    ASSUME IInv, [Next]_vars, NEW l \in Listing, SafelyFlagged(l), NEW c \in Call
    PROVE  ~MayLift(c, l)'
<1> USE DEF listingRows
<1>1. TypeOK /\ (\A d \in Call : CallOK(d)) /\ TypeOK' /\ status[l] = "FLAGGED" /\ ~MayLift(c, l)
    BY TypeStep DEF IInv, SafelyFlagged
<1>2. ASSUME call'[c] = call[c] PROVE ~MayLift(c, l)'
    <2> SUFFICES ASSUME MayLift(c, l)' PROVE FALSE
        OBVIOUS
    <2>1. /\ call[c].op \in {"update", "guest"} /\ call[c].listing = l
          /\ call[c].version = version'[l] /\ call[c].status # "KEEP"
        BY <1>2 DEF MayLift
    <2>2. call[c].version <= version[l]
        BY <1>1, <2>1 DEF CallOK
    <2>3. version'[l] >= version[l]
        BY <1>1, VersionedStep DEF Versioned, Exists
    <2>4. version[l] \in Nat /\ version'[l] \in Nat
        BY <1>1, ListingAssumption DEF TypeOK, Versions
    <2>5. call[c].version = version[l]
        BY <2>1, <2>2, <2>3, <2>4
    <2> QED
        BY <1>1, <2>1, <2>5 DEF MayLift
<1>3. ASSUME call'[c].op \notin {"update", "guest"} PROVE ~MayLift(c, l)'
    BY <1>3 DEF MayLift
<1>4. ASSUME NEW d \in Call, End(d) PROVE ~MayLift(c, l)'
    <2>1. call'[c] = call[c] \/ call'[c] = Idle
        BY <1>1, <1>4 DEF End, TypeOK
    <2> QED
        BY <1>2, <1>3, <2>1 DEF Idle
<1>5. ASSUME NEW d \in Call, Beginning(d) PROVE ~MayLift(c, l)'
    <2>1. ASSUME d # c PROVE call'[c] = call[c]
        BY <1>1, <1>5, <2>1 DEF Beginning, BeginCreate, BeginUpdate, BeginGuestStatus, Begin, TypeOK
    <2>2. ASSUME NEW r \in Request, NEW S \in SUBSET Upload, BeginCreate(c, r, S) PROVE ~MayLift(c, l)'
        BY <1>1, <1>3, <2>2 DEF BeginCreate, Begin, TypeOK
    <2>3. ASSUME NEW k \in Listing, NEW st \in NewStatus \ {"KEEP"}, BeginGuestStatus(c, k, st)
          PROVE  ~MayLift(c, l)'
        <3>1. call'[c] = [op |-> "guest", listing |-> k, version |-> version[k], status |-> st]
            BY <1>1, <2>3 DEF BeginGuestStatus, Begin, TypeOK
        <3>2. call'[c].listing = k
            BY <3>1
        <3>3. k # l
            BY <1>1, <2>3 DEF BeginGuestStatus, MayBecome, NewStatus
        <3> QED
            BY <3>2, <3>3 DEF MayLift
    <2>4. ASSUME NEW k \in Listing, NEW S \in SUBSET Upload, NEW st \in NewStatus,
                 BeginUpdate(c, k, S, st)
          PROVE  ~MayLift(c, l)'
        <3>1. call'[c].listing = k /\ call'[c].status = st
            BY <1>1, <2>4 DEF BeginUpdate, Begin, TypeOK
        <3>2. k = l => st = "KEEP"
            BY <1>1, <2>4 DEF BeginUpdate, MayBecome, NewStatus
        <3> QED
            BY <3>1, <3>2 DEF MayLift
    <2> QED
        BY <1>2, <1>5, <2>1, <2>2, <2>3, <2>4 DEF Beginning
<1>6. ASSUME NEW d \in Call,
             CommitUpdate(d) \/ CommitGuestStatus(d) \/ EndCall(d)
             \/ \E k \in Listing : CommitCreate(d, k)
      PROVE  End(d)
    BY <1>6 DEF CommitUpdate, CommitGuestStatus, EndCall, CommitCreate
<1>7. ASSUME Uploading \/ Managing \/ Sweeping \/ Cleaning \/ UNCHANGED vars PROVE UNCHANGED call
    BY <1>7 DEF Uploading, StoreObject, RegisterUpload, RegisterFails, RemoveUnregistered, UploadAges,
       Managing, ListingExpires, UpdateGuestContact, Remove, AdminSetsStatus, Sweeping,
       FindExpired, DeleteExpiredGuests, ExpireRegular, StopSweep, Cleaning, FindUnattached,
       MarkFails, StopCleaning, DeleteObject, SkipUpload, MarkDeleted, vars
<1> QED
    BY <1>2, <1>4, <1>5, <1>6, <1>7 DEF Next, Editing, Beginning

LEMMA FlagStep ==
    ASSUME IInv, [Next]_vars, NEW l \in Listing, SafelyFlagged(l)
    PROVE  \/ status'[l] \in {"FLAGGED", "DELETED"}
           \/ \E st \in Moderation : AdminSetsStatus(l, st)
<1> USE DEF listingRows
<1>1. TypeOK /\ status[l] = "FLAGGED" /\ \A c \in Call : ~MayLift(c, l)
    BY DEF IInv, SafelyFlagged
<1>2. ASSUME NEW c \in Call, NEW k \in Listing, CommitCreate(c, k) PROVE status'[l] = "FLAGGED"
    BY <1>1, <1>2 DEF CommitCreate, Exists, TypeOK
<1>3. ASSUME NEW c \in Call, CommitUpdate(c) PROVE status'[l] = "FLAGGED"
    <2>1. PICK q \in Updating : q = call[c]
        BY <1>1, <1>3, CallTyped DEF CommitUpdate
    <2>2. status' = [status EXCEPT ![q.listing] = Wanted(q)] /\ version[q.listing] = q.version
        BY <1>3, <2>1 DEF CommitUpdate, WriteListing
    <2>3. q.listing = l => q.status = "KEEP"
        BY <1>1, <1>3, <2>1, <2>2 DEF MayLift, CommitUpdate
    <2> QED
        BY <1>1, <2>2, <2>3 DEF Wanted, TypeOK
<1>4. ASSUME NEW c \in Call, CommitGuestStatus(c) PROVE status'[l] = "FLAGGED"
    <2>1. PICK q \in GuestUpdating : q = call[c]
        BY <1>1, <1>4, CallTyped DEF CommitGuestStatus
    <2>2. status' = [status EXCEPT ![q.listing] = q.status] /\ version[q.listing] = q.version
        BY <1>4, <2>1 DEF CommitGuestStatus
    <2>3. q.listing # l
        BY <1>1, <1>4, <2>1, <2>2 DEF MayLift, CommitGuestStatus, GuestUpdating
    <2> QED
        BY <1>1, <2>2, <2>3 DEF TypeOK
<1>5. ASSUME NEW k \in Listing, Remove(k) PROVE status'[l] \in {"FLAGGED", "DELETED"}
    BY <1>1, <1>5 DEF Remove, TypeOK
<1>6. ASSUME NEW k \in Listing, NEW st \in Published, AdminSetsStatus(k, st)
      PROVE  status'[l] = "FLAGGED" \/ \E s \in Moderation : AdminSetsStatus(l, s)
    BY <1>1, <1>6 DEF AdminSetsStatus, TypeOK
<1>7. ASSUME DeleteExpiredGuests \/ ExpireRegular PROVE status'[l] = "FLAGGED"
    BY <1>1, <1>7 DEF DeleteExpiredGuests, ExpireRegular, Doomed
<1>8. ASSUME NEW k \in Listing, ListingExpires(k) \/ UpdateGuestContact(k) PROVE status' = status
    BY <1>8 DEF ListingExpires, UpdateGuestContact
<1>9. ASSUME NEW c \in Call, Beginning(c) \/ EndCall(c) PROVE status' = status
    BY <1>9 DEF Beginning, BeginCreate, BeginUpdate, BeginGuestStatus, EndCall
<1>10. ASSUME Uploading \/ FindExpired \/ StopSweep \/ Cleaning \/ UNCHANGED vars
       PROVE  status' = status
    BY <1>10 DEF Uploading, StoreObject, RegisterUpload, RegisterFails, RemoveUnregistered,
       UploadAges, FindExpired, StopSweep, Cleaning, FindUnattached, MarkFails, StopCleaning,
       DeleteObject, SkipUpload, MarkDeleted, vars
<1> QED
    BY <1>1, <1>2, <1>3, <1>4, <1>5, <1>6, <1>7, <1>8, <1>9, <1>10
    DEF Next, Editing, Managing, Sweeping, Beginning

(* A flag is lifted only by calls that had read the listing before it was set; once those have ended, *)
(* by an administrator.                                                                              *)
THEOREM FlagsHold == Spec => FlagHolds
<1>1. ASSUME IInv, [Next]_vars, NEW l \in Listing, SafelyFlagged(l)
      PROVE  \/ SafelyFlagged(l)'
             \/ status'[l] = "DELETED"
             \/ \E st \in Moderation : AdminSetsStatus(l, st)
    <2>1. \A c \in Call : ~MayLift(c, l)'
        BY <1>1, NoneMayLift
    <2> QED
        BY <1>1, <2>1, FlagStep DEF SafelyFlagged
<1>2. IInv /\ [Next]_vars =>
        [\A l \in Listing :
            SafelyFlagged(l) => \/ SafelyFlagged(l)'
                                \/ status'[l] = "DELETED"
                                \/ \E st \in Moderation : AdminSetsStatus(l, st)]_vars
    BY <1>1
<1> QED
    BY <1>2, ListingsInvariant, PTL DEF Spec, FlagHolds

=============================================================================
