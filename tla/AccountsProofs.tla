---------------------------- MODULE AccountsProofs ----------------------------
(***************************************************************************)
(* What Accounts promises of any number of identities, addresses and        *)
(* requests in progress.                                                    *)
(***************************************************************************)
EXTENDS Accounts, TLAPS

-----------------------------------------------------------------------------
(* Rows, and what a lookup may return. *)
LEMMA RowFacts ==
    ASSUME TypeOK, NEW r \in Rows
    PROVE  /\ r.id \in Identity /\ user[r.id] = r /\ r \in Row(r.id)
           /\ r # NoRow /\ r \in AnyRow
BY DEF TypeOK, Rows, Row

LEMMA AnyRowFacts ==
    ASSUME NEW r \in AnyRow
    PROVE  r.id \in Identity /\ r \in Row(r.id) /\ r # NoRow
BY NoRowAssumption DEF AnyRow, Row

LEMMA RowAt ==
    ASSUME TypeOK, NEW u \in Identity, user[u] # NoRow
    PROVE  user[u] \in Rows /\ user[u].id = u /\ user[u] \in Row(u)
BY DEF TypeOK, Rows, Row

LEMMA LookupFact ==
    ASSUME NEW k, NEW q
    PROVE  Lookup(k, q) = NoRow \/ (Lookup(k, q) \in Rows /\ Matches(Lookup(k, q), k, q))
BY DEF Lookup

LEMMA RowIsAny ==
    ASSUME NEW u \in Identity, NEW r \in Row(u)
    PROVE  r \in AnyRow
BY DEF AnyRow

LEMMA CallSorts ==
    ASSUME TypeOK, NEW c \in Call
    PROVE  /\ call[c].flow \in {"sync", "guard"} => call[c] \in SearchType
           /\ call[c].flow = "act" => call[c] \in [flow : {"act"}, as : Identity]
BY DEF TypeOK, CallType, SearchType, Idle

LEMMA FoundType ==
    ASSUME TypeOK, NEW q \in SearchType, NEW s \in Key
    PROVE  Found(q, s) \in SearchType
<1>1. \A k \in Key : Lookup(k, q) \in AnyRow \cup {NoRow}
    BY LookupFact, RowFacts
<1> DEFINE F == [q.found EXCEPT ![s] = Lookup(s, q)]
<1>2. F \in [Key -> AnyRow \cup {NoRow}]
    BY <1>1 DEF SearchType
<1>3. Found(q, s) = [q EXCEPT !.todo = q.todo \ {s}, !.found = F]
    BY DEF Found, SearchType
<1> QED
    BY <1>2, <1>3 DEF SearchType

(* What is found is NoRow or a row of some identity. *)
LEMMA FoundRow ==
    ASSUME NEW q \in SearchType, NEW k \in Key, q.found[k] # NoRow
    PROVE  q.found[k] \in AnyRow
BY DEF SearchType

LEMMA ExistingFact ==
    ASSUME NEW q \in SearchType
    PROVE  Existing(q) = NoRow \/ \E k \in Key : Existing(q) = q.found[k] /\ q.found[k] # NoRow
BY DEF Existing, Key

LEMMA NewRowType ==
    ASSUME NEW q \in SearchType
    PROVE  NewRow(q) \in Row(q.sub)
BY DEF NewRow, Row, SearchType, GoogleIdOf

(* The rows after one of them was written. *)
LEMMA UserWritten ==
    ASSUME TypeOK, NEW u \in Identity, NEW r \in Row(u), user' = [user EXCEPT ![u] = r]
    PROVE  /\ user' \in [Identity -> AnyRow \cup {NoRow}]
           /\ \A v \in Identity : user'[v] \in Row(v) \cup {NoRow}
BY RowIsAny DEF TypeOK

LEMMA CallWritten ==
    ASSUME TypeOK, NEW c \in Call, NEW q \in CallType, call' = [call EXCEPT ![c] = q]
    PROVE  call' \in [Call -> CallType]
BY DEF TypeOK

LEMMA Returned ==
    ASSUME TypeOK, NEW c \in Call, Return(c)
    PROVE  call' \in [Call -> CallType] /\ earlier' \in [Identity -> SUBSET Call]
BY DEF Return, TypeOK, CallType

LEMMA Admitted ==
    ASSUME TypeOK, NEW c \in Call, NEW r \in AnyRow, Admit(c, r)
    PROVE  call' \in [Call -> CallType] /\ earlier' \in [Identity -> SUBSET Call]
<1>1. [flow |-> "act", as |-> r.id] \in CallType
    BY AnyRowFacts DEF CallType
<1> QED
    BY <1>1, Returned, CallWritten DEF Admit, Continue, TypeOK

LEMMA Continued ==
    ASSUME TypeOK, NEW c \in Call, NEW q \in CallType, Continue(c, q)
    PROVE  call' \in [Call -> CallType] /\ earlier' \in [Identity -> SUBSET Call]
BY CallWritten DEF Continue, TypeOK

-----------------------------------------------------------------------------
(* A row that was found is still there: rows are never deleted. *)
KnownRows ==
    \A c \in Call : call[c].flow \in {"sync", "guard"} =>
        \A k \in Key : call[c].found[k] # NoRow => user[call[c].found[k].id] # NoRow

(* Who acts has a row, and so has who is about to be purged. *)
ActorsKnown == \A c \in Call : call[c].flow = "act" => user[call[c].as] # NoRow

PurgedKnown ==
    /\ \A u \in Identity : requested[u] # "no" => user[u] # NoRow
    /\ \A u \in batch : user[u] # NoRow

LEMMA SyncedType ==
    ASSUME TypeOK, KnownRows, NEW c \in Call, call[c].flow \in {"sync", "guard"},
           Existing(call[c]) # NoRow
    PROVE  /\ Existing(call[c]).id \in Identity
           /\ user[Existing(call[c]).id] # NoRow
           /\ Synced(call[c]) \in Row(Existing(call[c]).id)
           /\ Synced(call[c]).suspended = user[Existing(call[c]).id].suspended
           /\ Synced(call[c]).deactivated = user[Existing(call[c]).id].deactivated
<1> DEFINE q == call[c]  r == Existing(q)
<1>1. q \in SearchType
    BY CallSorts
<1>2. r \in AnyRow /\ user[r.id] # NoRow
    BY <1>1, ExistingFact, FoundRow DEF KnownRows
<1>3. r.id \in Identity /\ r \in Row(r.id) /\ user[r.id] \in Row(r.id)
    BY <1>2, AnyRowFacts, RowAt
<1>4. q.email \in Address /\ q.sub \in Identity
    BY <1>1 DEF SearchType
<1> DEFINE e == IF q.found["email"] = NoRow \/ q.found["email"].id = r.id THEN q.email ELSE r.email
           g == IF q.sub \in Google /\ (q.found["googleId"] = NoRow \/ q.found["googleId"].id = r.id)
                THEN q.sub ELSE r.googleId
<1>5. e \in Address \cup {Deleted(r.id)} /\ g \in Google \cup {Nobody}
    BY <1>3, <1>4 DEF Row
<1>6. Synced(q) = [user[r.id] EXCEPT !.email = e, !.googleId = g]
    BY DEF Synced
<1> HIDE DEF e, g
<1>7. [user[r.id] EXCEPT !.email = e, !.googleId = g] \in Row(r.id)
    BY <1>3, <1>5 DEF Row
<1>8. /\ [user[r.id] EXCEPT !.email = e, !.googleId = g].suspended = user[r.id].suspended
      /\ [user[r.id] EXCEPT !.email = e, !.googleId = g].deactivated = user[r.id].deactivated
    BY <1>3 DEF Row
<1> QED
    BY <1>2, <1>3, <1>6, <1>7, <1>8

LEMMA LinkedType ==
    ASSUME TypeOK, KnownRows, NEW c \in Call, call[c].flow = "guard",
           call[c].found["email"] # NoRow
    PROVE  LET r == call[c].found["email"]  l == Linked(call[c])
           IN  /\ r \in AnyRow /\ r.id \in Identity /\ user[r.id] # NoRow
               /\ l \in Row(r.id) /\ l.email = user[r.id].email
               /\ l.suspended = user[r.id].suspended
               /\ l.deactivated = user[r.id].deactivated
<1> DEFINE q == call[c]  r == q.found["email"]
<1>1. q \in SearchType
    BY CallSorts
<1>2. r \in AnyRow /\ user[r.id] # NoRow
    BY <1>1, FoundRow DEF KnownRows, Key
<1>3. r.id \in Identity /\ user[r.id] \in Row(r.id)
    BY <1>2, AnyRowFacts, RowAt
<1> DEFINE g == IF NewLink(q) THEN q.sub ELSE user[r.id].googleId
<1>4. g \in Google \cup {Nobody}
    BY <1>3 DEF Row, NewLink
<1>5. Linked(q) = [user[r.id] EXCEPT !.googleId = g]
    BY DEF Linked
<1> HIDE DEF g
<1> QED
    BY <1>2, <1>3, <1>4, <1>5 DEF Row

-----------------------------------------------------------------------------
(* Types. *)
LEMMA SyncType ==
    ASSUME TypeOK, NEW c \in Call, Sync(c), KnownRows
    PROVE  TypeOK'
<1> DEFINE q == call[c]
<1>1. q \in SearchType
    BY CallSorts DEF Sync
<1>2. UNCHANGED <<mailbox, requested, listings, batch>> /\ Return(c)
    BY DEF Sync
<1>3. /\ user' \in [Identity -> AnyRow \cup {NoRow}]
      /\ \A v \in Identity : user'[v] \in Row(v) \cup {NoRow}
    <2>1. CASE UNCHANGED user
        BY <2>1 DEF TypeOK
    <2>2. CASE CreateUser(q)
        BY <2>2, <1>1, NewRowType, UserWritten DEF CreateUser, SearchType
    <2>3. CASE /\ Existing(q) # NoRow
               /\ user' = [user EXCEPT ![Existing(q).id] = Synced(q)]
        BY <2>3, <1>1, SyncedType, UserWritten DEF Sync
    <2> QED
        BY <2>1, <2>2, <2>3 DEF Sync
<1> QED
    BY <1>2, <1>3, Returned DEF TypeOK, listings

(* What the guard looks for next. *)
LEMMA FollowingKey ==
    ASSUME NEW todo
    PROVE  Following(todo) \in Key
BY DEF Following, Key

LEMMA GuardLooksType ==
    ASSUME TypeOK, NEW c \in Call, GuardLooks(c)
    PROVE  TypeOK'
<1>1. PICK k \in Key : k = Following(call[c].todo)
    BY FollowingKey
<1>2. PICK q \in SearchType : q = Found(call[c], k)
    BY CallSorts, FoundType DEF GuardLooks
<1>3. call' \in [Call -> CallType] /\ earlier' \in [Identity -> SUBSET Call]
    <2>1. CASE Continue(c, q)
        BY <2>1, Continued DEF CallType
    <2>2. CASE q.found[k] # NoRow /\ Admit(c, q.found[k])
        BY <2>2, FoundRow, Admitted
    <2> QED
        BY <1>1, <1>2, <2>1, <2>2 DEF GuardLooks
<1> QED
    BY <1>3 DEF GuardLooks, TypeOK, listings

LEMMA GuardEndsType ==
    ASSUME TypeOK, KnownRows, NEW c \in Call, GuardEnds(c)
    PROVE  TypeOK'
<1> DEFINE q == call[c]  r == q.found["email"]
<1>1. q \in SearchType /\ q.flow = "guard" /\ q.sub \in Identity
    BY CallSorts DEF GuardEnds, SearchType
<1>2. UNCHANGED <<mailbox, requested, listings, batch>>
    BY DEF GuardEnds
<1>3. CASE r = NoRow /\ CreateUser(q) /\ Continue(c, [flow |-> "act", as |-> q.sub])
    <2>1. [flow |-> "act", as |-> q.sub] \in CallType
        BY <1>1 DEF CallType
    <2> QED
        BY <1>1, <1>2, <1>3, <2>1, Continued, NewRowType, UserWritten DEF CreateUser, TypeOK, listings
<1>4. CASE Return(c) /\ UNCHANGED user
    BY <1>2, <1>4, Returned DEF TypeOK, listings
<1>5. CASE r # NoRow /\ user' = [user EXCEPT ![r.id] = Linked(q)] /\ Admit(c, Linked(q))
    BY <1>1, <1>2, <1>5, LinkedType, RowIsAny, UserWritten, Admitted DEF TypeOK, listings
<1>6. CASE r # NoRow /\ Admit(c, r) /\ UNCHANGED user
    BY <1>1, <1>2, <1>6, LinkedType, Admitted DEF TypeOK, listings
<1> QED
    BY <1>3, <1>4, <1>5, <1>6 DEF GuardEnds

LEMMA ActorType ==
    ASSUME TypeOK, NEW c \in Call, call[c].flow = "act"
    PROVE  call[c].as \in Identity
BY CallSorts

LEMMA StandingType ==
    ASSUME TypeOK, NEW u \in Identity, user[u] # NoRow, NEW b \in BOOLEAN
    PROVE  /\ [user[u] EXCEPT !.suspended = b] \in Row(u)
           /\ [user[u] EXCEPT !.deactivated = TRUE] \in Row(u)
           /\ [user[u] EXCEPT !.email = Deleted(u), !.googleId = Nobody] \in Row(u)
<1>1. user[u] \in Row(u)
    BY RowAt
<1> QED
    BY <1>1 DEF Row

(* The listings' part of the types. *)
ListingsTyped ==
    /\ owner \in [Listing -> Identity \cup {Nobody}]
    /\ status \in [Listing -> Status \cup {"NONE"}]
    /\ \A l \in Listing : status[l] = "NONE" <=> owner[l] = Nobody

LEMMA ReportedUsers == Reported \subseteq Identity
BY DEF Reported, Report, ReportedUser

LEMMA TypeStep ==
    ASSUME TypeOK, KnownRows, ActorsKnown, PurgedKnown, [Next]_vars
    PROVE  TypeOK'
<1>1. ASSUME NEW c \in Call, NEW i \in Identity, SignIn(c, i) \/ Guard(c, i)
      PROVE  TypeOK'
    <2>1. \A flow \in {"sync", "guard"} : Search(i, flow) \in SearchType
        BY DEF Search, SearchType, TypeOK, Key
    <2>2. call' \in [Call -> CallType]
        BY <1>1, <2>1, CallWritten DEF SignIn, Guard, Begin, CallType
    <2> QED
        BY <1>1, <2>2 DEF SignIn, Guard, Begin, TypeOK, listings
<1>2. ASSUME NEW c \in Call, NEW s \in Key, Look(c, s)
      PROVE  TypeOK'
    <2>1. Found(call[c], s) \in CallType
        BY <1>2, CallSorts, FoundType DEF Look, CallType
    <2> QED
        BY <1>2, <2>1, Continued DEF Look, TypeOK, listings
<1>3. ASSUME NEW c \in Call, Act(c)
      PROVE  TypeOK'
    <2>1. ListingsTyped'
        <3> DEFINE u == call[c].as
        <3>1. u \in Identity /\ ListingsTyped
            BY <1>3, ActorType DEF Act, TypeOK, ListingsTyped
        <3>2. ASSUME NEW l \in Listing, owner' = [owner EXCEPT ![l] = u],
                     status' = [status EXCEPT ![l] = "ACTIVE"]
              PROVE  ListingsTyped'
            BY <3>1, <3>2, AccountsAssumption DEF ListingsTyped, Status
        <3>3. ASSUME NEW l \in Listing, NEW st \in {"ACTIVE", "PAUSED"}, owner[l] = u,
                     status' = [status EXCEPT ![l] = st], UNCHANGED owner
              PROVE  ListingsTyped'
            BY <3>1, <3>3, AccountsAssumption DEF ListingsTyped, Status
        <3>4. UNCHANGED listings => ListingsTyped'
            BY <3>1 DEF ListingsTyped, listings
        <3> QED
            BY <1>3, <3>2, <3>3, <3>4 DEF Act
    <2> QED
        BY <1>3, <2>1, Returned DEF Act, TypeOK, ListingsTyped
<1>4. ASSUME NEW c \in Call, RequestDeletion(c)
      PROVE  TypeOK'
    <2> DEFINE u == call[c].as
    <2>1. u \in Identity /\ user[u] # NoRow
        BY <1>4, ActorType DEF RequestDeletion, ActorsKnown
    <2>2. user' = [user EXCEPT ![u] = [user[u] EXCEPT !.deactivated = TRUE]]
        BY <1>4 DEF RequestDeletion, TypeOK
    <2>3. /\ user' \in [Identity -> AnyRow \cup {NoRow}]
          /\ \A v \in Identity : user'[v] \in Row(v) \cup {NoRow}
        BY <2>1, <2>2, StandingType, UserWritten
    <2>4. call' \in [Call -> CallType]
        BY <1>4, CallWritten DEF RequestDeletion, CallType
    <2> HIDE DEF u
    <2>5. /\ ListingsTyped'
          /\ requested' = [requested EXCEPT ![u] = "recently"]
          /\ earlier' \in [Identity -> SUBSET Call]
          /\ UNCHANGED <<mailbox, batch>>
        BY <1>4 DEF RequestDeletion, TypeOK, InProgress, u, ListingsTyped, Status
    <2> QED
        BY <2>1, <2>3, <2>4, <2>5 DEF TypeOK, ListingsTyped
<1>5. ASSUME NEW u \in Identity, RetentionEnds(u)
      PROVE  TypeOK'
    BY <1>5 DEF RetentionEnds, TypeOK, listings
<1>6. ASSUME NEW u \in Identity, Purge(u)
      PROVE  TypeOK'
    <2>1. user[u] # NoRow
        BY <1>6 DEF Purge, PurgedKnown
    <2>2. user' = [user EXCEPT ![u] = [user[u] EXCEPT !.email = Deleted(u), !.googleId = Nobody]]
        BY <1>6 DEF Purge, TypeOK
    <2>3. /\ user' \in [Identity -> AnyRow \cup {NoRow}]
          /\ \A v \in Identity : user'[v] \in Row(v) \cup {NoRow}
        BY <2>1, <2>2, StandingType, UserWritten
    <2>4. ListingsTyped'
        BY <1>6, AccountsAssumption DEF Purge, TypeOK, ListingsTyped, Status
    <2> QED
        BY <1>6, <2>3, <2>4 DEF Purge, TypeOK, ListingsTyped
<1>7. ASSUME NEW u \in Identity, Suspend(u) \/ Reinstate(u)
      PROVE  TypeOK'
    <2>1. PICK b \in BOOLEAN : user' = [user EXCEPT ![u] = [user[u] EXCEPT !.suspended = b]]
        BY <1>7 DEF Suspend, Reinstate, TypeOK
    <2>2. /\ user' \in [Identity -> AnyRow \cup {NoRow}]
          /\ \A v \in Identity : user'[v] \in Row(v) \cup {NoRow}
        BY <1>7, <2>1, StandingType, UserWritten DEF Suspend, Reinstate
    <2> QED
        BY <1>7, <2>2 DEF Suspend, Reinstate, TypeOK, listings, InProgress
<1>8. ASSUME PurgeReads \/ PurgeFails
      PROVE  TypeOK'
    BY <1>8 DEF PurgeReads, PurgeFails, TypeOK, listings, Due
<1>9. ASSUME NEW i \in Google, NEW a \in Address, ChangeAddress(i, a)
      PROVE  TypeOK'
    BY <1>9, AccountsAssumption DEF ChangeAddress, TypeOK, listings
<1>10. CASE UNCHANGED vars
    BY <1>10 DEF vars, TypeOK, listings
<1>11. ASSUME NEW l \in Listing, NEW st \in Status, AdminSetsStatus(l, st)
       PROVE  TypeOK'
    BY <1>11 DEF AdminSetsStatus, TypeOK, Status
<1> QED
    BY <1>1, <1>2, <1>3, <1>4, <1>5, <1>6, <1>7, <1>8, <1>9, <1>10, <1>11, ReportedUsers,
       SyncType, GuardLooksType, GuardEndsType
    DEF Next, Proceed, ActOnReport

-----------------------------------------------------------------------------
(* The invariant: a request that was admitted, or has found a row that was in good standing,     *)
(* either still has that row in good standing or is one of those that the account's blocking     *)
(* left in progress.                                                                             *)
Known(u, c) == user[u] # NoRow /\ (InGoodStanding(user[u]) \/ c \in earlier[u])

ActsKnown == \A c \in Call : call[c].flow = "act" => Known(call[c].as, c)

LooksKnown ==
    \A c \in Call : call[c].flow \in {"sync", "guard"} =>
        \A k \in Key : call[c].found[k] # NoRow =>
            /\ user[call[c].found[k].id] # NoRow
            /\ InGoodStanding(call[c].found[k]) => Known(call[c].found[k].id, c)

(* Those who asked for their deletion stay deactivated; when they are due, no request from       *)
(* before is left.                                                                               *)
RequestedOut ==
    \A u \in Identity : requested[u] # "no" =>
        /\ user[u] # NoRow /\ user[u].deactivated
        /\ requested[u] = "due" => earlier[u] = {}

AnonymousOut ==
    \A u \in Identity : Anonymous(u) =>
        user[u].deactivated /\ earlier[u] = {}

FoundAnonymous ==
    \A c \in Call : call[c].flow \in {"sync", "guard"} =>
        \A k \in Key :
            (call[c].found[k] # NoRow /\ call[c].found[k].email = Deleted(call[c].found[k].id))
                => call[c].found[k].deactivated

IInv ==
    /\ TypeOK /\ ActsKnown /\ LooksKnown
    /\ RequestedOut /\ batch \subseteq Due /\ AnonymousOut /\ FoundAnonymous

LEMMA Weaker ==
    ASSUME IInv
    PROVE  KnownRows /\ ActorsKnown /\ PurgedKnown
BY DEF IInv, ActsKnown, LooksKnown, RequestedOut, Due, KnownRows, ActorsKnown, PurgedKnown, Known

(* What a step does to what is known to a request. *)
Kept(d) == \A u \in Identity : Known(u, d) => (Known(u, d))'

RowsKept == \A u \in Identity : user[u] # NoRow => user'[u] # NoRow

(* What a step makes of a request: nothing, one that acts, or one that has found rows. *)
Joins(d) ==
    \/ call'[d].flow \notin {"sync", "guard", "act"}
    \/ Kept(d) /\ call'[d] = call[d]
    \/ call'[d].flow = "act" /\ (Known(call[d].as, d))'
    \/ /\ call'[d].flow \in {"sync", "guard"} /\ UNCHANGED <<user, earlier>>
       /\ \A k \in Key :
            \/ call'[d].found[k] = NoRow \/ call'[d].found[k] \in Rows
            \/ call[d].flow \in {"sync", "guard"} /\ call'[d].found[k] = call[d].found[k]

LEMMA KnownStep ==
    ASSUME IInv, RowsKept, \A d \in Call : Joins(d)
    PROVE  ActsKnown' /\ LooksKnown' /\ FoundAnonymous'
<1>1. ActsKnown'
    <2> SUFFICES ASSUME NEW d \in Call, call'[d].flow = "act"
                 PROVE  (Known(call[d].as, d))'
        BY DEF ActsKnown
    <2>1. CASE Kept(d) /\ call'[d] = call[d]
        BY <2>1, CallSorts DEF Kept, ActsKnown, IInv, Known
    <2> QED
        BY <2>1 DEF Joins
<1>2. LooksKnown'
    <2> SUFFICES ASSUME NEW d \in Call, call'[d].flow \in {"sync", "guard"},
                        NEW k \in Key, call'[d].found[k] # NoRow
                 PROVE  /\ user'[call'[d].found[k].id] # NoRow
                        /\ InGoodStanding(call'[d].found[k]) => (Known(call[d].found[k].id, d))'
        BY DEF LooksKnown
    <2>1. CASE Kept(d) /\ call'[d] = call[d]
        <3>1. call[d].found[k].id \in Identity
            BY <2>1, CallSorts, FoundRow, AnyRowFacts DEF IInv
        <3> QED
            BY <2>1, <3>1 DEF Kept, RowsKept, LooksKnown, IInv, Known
    <2>2. CASE UNCHANGED <<user, earlier>> /\ call'[d].found[k] \in Rows
        BY <2>2, RowFacts DEF IInv, Known
    <2>3. CASE /\ UNCHANGED <<user, earlier>> /\ call[d].flow \in {"sync", "guard"}
               /\ call'[d].found[k] = call[d].found[k]
        BY <2>3 DEF LooksKnown, IInv, Known
    <2> QED
        BY <2>1, <2>2, <2>3 DEF Joins
<1>3. FoundAnonymous'
    <2> SUFFICES ASSUME NEW d \in Call, call'[d].flow \in {"sync", "guard"},
                        NEW k \in Key, call'[d].found[k] # NoRow,
                        call'[d].found[k].email = Deleted(call'[d].found[k].id)
                 PROVE  call'[d].found[k].deactivated
        BY DEF FoundAnonymous, Deleted
    <2>1. CASE call'[d].found[k] \in Rows
        BY <2>1, RowFacts DEF IInv, AnonymousOut, Anonymous
    <2>2. CASE call[d].flow \in {"sync", "guard"} /\ call'[d].found[k] = call[d].found[k]
        BY <2>2 DEF IInv, FoundAnonymous
    <2> QED
        BY <2>1, <2>2 DEF Joins
<1> QED
    BY <1>1, <1>2, <1>3

(* A request that returns, or is admitted, while the others go on. *)
LEMMA ReturnJoins ==
    ASSUME IInv, NEW c \in Call, Return(c),
           \A u \in Identity : user[u] # NoRow =>
                user'[u] # NoRow /\ (InGoodStanding(user[u]) => InGoodStanding(user'[u]))
    PROVE  \A d \in Call : Joins(d)
<1>1. call'[c].flow \notin {"sync", "guard", "act"}
    BY DEF Return, IInv, TypeOK, Idle
<1>2. ASSUME NEW d \in Call, d # c
      PROVE  Kept(d) /\ call'[d] = call[d]
    BY <1>2 DEF Return, IInv, TypeOK, Kept, Known
<1> QED
    BY <1>1, <1>2 DEF Joins

LEMMA ContinueJoins ==
    ASSUME IInv, NEW c \in Call, NEW q, Continue(c, q),
           q.flow = "act" /\ (Known(q.as, c))',
           \A u \in Identity : user[u] # NoRow =>
                user'[u] # NoRow /\ (InGoodStanding(user[u]) => InGoodStanding(user'[u]))
    PROVE  \A d \in Call : Joins(d)
<1>1. call'[c] = q
    BY DEF Continue, IInv, TypeOK
<1>2. call'[c].flow = "act" /\ (Known(call[c].as, c))'
    BY <1>1 DEF Known
<1>3. ASSUME NEW d \in Call, d # c
      PROVE  Kept(d) /\ call'[d] = call[d]
    BY <1>3 DEF Continue, IInv, TypeOK, Kept, Known
<1> QED
    BY <1>2, <1>3 DEF Joins

-----------------------------------------------------------------------------
(* Each step, with what the two action properties say of it. *)
LinkStep ==
    \A u \in Identity : Anonymous(u) /\ user'[u].googleId \notin {user[u].googleId, Nobody}
                            => FoundByGuard(u)

AnonymousStep == (\A u \in Identity : Anonymous(u) => (Anonymous(u))') /\ LinkStep

BlockedStep ==
    \A u \in Identity :
        (user[u] # NoRow /\ ~InGoodStanding(user[u]) /\ earlier[u] = {})
            => \A l \in Offered(u)' \ Offered(u) : AdminSetsStatus(l, "ACTIVE")

LEMMA NothingOffered == UNCHANGED listings => BlockedStep
BY DEF BlockedStep, Offered, listings

Out == RequestedOut /\ batch \subseteq Due /\ AnonymousOut

Sound ==
    /\ ActsKnown' /\ LooksKnown' /\ FoundAnonymous' /\ Out'
    /\ AnonymousStep /\ BlockedStep

(* A step that leaves requests for deletion, and who is anonymous, alone. *)
LEMMA OutStep ==
    ASSUME IInv, UNCHANGED <<requested, batch>>,
           \A u \in Identity :
                /\ user[u] # NoRow => /\ user'[u] # NoRow
                                      /\ user[u].deactivated => user'[u].deactivated
                                      /\ user[u].deactivated => earlier'[u] \subseteq earlier[u]
                /\ (Anonymous(u))' <=> Anonymous(u),
           LinkStep
    PROVE  Out' /\ AnonymousStep
<1>1. RequestedOut'
    BY DEF IInv, RequestedOut
<1>2. (batch \subseteq Due)'
    BY DEF IInv, Due
<1>3. AnonymousOut'
    <2> SUFFICES ASSUME NEW u \in Identity, (Anonymous(u))'
                 PROVE  user'[u].deactivated /\ earlier'[u] = {}
        BY DEF AnonymousOut, Anonymous
    <2>1. Anonymous(u) /\ user[u] # NoRow
        BY DEF Anonymous
    <2> QED
        BY <2>1 DEF IInv, AnonymousOut
<1>4. AnonymousStep
    BY DEF AnonymousStep
<1> QED
    BY <1>1, <1>2, <1>3, <1>4 DEF Out

LEMMA BeginStep ==
    ASSUME IInv, NEW c \in Call, NEW i \in Identity, SignIn(c, i) \/ Guard(c, i)
    PROVE  Sound
<1>1. UNCHANGED <<user, requested, listings, batch, earlier>>
    BY DEF SignIn, Guard, Begin
<1>2. PICK flow \in {"sync", "guard"} : call' = [call EXCEPT ![c] = Search(i, flow)]
    BY DEF SignIn, Guard, Begin
<1>3. ASSUME NEW d \in Call
      PROVE  Joins(d)
    <2>1. CASE d = c
        BY <1>1, <1>2, <2>1 DEF Joins, Search, IInv, TypeOK
    <2>2. CASE d # c
        BY <1>1, <1>2, <2>2 DEF Joins, Kept, Known, IInv, TypeOK
    <2> QED
        BY <2>1, <2>2
<1>4. RowsKept /\ BlockedStep
    BY <1>1, NothingOffered DEF RowsKept
<1>5. Out' /\ AnonymousStep
    BY <1>1, OutStep DEF Anonymous, Deleted, IInv, AnonymousOut, LinkStep
<1> QED
    BY <1>3, <1>4, <1>5, KnownStep DEF Sound

LEMMA LookStep ==
    ASSUME IInv, NEW c \in Call, NEW s \in Key,
           Continue(c, Found(call[c], s)), call[c].flow \in {"sync", "guard"},
           UNCHANGED <<user, requested, listings, batch>>
    PROVE  Sound
<1>1. call[c] \in SearchType /\ call'[c] = Found(call[c], s) /\ UNCHANGED earlier
    BY CallSorts DEF IInv, TypeOK, Continue
<1>2. ASSUME NEW k \in Key
      PROVE  \/ call'[c].found[k] = NoRow \/ call'[c].found[k] \in Rows
             \/ call'[c].found[k] = call[c].found[k]
    BY <1>1, LookupFact DEF Found, SearchType
<1>3. call'[c].flow = call[c].flow
    BY <1>1 DEF Found, SearchType
<1>4. ASSUME NEW d \in Call
      PROVE  Joins(d)
    <2>1. CASE d = c
        BY <1>1, <1>2, <1>3, <2>1 DEF Joins
    <2>2. CASE d # c
        BY <1>1, <2>2 DEF Joins, Kept, Known, IInv, TypeOK, Continue
    <2> QED
        BY <2>1, <2>2
<1>5. RowsKept /\ BlockedStep
    BY NothingOffered DEF RowsKept
<1>6. Out' /\ AnonymousStep
    BY <1>1, OutStep DEF Anonymous, Deleted, IInv, AnonymousOut, LinkStep
<1> QED
    BY <1>4, <1>5, <1>6, KnownStep DEF Sound

(* Writing a row that keeps its standing and does not become, or cease to be, anonymous. *)
LEMMA WriteStep ==
    ASSUME IInv, NEW c \in Call, UNCHANGED <<requested, listings, batch>>, LinkStep,
           \A u \in Identity :
                /\ user[u] # NoRow =>
                        /\ user'[u] # NoRow
                        /\ InGoodStanding(user[u]) => InGoodStanding(user'[u])
                        /\ user[u].deactivated => user'[u].deactivated
                /\ (Anonymous(u))' <=> Anonymous(u),
           \/ Return(c)
           \/ \E q : Continue(c, q) /\ q.flow = "act" /\ (Known(q.as, c))'
    PROVE  Sound
<1>1. \A d \in Call : Joins(d)
    BY ReturnJoins, ContinueJoins
<1>2. RowsKept /\ BlockedStep
    BY NothingOffered DEF RowsKept
<1>3. \A u \in Identity : earlier'[u] \subseteq earlier[u]
    BY DEF Return, Continue
<1>4. Out' /\ AnonymousStep
    BY <1>3, OutStep DEF IInv, AnonymousOut
<1> QED
    BY <1>1, <1>2, <1>4, KnownStep DEF Sound

(* A new row is in good standing and has an address. *)
LEMMA Created ==
    ASSUME IInv, NEW c \in Call, call[c].flow \in {"sync", "guard"}, CreateUser(call[c])
    PROVE  /\ call[c].sub \in Identity
           /\ user[call[c].sub] = NoRow
           /\ user' = [user EXCEPT ![call[c].sub] = NewRow(call[c])]
           /\ NewRow(call[c]) # NoRow /\ InGoodStanding(NewRow(call[c]))
           /\ \A u \in Identity : (Anonymous(u))' <=> Anonymous(u)
<1> DEFINE q == call[c]
<1>1. q \in SearchType /\ q.sub \in Identity /\ q.email \in Address
    BY CallSorts DEF IInv, SearchType
<1>2. user[q.sub] = NoRow /\ user' = [user EXCEPT ![q.sub] = NewRow(q)]
    BY DEF CreateUser, CanCreate
<1>3. NewRow(q) # NoRow
    BY <1>1, NewRowType, RowIsAny, NoRowAssumption
<1>4. InGoodStanding(NewRow(q)) /\ NewRow(q).email = q.email
    BY DEF InGoodStanding, NewRow
<1>5. ASSUME NEW u \in Identity
      PROVE  (Anonymous(u))' <=> Anonymous(u)
    <2>1. q.email # Deleted(u)
        BY <1>1, AccountsAssumption
    <2>2. (Anonymous(u))' <=> (user'[u] # NoRow /\ user'[u].email = Deleted(u))
        BY DEF Anonymous, Deleted
    <2> QED
        BY <1>1, <1>2, <1>4, <2>1, <2>2 DEF Anonymous, IInv, TypeOK
<1> QED
    BY <1>1, <1>2, <1>3, <1>4, <1>5

LEMMA SyncStep ==
    ASSUME IInv, NEW c \in Call, Sync(c)
    PROVE  Sound
<1> DEFINE q == call[c]  r == Existing(q)
<1>1. Return(c) /\ UNCHANGED <<requested, listings, batch>> /\ q.flow = "sync"
    BY DEF Sync
<1>2. CASE CreateUser(q)
    <2>1. \A u \in Identity : user[u] # NoRow => user'[u] = user[u]
        BY <1>1, <1>2, Created DEF IInv, TypeOK
    <2>2. \A u \in Identity : (Anonymous(u))' <=> Anonymous(u)
        BY <1>1, <1>2, Created
    <2>3. LinkStep
        BY <2>1 DEF LinkStep, Anonymous
    <2> QED
        BY <1>1, <2>1, <2>2, <2>3, WriteStep
<1>3. CASE r # NoRow /\ InGoodStanding(r) /\ user' = [user EXCEPT ![r.id] = Synced(q)]
    <2>1. /\ r.id \in Identity /\ user[r.id] # NoRow /\ Synced(q) \in Row(r.id)
          /\ Synced(q).suspended = user[r.id].suspended
          /\ Synced(q).deactivated = user[r.id].deactivated
        BY <1>1, <1>3, SyncedType, Weaker DEF IInv
    <2>2. Synced(q) # NoRow
        BY <2>1, RowIsAny, NoRowAssumption
    <2>3. PICK k \in Key : r = q.found[k]
        BY <1>1, <1>3, CallSorts, ExistingFact DEF IInv
    <2>4. Known(r.id, c) /\ r.email # Deleted(r.id)
        BY <1>1, <1>3, <2>3 DEF IInv, LooksKnown, FoundAnonymous, InGoodStanding
    <2>5. ~Anonymous(r.id)
        BY <2>1, <2>4 DEF IInv, AnonymousOut, Known, InGoodStanding
    <2>6. Synced(q).email # Deleted(r.id)
        <3>1. q.email \in Address /\ user[r.id] \in Row(r.id)
            BY <1>1, <2>1, CallSorts, RowAt DEF IInv, SearchType
        <3>2. q.email # Deleted(r.id)
            BY <2>1, <3>1, AccountsAssumption
        <3>3. Synced(q).email \in {q.email, r.email}
            BY <3>1 DEF Synced, Row
        <3> QED
            BY <2>4, <3>2, <3>3
    <2>7. ASSUME NEW u \in Identity
          PROVE  (Anonymous(u))' <=> Anonymous(u)
        <3>1. (Anonymous(u))' <=> (user'[u] # NoRow /\ user'[u].email = Deleted(u))
            BY DEF Anonymous, Deleted
        <3> QED
            BY <1>3, <2>1, <2>5, <2>6, <3>1 DEF Anonymous, IInv, TypeOK
    <2>8. ASSUME NEW u \in Identity, user[u] # NoRow
          PROVE  /\ user'[u] # NoRow
                 /\ InGoodStanding(user[u]) => InGoodStanding(user'[u])
                 /\ user[u].deactivated => user'[u].deactivated
        BY <1>3, <2>1, <2>2, <2>8 DEF InGoodStanding, IInv, TypeOK
    <2>9. LinkStep
        BY <1>3, <2>1, <2>5 DEF LinkStep, IInv, TypeOK
    <2> QED
        BY <1>1, <2>7, <2>8, <2>9, WriteStep
<1>4. CASE UNCHANGED user
    BY <1>1, <1>4, WriteStep DEF Anonymous, Deleted, LinkStep
<1> QED
    BY <1>2, <1>3, <1>4 DEF Sync

(* Admitting a row that is known. *)
LEMMA AdmitStep ==
    ASSUME IInv, NEW c \in Call, NEW r, Admit(c, r), LinkStep,
           UNCHANGED <<requested, listings, batch>>,
           InGoodStanding(r) => user'[r.id] # NoRow /\ (InGoodStanding(user'[r.id]) \/ c \in earlier[r.id]),
           \A u \in Identity :
                /\ user[u] # NoRow =>
                        /\ user'[u] # NoRow
                        /\ InGoodStanding(user[u]) => InGoodStanding(user'[u])
                        /\ user[u].deactivated => user'[u].deactivated
                /\ (Anonymous(u))' <=> Anonymous(u)
    PROVE  Sound
<1>1. CASE InGoodStanding(r)
    <2> DEFINE q == [flow |-> "act", as |-> r.id]
    <2>1. Continue(c, q) /\ earlier' = earlier
        BY <1>1 DEF Admit, Continue
    <2>2. q.flow = "act" /\ (Known(q.as, c))'
        BY <1>1, <2>1 DEF Known
    <2> QED
        BY <2>1, <2>2, WriteStep
<1>2. CASE ~InGoodStanding(r)
    BY <1>2, WriteStep DEF Admit
<1> QED
    BY <1>1, <1>2

LEMMA GuardLooksStep ==
    ASSUME IInv, NEW c \in Call, GuardLooks(c)
    PROVE  Sound
<1>1. call[c].flow = "guard" /\ UNCHANGED <<user, requested, listings, batch>>
    BY DEF GuardLooks
<1>2. PICK k \in Key : k = Following(call[c].todo)
    BY FollowingKey
<1> DEFINE r == Found(call[c], k).found[k]
<1>3. CASE Continue(c, Found(call[c], k))
    BY <1>1, <1>3, LookStep
<1>4. CASE r # NoRow /\ Admit(c, r)
    <2>1. call[c] \in SearchType
        BY <1>1, CallSorts DEF IInv
    <2>2. r = Lookup(k, call[c])
        BY <2>1 DEF Found, SearchType
    <2>3. r \in Rows
        BY <1>4, <2>2, LookupFact
    <2>4. InGoodStanding(r) => user[r.id] # NoRow /\ InGoodStanding(user[r.id])
        BY <1>4, <2>3, RowFacts DEF IInv
    <2> HIDE DEF r
    <2> QED
        BY <1>1, <1>4, <2>4, AdmitStep DEF Anonymous, Deleted, LinkStep
<1> QED
    BY <1>2, <1>3, <1>4 DEF GuardLooks

LEMMA GuardEndsStep ==
    ASSUME IInv, NEW c \in Call, GuardEnds(c)
    PROVE  Sound
<1> DEFINE q == call[c]  r == q.found["email"]
<1>1. q.flow = "guard" /\ UNCHANGED <<requested, listings, batch>>
    BY DEF GuardEnds
<1>2. CASE CreateUser(q) /\ Continue(c, [flow |-> "act", as |-> q.sub])
    <2>1. \A u \in Identity : user[u] # NoRow => user'[u] = user[u]
        BY <1>1, <1>2, Created DEF IInv, TypeOK
    <2>2. \A u \in Identity : (Anonymous(u))' <=> Anonymous(u)
        BY <1>1, <1>2, Created
    <2>3. user'[q.sub] # NoRow /\ InGoodStanding(user'[q.sub])
        BY <1>1, <1>2, Created DEF IInv, TypeOK
    <2>4. \E a : Continue(c, a) /\ a.flow = "act" /\ (Known(a.as, c))'
        <3>1. PICK i : i = q.sub
            OBVIOUS
        <3> DEFINE a == [flow |-> "act", as |-> i]
        <3>2. Continue(c, a)
            BY <1>2, <3>1
        <3>3. (Known(i, c))'
            BY <2>3, <3>1 DEF Known
        <3> QED
            BY <3>2, <3>3
    <2>5. LinkStep
        BY <2>1 DEF LinkStep, Anonymous
    <2> QED
        BY <1>1, <2>1, <2>2, <2>4, <2>5, WriteStep
<1>3. CASE Return(c) /\ UNCHANGED user
    BY <1>1, <1>3, WriteStep DEF Anonymous, Deleted, LinkStep
<1>4. CASE r # NoRow /\ user' = [user EXCEPT ![r.id] = Linked(q)] /\ Admit(c, Linked(q))
    <2>1. /\ r.id \in Identity /\ user[r.id] # NoRow
          /\ Linked(q) \in Row(r.id) /\ Linked(q).email = user[r.id].email
          /\ Linked(q).suspended = user[r.id].suspended
          /\ Linked(q).deactivated = user[r.id].deactivated
        BY <1>1, <1>4, LinkedType, Weaker DEF IInv
    <2>2. Linked(q) # NoRow /\ Linked(q).id = r.id
        BY <2>1, RowIsAny, NoRowAssumption DEF Row
    <2>3. user'[r.id] = Linked(q)
        BY <1>4, <2>1 DEF IInv, TypeOK
    <2>4. ASSUME NEW u \in Identity
          PROVE  (Anonymous(u))' <=> Anonymous(u)
        <3>1. (Anonymous(u))' <=> (user'[u] # NoRow /\ user'[u].email = Deleted(u))
            BY DEF Anonymous, Deleted
        <3> QED
            BY <1>4, <2>1, <2>2, <2>3, <3>1 DEF Anonymous, IInv, TypeOK
    <2>5. ASSUME NEW u \in Identity, user[u] # NoRow
          PROVE  /\ user'[u] # NoRow
                 /\ InGoodStanding(user[u]) => InGoodStanding(user'[u])
                 /\ user[u].deactivated => user'[u].deactivated
        BY <1>4, <2>1, <2>2, <2>3, <2>5 DEF InGoodStanding, IInv, TypeOK
    <2>6. InGoodStanding(Linked(q)) => user'[Linked(q).id] # NoRow /\ InGoodStanding(user'[Linked(q).id])
        BY <2>2, <2>3
    <2>7. LinkStep
        <3>1. \A u \in Identity : u # r.id => user'[u] = user[u]
            BY <1>4, <2>1 DEF IInv, TypeOK
        <3>2. FoundByGuard(r.id)
            BY <1>1, <1>4 DEF GuardEnds, FoundByGuard
        <3> QED
            BY <3>1, <3>2 DEF LinkStep
    <2> QED
        BY <1>1, <1>4, <2>4, <2>5, <2>6, <2>7, AdmitStep
<1>5. CASE r # NoRow /\ Admit(c, r) /\ UNCHANGED user
    <2>1. InGoodStanding(r) => user[r.id] # NoRow /\ (InGoodStanding(user[r.id]) \/ c \in earlier[r.id])
        BY <1>1, <1>5 DEF IInv, LooksKnown, Known, Key
    <2> QED
        BY <1>1, <1>5, <2>1, AdmitStep DEF Anonymous, Deleted, LinkStep
<1> QED
    BY <1>2, <1>3, <1>4, <1>5 DEF GuardEnds

LEMMA ActStep ==
    ASSUME IInv, NEW c \in Call, Act(c)
    PROVE  Sound
<1> DEFINE v == call[c].as
<1>1. v \in Identity /\ Known(v, c) /\ Return(c) /\ UNCHANGED <<user, requested, batch>>
    BY ActorType DEF Act, IInv, ActsKnown
<1>2. \A l \in Listing : owner'[l] = v \/ (owner'[l] = owner[l] /\ status'[l] = status[l])
    BY <1>1, AccountsAssumption DEF Act, IInv, TypeOK, listings
<1>3. BlockedStep
    <2> SUFFICES ASSUME NEW u \in Identity, user[u] # NoRow, ~InGoodStanding(user[u]), earlier[u] = {},
                        NEW l \in Offered(u)' \ Offered(u)
                 PROVE  FALSE
        BY DEF BlockedStep
    <2>1. u # v
        BY <1>1 DEF Known
    <2> QED
        BY <1>2, <2>1 DEF Offered
<1>4. (\A d \in Call : Joins(d)) /\ RowsKept
    BY <1>1, ReturnJoins DEF RowsKept
<1>5. Out' /\ AnonymousStep
    BY <1>1, OutStep DEF Anonymous, Deleted, Return, LinkStep
<1> QED
    BY <1>3, <1>4, <1>5, KnownStep DEF Sound

(* An administrator's word on a listing. *)
LEMMA AdminStep ==
    ASSUME IInv, NEW l \in Listing, NEW st \in Status, AdminSetsStatus(l, st)
    PROVE  Sound
<1>1. UNCHANGED <<user, requested, owner, call, earlier, batch>>
    BY DEF AdminSetsStatus
<1>2. (\A d \in Call : Joins(d)) /\ RowsKept
    BY <1>1 DEF Joins, Kept, Known, RowsKept
<1>3. BlockedStep
    <2> SUFFICES ASSUME NEW u \in Identity, NEW k \in Offered(u)' \ Offered(u)
                 PROVE  AdminSetsStatus(k, "ACTIVE")
        BY DEF BlockedStep
    <2>1. k \in Listing /\ status'[k] = "ACTIVE" /\ status[k] # "ACTIVE"
        BY <1>1 DEF Offered
    <2>2. k = l /\ st = "ACTIVE"
        BY <2>1 DEF AdminSetsStatus, IInv, TypeOK
    <2> QED
        BY <2>2
<1>4. Out' /\ AnonymousStep
    BY <1>1, OutStep DEF Anonymous, Deleted, LinkStep
<1> QED
    BY <1>2, <1>3, <1>4, KnownStep DEF Sound

LEMMA RequestDeletionStep ==
    ASSUME IInv, NEW c \in Call, RequestDeletion(c)
    PROVE  Sound
<1> DEFINE v == call[c].as
<1>1. v \in Identity /\ Known(v, c) /\ user[v] \in Row(v)
    BY ActorType, RowAt DEF RequestDeletion, IInv, ActsKnown, Known
<1>2. /\ user' = [user EXCEPT ![v] = [user[v] EXCEPT !.deactivated = TRUE]]
      /\ requested' = [requested EXCEPT ![v] = "recently"]
      /\ \A l \in Listing : owner'[l] = owner[l] /\ (status'[l] = "ACTIVE" => status[l] = "ACTIVE")
      /\ earlier' = [u \in Identity |-> (IF u = v THEN InProgress ELSE earlier[u]) \ {c}]
      /\ call' = [call EXCEPT ![c] = Idle] /\ batch' = batch
    BY DEF RequestDeletion, IInv, TypeOK
<1> HIDE DEF v
<1>3. /\ user'[v] \in Row(v) /\ user'[v].email = user[v].email
      /\ user'[v].deactivated /\ user'[v] # NoRow
    <2>1. user'[v] = [user[v] EXCEPT !.deactivated = TRUE]
        BY <1>1, <1>2 DEF IInv, TypeOK
    <2>2. user'[v] \in Row(v) /\ user'[v].email = user[v].email /\ user'[v].deactivated
        BY <1>1, <2>1 DEF Row
    <2> QED
        BY <1>1, <2>2, RowIsAny, NoRowAssumption
<1>4. \A u \in Identity : u # v => user'[u] = user[u] /\ requested'[u] = requested[u]
    BY <1>2 DEF IInv, TypeOK
<1>5. ASSUME NEW d \in Call
      PROVE  Joins(d)
    <2>1. CASE d = c
        BY <1>2, <2>1 DEF Joins, IInv, TypeOK, Idle
    <2>2. CASE d # c /\ call[d] # Idle
        BY <1>2, <1>3, <1>4, <2>2 DEF Joins, Kept, Known, IInv, TypeOK, InProgress
    <2>3. CASE d # c /\ call[d] = Idle
        BY <1>2, <2>3 DEF Joins, Idle, IInv, TypeOK
    <2> QED
        BY <2>1, <2>2, <2>3
<1>6. requested[v] # "due" /\ ~Anonymous(v)
    BY <1>1 DEF IInv, RequestedOut, AnonymousOut, Known, InGoodStanding
<1>7. RequestedOut'
    BY <1>1, <1>2, <1>3, <1>4 DEF RequestedOut, IInv, TypeOK
<1>8. (batch \subseteq Due)'
    BY <1>2, <1>4, <1>6 DEF Due, IInv
<1>9. ASSUME NEW u \in Identity
      PROVE  ((Anonymous(u))' <=> Anonymous(u)) /\ (Anonymous(u) => u # v)
    <2>1. (Anonymous(u))' <=> (user'[u] # NoRow /\ user'[u].email = Deleted(u))
        BY DEF Anonymous, Deleted
    <2> QED
        BY <1>1, <1>3, <1>4, <1>6, <2>1 DEF Anonymous, Known
<1>10. AnonymousOut'
    BY <1>2, <1>4, <1>9 DEF AnonymousOut, IInv
<1>11. AnonymousStep /\ BlockedStep /\ RowsKept
    BY <1>1, <1>2, <1>3, <1>4, <1>9 DEF AnonymousStep, LinkStep, BlockedStep, Offered, RowsKept
<1> QED
    BY <1>5, <1>7, <1>8, <1>10, <1>11, KnownStep DEF Sound, Out

LEMMA PurgeStep ==
    ASSUME IInv, NEW v \in Identity, Purge(v)
    PROVE  Sound
<1>1. user[v] # NoRow /\ user[v].deactivated /\ earlier[v] = {} /\ user[v] \in Row(v)
    BY RowAt DEF Purge, IInv, Due, RequestedOut
<1>2. /\ user' = [user EXCEPT ![v] = [user[v] EXCEPT !.email = Deleted(v), !.googleId = Nobody]]
      /\ requested' = [requested EXCEPT ![v] = "no"]
      /\ \A l \in Listing : owner'[l] = owner[l] /\ (status'[l] = "ACTIVE" => status[l] = "ACTIVE")
      /\ batch' = batch \ {v} /\ UNCHANGED <<call, earlier>>
    BY DEF Purge, IInv, TypeOK
<1>3. /\ user'[v] # NoRow /\ user'[v].email = Deleted(v) /\ user'[v].googleId = Nobody
      /\ user'[v].suspended = user[v].suspended /\ user'[v].deactivated
    <2>1. user'[v] = [user[v] EXCEPT !.email = Deleted(v), !.googleId = Nobody]
        BY <1>2 DEF IInv, TypeOK
    <2>2. /\ user'[v] \in Row(v) /\ user'[v].email = Deleted(v) /\ user'[v].googleId = Nobody
          /\ user'[v].suspended = user[v].suspended /\ user'[v].deactivated
        BY <1>1, <2>1 DEF Row
    <2> QED
        BY <2>2, RowIsAny, NoRowAssumption
<1>4. \A u \in Identity : u # v => user'[u] = user[u] /\ requested'[u] = requested[u]
    BY <1>2 DEF IInv, TypeOK
<1>5. \A d \in Call : Joins(d)
    BY <1>1, <1>2, <1>3, <1>4 DEF Joins, Kept, Known, InGoodStanding
<1>6. RequestedOut' /\ (batch \subseteq Due)'
    <2>1. requested'[v] = "no"
        BY <1>2 DEF IInv, TypeOK
    <2>2. RequestedOut'
        BY <1>2, <1>4, <2>1 DEF RequestedOut, IInv
    <2>3. \A u \in batch' : u \in Identity /\ u # v /\ requested[u] = "due"
        BY <1>2 DEF Due, IInv
    <2> QED
        BY <1>4, <2>2, <2>3 DEF Due
<1>7. ASSUME NEW u \in Identity
      PROVE  (Anonymous(u))' <=> (u = v \/ Anonymous(u))
    <2>1. (Anonymous(u))' <=> (user'[u] # NoRow /\ user'[u].email = Deleted(u))
        BY DEF Anonymous, Deleted
    <2> QED
        BY <1>3, <1>4, <2>1 DEF Anonymous
<1>8. AnonymousOut'
    BY <1>1, <1>2, <1>3, <1>4, <1>7 DEF AnonymousOut, IInv, TypeOK
<1>9. AnonymousStep /\ BlockedStep /\ RowsKept
    BY <1>2, <1>3, <1>4, <1>7 DEF AnonymousStep, LinkStep, BlockedStep, Offered, RowsKept
<1> QED
    BY <1>5, <1>6, <1>8, <1>9, KnownStep DEF Sound, Out

LEMMA ModerationStep ==
    ASSUME IInv, NEW v \in Identity, Suspend(v) \/ Reinstate(v)
    PROVE  Sound
<1>1. user[v] # NoRow /\ user[v] \in Row(v) /\ UNCHANGED <<requested, listings, call, batch>>
    BY RowAt DEF Suspend, Reinstate, IInv
<1>2. /\ user'[v] # NoRow /\ user'[v].email = user[v].email /\ user'[v].googleId = user[v].googleId
      /\ user'[v].deactivated = user[v].deactivated
    <2>1. PICK b \in BOOLEAN : user'[v] = [user[v] EXCEPT !.suspended = b]
        BY DEF Suspend, Reinstate, IInv, TypeOK
    <2>2. /\ user'[v] \in Row(v) /\ user'[v].email = user[v].email
          /\ user'[v].googleId = user[v].googleId
          /\ user'[v].deactivated = user[v].deactivated
        BY <1>1, <2>1 DEF Row
    <2> QED
        BY <2>2, RowIsAny, NoRowAssumption
<1>3. \A u \in Identity : u # v => user'[u] = user[u] /\ earlier'[u] = earlier[u]
    BY DEF Suspend, Reinstate, IInv, TypeOK
<1>4. ~InGoodStanding(user[v]) => earlier'[v] = earlier[v]
    BY DEF Suspend, Reinstate, IInv, TypeOK
<1>5. \/ earlier'[v] = InProgress
      \/ ~InGoodStanding(user[v]) /\ earlier'[v] = earlier[v]
      \/ InGoodStanding(user[v]) => InGoodStanding(user'[v])
    <2>1. CASE Suspend(v)
        BY <2>1 DEF Suspend, IInv, TypeOK
    <2>2. CASE Reinstate(v)
        <3>1. user'[v] = [user[v] EXCEPT !.suspended = FALSE]
            BY <2>2 DEF Reinstate, IInv, TypeOK
        <3> QED
            BY <1>1, <3>1 DEF InGoodStanding, Row
    <2> QED
        BY <2>1, <2>2
<1>6. ASSUME NEW d \in Call
      PROVE  Joins(d)
    <2>1. CASE call[d] = Idle
        BY <1>1, <2>1 DEF Joins, Idle
    <2>2. CASE call[d] # Idle
        BY <1>1, <1>2, <1>3, <1>4, <1>5, <2>2 DEF Joins, Kept, Known, InProgress
    <2> QED
        BY <2>1, <2>2
<1>7. ASSUME NEW u \in Identity
      PROVE  (Anonymous(u))' <=> Anonymous(u)
    <2>1. (Anonymous(u))' <=> (user'[u] # NoRow /\ user'[u].email = Deleted(u))
        BY DEF Anonymous, Deleted
    <2> QED
        BY <1>1, <1>2, <1>3, <2>1 DEF Anonymous
<1>8. user[v].deactivated => earlier'[v] \subseteq earlier[v]
    BY <1>4 DEF InGoodStanding
<1>9. Out' /\ AnonymousStep
    BY <1>1, <1>2, <1>3, <1>7, <1>8, OutStep DEF LinkStep
<1>10. RowsKept /\ BlockedStep
    BY <1>1, <1>2, <1>3, NothingOffered DEF RowsKept
<1> QED
    BY <1>6, <1>9, <1>10, KnownStep DEF Sound

(* Steps that touch neither the rows nor the requests. *)
LEMMA QuietStep ==
    ASSUME IInv,
           \/ \E v \in Identity : RetentionEnds(v)
           \/ PurgeReads \/ PurgeFails \/ (\E i \in Google, a \in Address : ChangeAddress(i, a))
           \/ UNCHANGED vars
    PROVE  Sound
<1>1. UNCHANGED <<user, listings, call, earlier>>
    BY DEF RetentionEnds, PurgeReads, PurgeFails, ChangeAddress, vars
<1>2. (\A d \in Call : Joins(d)) /\ RowsKept /\ BlockedStep
    BY <1>1, NothingOffered DEF Joins, Kept, Known, RowsKept
<1>3. /\ RequestedOut' /\ (batch \subseteq Due)'
    BY DEF RetentionEnds, PurgeReads, PurgeFails, ChangeAddress, vars, IInv, TypeOK, RequestedOut, Due
<1>4. AnonymousOut' /\ AnonymousStep
    BY <1>1 DEF IInv, AnonymousOut, AnonymousStep, LinkStep, Anonymous, Deleted
<1> QED
    BY <1>1, <1>2, <1>3, <1>4, KnownStep DEF Sound, Out

LEMMA SoundStep ==
    ASSUME IInv, [Next]_vars
    PROVE  Sound
<1>1. \A c \in Call : \A k \in Key : Look(c, k) => Sound
    BY LookStep DEF Look
<1> QED
    BY <1>1, ReportedUsers, AdminStep, BeginStep, SyncStep, GuardLooksStep, GuardEndsStep, ActStep, RequestDeletionStep,
       PurgeStep, ModerationStep, QuietStep
    DEF Next, Proceed, ActOnReport

LEMMA IInvInit == Init => IInv
<1> SUFFICES ASSUME Init PROVE IInv
    OBVIOUS
<1>1. TypeOK
    BY AccountsAssumption DEF Init, TypeOK, CallType
<1>2. ActsKnown /\ LooksKnown /\ FoundAnonymous
    BY DEF Init, Idle, ActsKnown, LooksKnown, FoundAnonymous
<1> QED
    BY <1>1, <1>2 DEF Init, IInv, RequestedOut, Due, AnonymousOut, Anonymous

LEMMA IInvStep == IInv /\ [Next]_vars => IInv'
BY TypeStep, Weaker, SoundStep DEF IInv, Sound, Out

THEOREM AccountsInvariant == Spec => []IInv
<1> QED
    BY IInvInit, IInvStep, PTL DEF Spec

(* Rows, requests in progress and the purge keep their types, and no request or purge refers to   *)
(* a row that does not exist (auth.service.ts:479, user.service.ts:205).                           *)
THEOREM TypeCorrect == Spec => [](TypeOK /\ KnownRows /\ PurgedKnown)
<1>1. IInv => TypeOK /\ KnownRows /\ PurgedKnown
    BY Weaker DEF IInv
<1> QED
    BY <1>1, AccountsInvariant, PTL

(* A purged account keeps its anonymous address and is never acted for again; its Google identity  *)
(* comes back only by a guard that had found the row before the purge (cognito-auth.service.ts:107). *)
THEOREM Anonymised == Spec => AnonymousStays
<1>1. ASSUME IInv, [Next]_vars, NEW u \in Identity, Anonymous(u)
      PROVE  /\ (Anonymous(u))'
             /\ \A c \in Call : call'[c].flow = "act" => call'[c].as # u
             /\ user'[u].googleId \notin {user[u].googleId, Nobody} => FoundByGuard(u)
    <2>1. (Anonymous(u))' /\ ActsKnown' /\ AnonymousOut'
        BY <1>1, SoundStep DEF Sound, AnonymousStep, Out
    <2>2. user'[u].deactivated /\ earlier'[u] = {}
        BY <2>1 DEF AnonymousOut
    <2>3. \A c \in Call : call'[c].flow = "act" => call'[c].as # u
        BY <2>1, <2>2 DEF ActsKnown, Known, InGoodStanding
    <2> QED
        BY <1>1, <2>1, <2>3, SoundStep DEF Sound, AnonymousStep, LinkStep
<1>2. IInv /\ [Next]_vars =>
        [\A u \in Identity : Anonymous(u) =>
            /\ (Anonymous(u))'
            /\ \A c \in Call : call'[c].flow = "act" => call'[c].as # u
            /\ user'[u].googleId \notin {user[u].googleId, Nobody} => FoundByGuard(u)]_vars
    BY <1>1
<1> QED
    BY <1>2, AccountsInvariant, PTL DEF Spec, AnonymousStays

(* A blocked account offers nothing new once the requests from before have ended, however many    *)
(* identities, listings and requests there are, unless an administrator puts it on offer.          *)
THEOREM Blocked == Spec => BlockedIsOut
<1>1. IInv /\ [Next]_vars =>
        [\A u \in Identity :
            (user[u] # NoRow /\ ~InGoodStanding(user[u]) /\ earlier[u] = {})
                => \A l \in Offered(u)' \ Offered(u) : AdminSetsStatus(l, "ACTIVE")]_vars
    BY SoundStep DEF Sound, BlockedStep
<1> QED
    BY <1>1, AccountsInvariant, PTL DEF Spec, BlockedIsOut

-----------------------------------------------------------------------------
(* Addresses and Google identities are unique, so that a refusal has a race to blame.            *)
UniqueRows ==
    \A r, x \in Rows : r.id # x.id =>
        r.email # x.email /\ (r.googleId = x.googleId => r.googleId = Nobody)

LEMMA WriteUnique ==
    ASSUME TypeOK, UniqueRows, NEW u \in Identity, NEW w \in Row(u),
           user' = [user EXCEPT ![u] = w],
           \A x \in Rows : x.id # u =>
                x.email # w.email /\ (x.googleId = w.googleId => w.googleId = Nobody)
    PROVE  UniqueRows'
<1>1. w.id = u
    BY DEF Row
<1>2. \A x \in Rows' : x = w \/ (x \in Rows /\ x.id # u)
    <2> SUFFICES ASSUME NEW v \in Identity, user'[v] # NoRow
                 PROVE  user'[v] = w \/ (user'[v] \in Rows /\ user'[v].id # u)
        BY DEF Rows
    <2>1. CASE v = u
        BY <2>1 DEF TypeOK
    <2>2. CASE v # u
        BY <2>2, RowAt DEF TypeOK
    <2> QED
        BY <2>1, <2>2
<1> QED
    BY <1>1, <1>2 DEF UniqueRows

LEMMA Unclashed ==
    ASSUME NEW w, ~Clashes(w)
    PROVE  \A x \in Rows : x.id # w.id =>
                x.email # w.email /\ (x.googleId = w.googleId => w.googleId = Nobody)
BY DEF Clashes

(* A row that is rewritten with the same keys. *)
LEMMA SameKeys ==
    ASSUME TypeOK, UniqueRows, NEW u \in Identity, user[u] # NoRow, NEW w \in Row(u),
           w.email = user[u].email, w.googleId = user[u].googleId
    PROVE  \A x \in Rows : x.id # u =>
                x.email # w.email /\ (x.googleId = w.googleId => w.googleId = Nobody)
BY RowAt DEF UniqueRows

LEMMA UniqueStep ==
    ASSUME IInv, UniqueRows, [Next]_vars
    PROVE  UniqueRows'
<1> USE DEF IInv
<1>1. CASE UNCHANGED user
    BY <1>1 DEF UniqueRows, Rows
<1>2. ASSUME NEW c \in Call, call[c].flow \in {"sync", "guard"}, CreateUser(call[c])
      PROVE  UniqueRows'
    <2>1. NewRow(call[c]) \in Row(call[c].sub) /\ NewRow(call[c]).id = call[c].sub
        BY <1>2, CallSorts, NewRowType DEF NewRow
    <2>2. ~Clashes(NewRow(call[c]))
        BY <1>2 DEF CreateUser, CanCreate
    <2> QED
        BY <1>2, <2>1, <2>2, Created, Unclashed, WriteUnique
<1>3. ASSUME NEW c \in Call, Sync(c)
      PROVE  UniqueRows'
    <2> DEFINE q == call[c]  r == Existing(q)
    <2>1. CASE r # NoRow /\ ~Refused(q) /\ user' = [user EXCEPT ![r.id] = Synced(q)]
        <3>1. r.id \in Identity /\ Synced(q) \in Row(r.id)
            BY <1>3, <2>1, SyncedType, Weaker DEF Sync
        <3>2. ~Clashes(Synced(q)) /\ Synced(q).id = r.id
            BY <2>1, <3>1 DEF Refused, Row
        <3> DEFINE w == Synced(q)
        <3>3. w \in Row(r.id) /\ user' = [user EXCEPT ![r.id] = w]
            BY <2>1, <3>1
        <3>4. \A x \in Rows : x.id # r.id =>
                x.email # w.email /\ (x.googleId = w.googleId => w.googleId = Nobody)
            BY <3>2, Unclashed
        <3> HIDE DEF w, r
        <3> QED
            BY <3>1, <3>3, <3>4, WriteUnique
    <2> QED
        BY <1>1, <1>2, <1>3, <2>1 DEF Sync
<1>4. ASSUME NEW c \in Call, GuardEnds(c)
      PROVE  UniqueRows'
    <2> DEFINE q == call[c]  r == q.found["email"]
    <2>1. CASE r # NoRow /\ ~Clashes(Linked(q)) /\ user' = [user EXCEPT ![r.id] = Linked(q)]
        <3>1. r.id \in Identity /\ Linked(q) \in Row(r.id)
            BY <1>4, <2>1, LinkedType, Weaker DEF GuardEnds
        <3>2. Linked(q).id = r.id
            BY <3>1 DEF Row
        <3> DEFINE w == Linked(q)
        <3>3. w \in Row(r.id) /\ user' = [user EXCEPT ![r.id] = w]
            BY <2>1, <3>1
        <3>4. \A x \in Rows : x.id # r.id =>
                x.email # w.email /\ (x.googleId = w.googleId => w.googleId = Nobody)
            BY <2>1, <3>2, Unclashed
        <3> HIDE DEF w, r
        <3> QED
            BY <3>1, <3>3, <3>4, WriteUnique
    <2> QED
        BY <1>1, <1>2, <1>4, <2>1 DEF GuardEnds
<1>5. ASSUME NEW c \in Call, RequestDeletion(c)
      PROVE  UniqueRows'
    <2> DEFINE u == call[c].as  w == [user[u] EXCEPT !.deactivated = TRUE]
    <2>1. u \in Identity /\ user[u] # NoRow /\ user[u] \in Row(u)
        BY <1>5, ActorType, RowAt DEF RequestDeletion, ActsKnown, Known
    <2>2. user' = [user EXCEPT ![u] = w]
        BY <1>5 DEF RequestDeletion, TypeOK
    <2>3. w \in Row(u) /\ w.email = user[u].email /\ w.googleId = user[u].googleId
        BY <2>1 DEF Row
    <2> HIDE DEF u, w
    <2> QED
        BY <2>1, <2>2, <2>3, SameKeys, WriteUnique
<1>6. ASSUME NEW u \in Identity, Suspend(u) \/ Reinstate(u)
      PROVE  UniqueRows'
    <2>1. user[u] # NoRow /\ user[u] \in Row(u)
        BY <1>6, RowAt DEF Suspend, Reinstate
    <2>2. PICK b \in BOOLEAN : user' = [user EXCEPT ![u] = [user[u] EXCEPT !.suspended = b]]
        BY <1>6 DEF Suspend, Reinstate, TypeOK
    <2> DEFINE w == [user[u] EXCEPT !.suspended = b]
    <2>3. w \in Row(u) /\ w.email = user[u].email /\ w.googleId = user[u].googleId
        BY <2>1 DEF Row
    <2> HIDE DEF w
    <2>4. user' = [user EXCEPT ![u] = w]
        BY <2>2 DEF w
    <2> QED
        BY <2>1, <2>3, <2>4, SameKeys, WriteUnique
<1>7. ASSUME NEW u \in Identity, Purge(u)
      PROVE  UniqueRows'
    <2> DEFINE w == [user[u] EXCEPT !.email = Deleted(u), !.googleId = Nobody]
    <2>1. user[u] # NoRow /\ user[u] \in Row(u)
        BY <1>7, RowAt, Weaker DEF Purge, PurgedKnown
    <2>2. w \in Row(u) /\ w.email = Deleted(u) /\ w.googleId = Nobody
        BY <2>1 DEF Row
    <2>3. user' = [user EXCEPT ![u] = w]
        BY <1>7 DEF Purge, TypeOK
    <2>4. \A x \in Rows : x.id # u => x.email # Deleted(u)
        <3> SUFFICES ASSUME NEW x \in Rows, x.id # u
                     PROVE  x.email # Deleted(u)
            OBVIOUS
        <3>1. x.id \in Identity /\ x.email \in Address \cup {Deleted(x.id)}
            BY RowFacts DEF Row
        <3>2. Deleted(x.id) # Deleted(u)
            BY DEF Deleted
        <3> QED
            BY <3>1, <3>2, AccountsAssumption
    <2> HIDE DEF w
    <2>5. \A x \in Rows : x.id # u =>
            x.email # w.email /\ (x.googleId = w.googleId => w.googleId = Nobody)
        BY <2>2, <2>4
    <2> QED
        BY <2>2, <2>3, <2>5, WriteUnique
<1> QED
    BY <1>1, <1>3, <1>4, <1>5, <1>6, <1>7, ReportedUsers
    DEF Next, Proceed, ActOnReport, SignIn, Guard, Look, GuardLooks, Act, AdminSetsStatus, RetentionEnds, PurgeReads,
        PurgeFails, ChangeAddress, vars

LEMMA LookupComplete ==
    ASSUME TypeOK, NEW k, NEW q, Lookup(k, q) = NoRow, NEW r \in Rows
    PROVE  ~Matches(r, k, q)
BY DEF Lookup, Rows

LEMMA RaceToBlame ==
    ASSUME TypeOK, KnownRows, UniqueRows, NEW c \in Call, call[c].flow = "sync",
           \A k \in Key : call[c].found[k] = Lookup(k, call[c])
    PROVE  ~Refused(call[c])
<1> DEFINE q == call[c]  r == Existing(q)
<1>1. q \in SearchType /\ q.sub \in Identity /\ {"id", "googleId", "email"} = Key
    BY CallSorts DEF SearchType, Key
<1>2. CASE r = NoRow
    <2>1. \A k \in Key : Lookup(k, q) = NoRow
        BY <1>1, <1>2 DEF Existing
    <2>2. \A x \in Rows : x.id # q.sub /\ x.email # q.email /\ x.googleId # q.sub
        BY <1>1, <2>1, LookupComplete DEF Matches
    <2>3. user[q.sub] = NoRow
        BY <1>1, <2>2, RowAt
    <2>4. ~Clashes(NewRow(q))
        BY <2>2 DEF Clashes, NewRow, GoogleIdOf
    <2> QED
        BY <1>2, <2>3, <2>4 DEF Refused, CanCreate
<1>3. CASE r # NoRow
    <2>1. r \in Rows /\ r.id \in Identity /\ user[r.id] = r /\ r \in Row(r.id)
        BY <1>1, <1>3, ExistingFact, LookupFact, RowFacts
    <2> DEFINE e == IF q.found["email"] = NoRow \/ q.found["email"].id = r.id THEN q.email ELSE r.email
               g == IF q.sub \in Google /\ (q.found["googleId"] = NoRow \/ q.found["googleId"].id = r.id)
                    THEN q.sub ELSE r.googleId
    <2>2. Synced(q).id = r.id /\ Synced(q).email = e /\ Synced(q).googleId = g
        BY <2>1 DEF Synced, Row
    <2>3. ASSUME NEW x \in Rows, x.id # r.id
          PROVE  x.email # e
        <3>1. CASE q.found["email"] = NoRow
            BY <1>1, <3>1, LookupComplete DEF Matches
        <3>2. CASE q.found["email"] # NoRow /\ q.found["email"].id = r.id
            <4>1. q.found["email"] \in Rows /\ q.found["email"].email = q.email
                BY <1>1, <3>2, LookupFact DEF Matches
            <4> QED
                BY <2>3, <3>2, <4>1 DEF UniqueRows
        <3>3. CASE q.found["email"] # NoRow /\ q.found["email"].id # r.id
            BY <2>1, <2>3, <3>3 DEF UniqueRows
        <3> QED
            BY <3>1, <3>2, <3>3
    <2>4. ASSUME NEW x \in Rows, x.id # r.id, x.googleId = g
          PROVE  g = Nobody
        <3>1. CASE g = r.googleId
            BY <2>1, <2>4, <3>1 DEF UniqueRows
        <3>2. CASE g = q.sub /\ q.found["googleId"] = NoRow
            BY <1>1, <2>4, <3>2, LookupComplete DEF Matches
        <3>3. CASE g = q.sub /\ q.found["googleId"] # NoRow /\ q.found["googleId"].id = r.id
            <4>1. q.found["googleId"] \in Rows /\ q.found["googleId"].googleId = q.sub
                BY <1>1, <3>3, LookupFact DEF Matches
            <4> QED
                BY <2>4, <3>3, <4>1 DEF UniqueRows
        <3> QED
            BY <3>1, <3>2, <3>3
    <2>5. ~Clashes(Synced(q))
        BY <2>2, <2>3, <2>4 DEF Clashes
    <2> QED
        BY <1>3, <2>5 DEF Refused
<1> QED
    BY <1>2, <1>3

(* No sign-in is refused by a unique index unless a row changed since it looked.                  *)
THEOREM RefusedByRace == Spec => []RefusalNeedsRace
<1>1. Init => UniqueRows
    BY DEF Init, UniqueRows, Rows
<1>2. IInv /\ UniqueRows /\ [Next]_vars => UniqueRows'
    BY UniqueStep
<1>3. IInv /\ UniqueRows => RefusalNeedsRace
    BY RaceToBlame, Weaker DEF IInv, RefusalNeedsRace
<1> QED
    BY <1>1, <1>2, <1>3, AccountsInvariant, PTL DEF Spec

=============================================================================
