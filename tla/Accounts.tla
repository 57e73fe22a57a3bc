------------------------------- MODULE Accounts -------------------------------
(***************************************************************************)
(* Accounts: signing in (AuthService), the guard before every request of a  *)
(* signed-in user (CognitoAuthService), deletion and its purge              *)
(* (UserService), and suspension, directly or on a report (AdminService,    *)
(* ReportsService).                                                         *)
(*                                                                         *)
(* Cognito knows people by "sub"; a row of User is found by its id, by the  *)
(* "googleId" it was linked with or by its email address, one statement     *)
(* each, and is then created or updated.  A call is one request in          *)
(* progress.  Of what a user leaves behind, listings are kept: whose they   *)
(* are and whether they are on offer, which administrators decide as well.  *)
(* How an owner changes a listing, step by step, is in Listings.  Alerts,   *)
(* messages and uploads, which the same transactions deal with, names and   *)
(* pictures are left out, and so are guests, whose tokens are honoured      *)
(* without a look at the row.                                               *)
(***************************************************************************)
EXTENDS Naturals, FiniteSets

CONSTANTS
    Identity,       \* Cognito users ("sub")
    Google,         \* those who came through Google
    Address,        \* email addresses
    FirstAddress,   \* the address each identity signed up with
    Listing,        \* listing ids
    Seller,         \* bound: whose listings are followed
    Moderated,      \* bound: who is suspended and reinstated
    Moderation,     \* the statuses administrators set
    Move,           \* bound: from which address to which Google accounts change
    Call,           \* requests in progress at one time
    PurgeLimit,     \* "take" of the purge
    Nobody, NoRow   \* null

(* "PAUSED" stands for "COMPLETED" and "EXPIRED" too: not on offer, and no administrator's doing. *)
Status == {"ACTIVE", "PAUSED", "FLAGGED", "DELETED"}

(* "deleted-...@deleted.remnant.invalid" *)
Deleted(u) == <<"deleted", u>>

ASSUME AccountsAssumption ==
    /\ Google \subseteq Identity /\ Seller \subseteq Identity /\ Moderated \subseteq Identity
    /\ Moderation \subseteq Status
    /\ Move \subseteq Address \X Address
    /\ FirstAddress \in [Identity -> Address]
    /\ Nobody \notin Identity
    /\ \A u \in Identity : Deleted(u) \notin Address
    /\ PurgeLimit \in Nat \ {0}
    /\ IsFiniteSet(Identity)

VARIABLES
    mailbox,        \* external: the address Cognito has for an identity
    user,           \* rows, or NoRow
    requested,      \* "deletionRequestedAt": null, within the last 30 days, or before
    owner,          \* "Listing"."userId", or Nobody before the row exists
    status,         \* "Listing"."status", or "NONE" before the row exists
    call,
    earlier,        \* earlier[u]: requests that began before u was shut out
    batch           \* what a running purge has read and not yet dealt with

listings == <<owner, status>>
vars == <<mailbox, user, requested, listings, call, earlier, batch>>

Row(u) ==
    [id : {u}, email : Address \cup {Deleted(u)}, googleId : Google \cup {Nobody},
     suspended : BOOLEAN, deactivated : BOOLEAN]

AnyRow == UNION {Row(u) : u \in Identity}

ASSUME NoRowAssumption == NoRow \notin AnyRow

Key == {"id", "googleId", "email"}

Idle == [flow |-> "idle"]

SearchType ==
    [flow : {"sync", "guard"}, sub : Identity, email : Address, todo : SUBSET Key,
     found : [Key -> AnyRow \cup {NoRow}]]

CallType == {Idle} \cup SearchType \cup [flow : {"act"}, as : Identity]

TypeOK ==
    /\ mailbox \in [Identity -> Address]
    /\ user \in [Identity -> AnyRow \cup {NoRow}]
    /\ \A u \in Identity : user[u] \in Row(u) \cup {NoRow}
    /\ requested \in [Identity -> {"no", "recently", "due"}]
    /\ owner \in [Listing -> Identity \cup {Nobody}]
    /\ status \in [Listing -> Status \cup {"NONE"}]
    /\ \A l \in Listing : status[l] = "NONE" <=> owner[l] = Nobody
    /\ call \in [Call -> CallType]
    /\ earlier \in [Identity -> SUBSET Call]
    /\ batch \subseteq Identity

Init ==
    /\ mailbox = FirstAddress
    /\ user = [u \in Identity |-> NoRow]
    /\ requested = [u \in Identity |-> "no"]
    /\ owner = [l \in Listing |-> Nobody]
    /\ status = [l \in Listing |-> "NONE"]
    /\ call = [c \in Call |-> Idle]
    /\ earlier = [u \in Identity |-> {}]
    /\ batch = {}

Begin(c, r) == call[c] = Idle /\ call' = [call EXCEPT ![c] = r] /\ UNCHANGED earlier

Continue(c, r) == call' = [call EXCEPT ![c] = r] /\ UNCHANGED earlier

(* An answer, or an error. *)
Return(c) ==
    /\ call' = [call EXCEPT ![c] = Idle]
    /\ earlier' = [u \in Identity |-> earlier[u] \ {c}]

InProgress == {c \in Call : call[c] # Idle}

Rows == {user[u] : u \in Identity} \ {NoRow}

(* "bannedAt" and "deactivatedAt" *)
InGoodStanding(r) == ~r.suspended /\ ~r.deactivated

-----------------------------------------------------------------------------
(* What both ways of finding a user share.  A sign-in asks for a googleId only when there is one. *)
Search(i, flow) ==
    [flow |-> flow, sub |-> i, email |-> mailbox[i],
     todo |-> IF flow = "sync" /\ i \notin Google THEN Key \ {"googleId"} ELSE Key,
     found |-> [k \in Key |-> NoRow]]

Matches(r, k, q) ==
    \/ k = "id" /\ r.id = q.sub
    \/ k = "googleId" /\ r.googleId = q.sub
    \/ k = "email" /\ r.email = q.email

(* findUnique: id, email and googleId are unique. *)
Lookup(k, q) ==
    IF \E r \in Rows : Matches(r, k, q) THEN CHOOSE r \in Rows : Matches(r, k, q) ELSE NoRow

GoogleIdOf(i) == IF i \in Google THEN i ELSE Nobody

(* P2002: a unique index refuses the row. *)
Clashes(r) ==
    \E x \in Rows : /\ x.id # r.id
                    /\ x.email = r.email \/ (x.googleId = r.googleId /\ r.googleId # Nobody)

NewRow(q) ==
    [id |-> q.sub, email |-> q.email, googleId |-> GoogleIdOf(q.sub),
     suspended |-> FALSE, deactivated |-> FALSE]

(* One of the statements. *)
Found(q, k) == [q EXCEPT !.todo = @ \ {k}, !.found[k] = Lookup(k, q)]

CanCreate(q) == user[q.sub] = NoRow /\ ~Clashes(NewRow(q))

CreateUser(q) == CanCreate(q) /\ user' = [user EXCEPT ![q.sub] = NewRow(q)]

-----------------------------------------------------------------------------
(* login, refresh and hostedSession end in syncUserFromClaims: the lookups at once, in any    *)
(* order, then one write.                                                                    *)
SignIn(c, i) ==
    /\ Begin(c, Search(i, "sync"))
    /\ UNCHANGED <<mailbox, user, requested, listings, batch>>

Look(c, k) ==
    /\ call[c].flow = "sync"
    /\ k \in call[c].todo
    /\ Continue(c, Found(call[c], k))
    /\ UNCHANGED <<mailbox, user, requested, listings, batch>>

Existing(q) ==
    IF q.found["id"] # NoRow THEN q.found["id"]
    ELSE IF q.found["googleId"] # NoRow THEN q.found["googleId"]
    ELSE q.found["email"]

(* Mutant: the address is taken over whoever else has it. *)
SyncedAnyway(q) ==
    LET r == Existing(q) IN
    [user[r.id] EXCEPT !.email = q.email,
                       !.googleId = IF q.sub \in Google THEN q.sub ELSE r.googleId]

(* What the update makes of the row: the address and the Google identity of the claims,      *)
(* unless another row was found to have them.                                                *)
Synced(q) ==
    LET r == Existing(q)
        free(k) == q.found[k] = NoRow \/ q.found[k].id = r.id
    IN  [user[r.id] EXCEPT
            !.email = IF free("email") THEN q.email ELSE r.email,
            !.googleId = IF q.sub \in Google /\ free("googleId") THEN q.sub ELSE r.googleId]

Refused(q) ==
    IF Existing(q) = NoRow THEN ~CanCreate(q) ELSE Clashes(Synced(q))

Sync(c) ==
    /\ call[c].flow = "sync"
    /\ call[c].todo = {}
    /\ LET q == call[c]  r == Existing(q) IN
        \/ /\ r = NoRow
           /\ CreateUser(q)
        \/ /\ r # NoRow /\ InGoodStanding(r) /\ ~Refused(q)
           /\ user' = [user EXCEPT ![r.id] = Synced(q)]
        \/ /\ IF r = NoRow THEN Refused(q) ELSE InGoodStanding(r) => Refused(q)
           /\ UNCHANGED user
    /\ Return(c)
    /\ UNCHANGED <<mailbox, requested, listings, batch>>

-----------------------------------------------------------------------------
(* JwtAuthGuard: verifyBearerToken and ensureLocalUser look by id, then by googleId, then,    *)
(* after Cognito was asked for the address, by email; a row found by the first two is enough. *)
Guard(c, i) ==
    /\ Begin(c, Search(i, "guard"))
    /\ UNCHANGED <<mailbox, user, requested, listings, batch>>

(* Mutant: the account is not looked at. *)
AdmitAnyone(c, r) == Continue(c, [flow |-> "act", as |-> r.id])

(* toAuthenticatedUser *)
Admit(c, r) ==
    IF InGoodStanding(r) THEN Continue(c, [flow |-> "act", as |-> r.id]) ELSE Return(c)

Following(todo) ==
    IF "id" \in todo THEN "id" ELSE IF "googleId" \in todo THEN "googleId" ELSE "email"

GuardLooks(c) ==
    /\ call[c].flow = "guard"
    /\ call[c].todo # {}
    /\ LET k == Following(call[c].todo)
           q == Found(call[c], k)
       IN  IF k # "email" /\ q.found[k] # NoRow THEN Admit(c, q.found[k]) ELSE Continue(c, q)
    /\ UNCHANGED <<mailbox, user, requested, listings, batch>>

(* A new Google identity is linked to the row that has its address; a name that differs is    *)
(* written too.  The standing that counts is that of the row the last statement returned.     *)
NewLink(q) == q.sub \in Google /\ q.found["email"].googleId # q.sub

Linked(q) ==
    [user[q.found["email"].id] EXCEPT !.googleId = IF NewLink(q) THEN q.sub ELSE @]

GuardEnds(c) ==
    /\ call[c].flow = "guard"
    /\ call[c].todo = {}
    /\ LET q == call[c]  r == q.found["email"] IN
        \/ r = NoRow /\ CreateUser(q) /\ Continue(c, [flow |-> "act", as |-> q.sub])
        \/ r = NoRow /\ ~CanCreate(q) /\ Return(c) /\ UNCHANGED user
        \/ /\ r # NoRow /\ ~Clashes(Linked(q))
           /\ user' = [user EXCEPT ![r.id] = Linked(q)]
           /\ Admit(c, Linked(q))
        \/ r # NoRow /\ Clashes(Linked(q)) /\ Return(c) /\ UNCHANGED user
        \/ r # NoRow /\ ~NewLink(q) /\ Admit(c, r) /\ UNCHANGED user
    /\ UNCHANGED <<mailbox, requested, listings, batch>>

-----------------------------------------------------------------------------
(* The handlers, for whoever was admitted: a listing is created, one of the user's is written    *)
(* (Listings has when which status may be), or nothing of the kind.                              *)
Act(c) ==
    /\ call[c].flow = "act"
    /\ LET u == call[c].as IN
        \/ \E l \in Listing :
              /\ status[l] = "NONE" /\ u \in Seller
              /\ owner' = [owner EXCEPT ![l] = u]
              /\ status' = [status EXCEPT ![l] = "ACTIVE"]
        \/ \E l \in Listing, st \in {"ACTIVE", "PAUSED"} :
              /\ owner[l] = u
              /\ status' = [status EXCEPT ![l] = st]
              /\ UNCHANGED owner
        \/ UNCHANGED listings
    /\ Return(c)
    /\ UNCHANGED <<mailbox, user, requested, batch>>

(* Active listings are paused, and no others; deactivatedAt and deletionRequestedAt are set to   *)
(* now.                                                                                          *)
RequestDeletion(c) ==
    /\ call[c].flow = "act"
    /\ LET u == call[c].as IN
        /\ status' = [l \in Listing |-> IF owner[l] = u /\ status[l] = "ACTIVE" THEN "PAUSED"
                                        ELSE status[l]]
        /\ user' = [user EXCEPT ![u].deactivated = TRUE]
        /\ requested' = [requested EXCEPT ![u] = "recently"]
        /\ earlier' = [v \in Identity |-> (IF v = u THEN InProgress ELSE earlier[v]) \ {c}]
    /\ call' = [call EXCEPT ![c] = Idle]
    /\ UNCHANGED <<mailbox, owner, batch>>

(* 30 days: no request takes as long. *)
RetentionEnds(u) ==
    /\ requested[u] = "recently"
    /\ earlier[u] = {}
    /\ requested' = [requested EXCEPT ![u] = "due"]
    /\ UNCHANGED <<mailbox, user, listings, call, earlier, batch>>

-----------------------------------------------------------------------------
(* What can be reported: a user, a conversation or one of its messages, by a member of the       *)
(* conversation.  Reports stay, and may be acted on again.                                       *)
Report ==
    [target : {"USER"}, reporter : Identity, about : Identity]
    \cup {r \in [target : {"CONVERSATION"}, reporter : Identity, members : SUBSET Identity] :
             Cardinality(r.members) = 2 /\ r.reporter \in r.members}
    \cup [target : {"MESSAGE"}, reporter : Identity, sender : Identity]

ReportedUser(r) ==
    CASE r.target = "USER" -> {r.about}
      [] r.target = "CONVERSATION" -> r.members \ {r.reporter}
      [] r.target = "MESSAGE" -> {r.sender} \ {r.reporter}

Suspend(u) ==
    /\ u \in Moderated
    /\ user[u] # NoRow
    /\ user' = [user EXCEPT ![u].suspended = TRUE]
    /\ earlier' = [earlier EXCEPT ![u] = IF InGoodStanding(user[u]) THEN InProgress ELSE @]
    /\ UNCHANGED <<mailbox, requested, listings, call, batch>>

(* actOnReport, BAN_USER: what was reported names one user, or nobody.                          *)
Reported == UNION {ReportedUser(r) : r \in Report}

ActOnReport == \E u \in Reported : Suspend(u)

(* updateUser, with "bannedAt" null. *)
Reinstate(u) ==
    /\ u \in Moderated
    /\ user[u] # NoRow
    /\ user' = [user EXCEPT ![u].suspended = FALSE]
    /\ UNCHANGED <<mailbox, requested, listings, call, earlier, batch>>

(* updateListingStatus, removeListing, and actOnReport on a listing: the status is written       *)
(* whatever it was and whoever's the listing is, be the owner suspended, deactivated or purged.   *)
AdminSetsStatus(l, st) ==
    /\ status[l] # "NONE" /\ st \in Moderation
    /\ status' = [status EXCEPT ![l] = st]
    /\ UNCHANGED <<mailbox, user, requested, owner, call, earlier, batch>>

-----------------------------------------------------------------------------
(* purgeExpiredDeletionRequests: some of the accounts that are due, as many as the limit,      *)
(* then one transaction for each.                                                              *)
(* Mutant: no cutoff. *)
DueAtOnce == {u \in Identity : requested[u] # "no"}

Due == {u \in Identity : requested[u] = "due"}

PurgeReads ==
    /\ batch = {} /\ Due # {}
    /\ batch' \in {B \in SUBSET Due : \/ Cardinality(B) = PurgeLimit
                                      \/ B = Due /\ Cardinality(Due) < PurgeLimit}
    /\ UNCHANGED <<mailbox, user, requested, listings, call, earlier>>

Purge(u) ==
    /\ u \in batch
    /\ batch' = batch \ {u}
    /\ status' = [l \in Listing |-> IF owner[l] = u THEN "DELETED" ELSE status[l]]
    /\ user' = [user EXCEPT ![u].email = Deleted(u), ![u].googleId = Nobody]
    /\ requested' = [requested EXCEPT ![u] = "no"]
    /\ UNCHANGED <<mailbox, owner, call, earlier>>

(* A transaction that fails ends the loop. *)
PurgeFails ==
    /\ batch # {}
    /\ batch' = {}
    /\ UNCHANGED <<mailbox, user, requested, listings, call, earlier>>

-----------------------------------------------------------------------------
(* External: a Google account changes its address; with a password, the address is the user     *)
(* name.                                                                                       *)
ChangeAddress(i, a) ==
    /\ <<mailbox[i], a>> \in Move
    /\ mailbox' = [mailbox EXCEPT ![i] = a]
    /\ UNCHANGED <<user, requested, listings, call, earlier, batch>>

-----------------------------------------------------------------------------
Proceed(c) ==
    \/ \E k \in Key : Look(c, k)
    \/ Sync(c) \/ GuardLooks(c) \/ GuardEnds(c) \/ Act(c) \/ RequestDeletion(c)

Next ==
    \/ \E c \in Call, i \in Identity : SignIn(c, i) \/ Guard(c, i)
    \/ \E c \in Call : Proceed(c)
    \/ \E u \in Identity : RetentionEnds(u) \/ Purge(u) \/ Suspend(u) \/ Reinstate(u)
    \/ ActOnReport
    \/ \E l \in Listing, st \in Status : AdminSetsStatus(l, st)
    \/ PurgeReads \/ PurgeFails
    \/ \E i \in Google, a \in Address : ChangeAddress(i, a)

Spec == Init /\ [][Next]_vars

-----------------------------------------------------------------------------
Anonymous(u) == user[u] # NoRow /\ user[u].email = Deleted(u)

(* The guard has found the row by its address and not yet written to it. *)
FoundByGuard(u) ==
    \E c \in Call : /\ call[c].flow = "guard" /\ call[c].todo = {}
                   /\ call[c].found["email"] # NoRow /\ call[c].found["email"].id = u

(* An account that was purged stays anonymous: its address does not come back and nobody acts    *)
(* for it, although requests read the row and write it later (user.service.ts:187,               *)
(* auth.service.ts:454, cognito-auth.service.ts:105).  What keeps them apart is the retention     *)
(* period.  Its Google identity may come back, and that is a defect: a guard that found the row   *)
(* by its address, deactivated, before the purge writes the link before it looks at the standing *)
(* (cognito-auth.service.ts:107-118).  No other step does it.                                     *)
AnonymousStays ==
    [][\A u \in Identity : Anonymous(u) =>
          /\ (Anonymous(u))'
          /\ \A c \in Call : call'[c].flow = "act" => call'[c].as # u
          /\ user'[u].googleId \notin {user[u].googleId, Nobody} => FoundByGuard(u)]_vars

(* Once the requests that began before it was deactivated or suspended have ended, nothing new   *)
(* is offered in the name of an account by its owner, whichever identity or address it is         *)
(* reached by (cognito-auth.service.ts:59, 117).  An administrator may still put a listing of     *)
(* its on offer, one that was flagged before the deletion was asked for or that the purge         *)
(* deleted, for its owner is not looked at (admin.service.ts:191); whoever buys or writes then    *)
(* does so to an account that can answer nobody.                                                  *)
Offered(u) == {l \in Listing : owner[l] = u /\ status[l] = "ACTIVE"}

BlockedIsOut ==
    [][\A u \in Identity :
          (user[u] # NoRow /\ ~InGoodStanding(user[u]) /\ earlier[u] = {})
              => \A l \in Offered(u)' \ Offered(u) : AdminSetsStatus(l, "ACTIVE")]_vars

(* A sign-in is refused by a unique index only when another request changed a row since this      *)
(* one looked: never because of what Cognito says, so that trying again helps                      *)
(* (auth.service.ts:466, 478).                                                                     *)
RefusalNeedsRace ==
    \A c \in Call :
        LET q == call[c] IN
        (/\ q.flow = "sync" /\ q.todo = {}
         /\ Existing(q) # NoRow => InGoodStanding(Existing(q))
         /\ Refused(q))
            => \E k \in Key : q.found[k] # Lookup(k, q)

=============================================================================
