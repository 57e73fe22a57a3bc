----------------------------- MODULE OutboxRelay -----------------------------
(***************************************************************************)
(* OutboxRelayService: publishing committed OutboxEvent rows to SQS.        *)
(*                                                                         *)
(* A Worker is one invocation of relayPending: it claims a batch of due rows *)
(* in one statement, sends it in chunks, and settles each chunk with one      *)
(* UPDATE for what SQS accepted and one per entry it did not.  Settling        *)
(* statements run concurrently (Promise.all) and are guarded by the row's       *)
(* status alone, not by who holds the lease, so what a worker believes about    *)
(* a row may be out of date when its statement runs.                            *)
(***************************************************************************)
EXTENDS Naturals, FiniteSets

CONSTANTS
    MaxEvent,           \* events are 1..MaxEvent, in order of "createdAt"
    Conversation,       \* the conversations they are about
    ConversationOf,     \* the conversation of each event
    Worker,             \* invocations of relayPending
    BatchSize,          \* LIMIT of the claim
    ChunkSize,          \* entries of one SendMessageBatch call (10)
    MaxAttempts,        \* claims after which a failure is terminal (10)
    MaxCrashes          \* bound: invocations killed in one behaviour

Event == 1..MaxEvent

ASSUME SizesAssumption ==
    /\ MaxEvent \in Nat
    /\ BatchSize \in Nat \ {0}
    /\ ChunkSize \in Nat \ {0}
    /\ MaxAttempts \in Nat \ {0}
    /\ MaxCrashes \in Nat

ASSUME ConversationAssumption == ConversationOf \in [Event -> Conversation]

VARIABLES
    status,         \* "OutboxEvent"."status", or "ABSENT" before the row exists
    attempts,       \* "attempts"
    available,      \* "availableAt" has passed
    expired,        \* "lockedAt" is more than five minutes old
    delivered,      \* history: how often SQS accepted the event
    waiting,        \* waiting[w]: claims of w whose chunk is still to be sent
    chunk,          \* chunk[w]: the claims of the chunk being settled, if any
    publishing,     \* publishing[w]: claims its markPublished is to write
    releasing,      \* releasing[w]: claims with a releaseForRetry outstanding
    catching,       \* catching[w]: the chunk is being released by the catch block
    crashes         \* how many invocations have been killed

rows == <<status, attempts, available, expired>>
local == <<waiting, chunk, publishing, releasing, catching>>
vars == <<rows, delivered, local, crashes>>

-----------------------------------------------------------------------------
Status == {"ABSENT", "PENDING", "PROCESSING", "PUBLISHED", "FAILED"}

(* What the claim returns of a row: which event, and which attempt this is.    *)
Claim == [event : Event, attempt : Nat]

TypeOK ==
    /\ status \in [Event -> Status]
    /\ attempts \in [Event -> Nat]
    /\ available \in [Event -> BOOLEAN]
    /\ expired \in [Event -> BOOLEAN]
    /\ delivered \in [Event -> Nat]
    /\ waiting \in [Worker -> SUBSET Claim]
    /\ chunk \in [Worker -> SUBSET Claim]
    /\ publishing \in [Worker -> SUBSET Claim]
    /\ releasing \in [Worker -> SUBSET Claim]
    /\ catching \in [Worker -> BOOLEAN]
    /\ crashes \in 0..MaxCrashes

Init ==
    /\ status = [e \in Event |-> "ABSENT"]
    /\ attempts = [e \in Event |-> 0]
    /\ available = [e \in Event |-> TRUE]
    /\ expired = [e \in Event |-> FALSE]
    /\ delivered = [e \in Event |-> 0]
    /\ waiting = [w \in Worker |-> {}]
    /\ chunk = [w \in Worker |-> {}]
    /\ publishing = [w \in Worker |-> {}]
    /\ releasing = [w \in Worker |-> {}]
    /\ catching = [w \in Worker |-> FALSE]
    /\ crashes = 0

-----------------------------------------------------------------------------
(* The transaction that writes a message commits its event with it.            *)
Enqueue(e) ==
    /\ status[e] = "ABSENT"
    /\ \A f \in Event : f < e => status[f] # "ABSENT"
    /\ status' = [status EXCEPT ![e] = "PENDING"]
    /\ UNCHANGED <<attempts, available, expired, delivered, local, crashes>>

(* The passage of time, as far as the claim looks at it.                        *)
BackoffElapses(e) ==
    /\ status[e] = "PENDING"
    /\ ~available[e]
    /\ available' = [available EXCEPT ![e] = TRUE]
    /\ UNCHANGED <<status, attempts, expired, delivered, local, crashes>>

LeaseExpires(e) ==
    /\ status[e] = "PROCESSING"
    /\ ~expired[e]
    /\ expired' = [expired EXCEPT ![e] = TRUE]
    /\ UNCHANGED <<status, attempts, available, delivered, local, crashes>>

-----------------------------------------------------------------------------
(* claim: one UPDATE ... FOR UPDATE SKIP LOCKED of the oldest due rows.         *)

(* Mutant: abandoned leases are not taken over. *)
DuePending(e) == status[e] = "PENDING" /\ available[e]

Due(e) ==
    \/ status[e] = "PENDING" /\ available[e]
    \/ status[e] = "PROCESSING" /\ expired[e]

Oldest(S) == {e \in S : Cardinality({f \in S : f < e}) < BatchSize}

Idle(w) == waiting[w] = {} /\ publishing[w] = {} /\ releasing[w] = {}

(* Mutant: the claim does not count. *)
ClaimUncounted(w) ==
    LET S == Oldest({e \in Event : Due(e)}) IN
    /\ Idle(w)
    /\ S # {}
    /\ status' = [e \in Event |-> IF e \in S THEN "PROCESSING" ELSE status[e]]
    /\ expired' = [e \in Event |-> e \notin S /\ expired[e]]
    /\ waiting' = [waiting EXCEPT ![w] =
                     {[event |-> e, attempt |-> attempts[e]] : e \in S}]
    /\ UNCHANGED <<attempts, available, delivered, chunk, publishing, releasing,
                   catching, crashes>>

ClaimBatch(w) ==
    LET S == Oldest({e \in Event : Due(e)}) IN
    /\ Idle(w)
    /\ S # {}
    /\ status' = [e \in Event |-> IF e \in S THEN "PROCESSING" ELSE status[e]]
    /\ attempts' = [e \in Event |-> IF e \in S THEN attempts[e] + 1 ELSE attempts[e]]
    /\ expired' = [e \in Event |-> e \notin S /\ expired[e]]
    /\ waiting' = [waiting EXCEPT ![w] =
                     {[event |-> e, attempt |-> attempts[e] + 1] : e \in S}]
    /\ UNCHANGED <<available, delivered, chunk, publishing, releasing, catching,
                   crashes>>

-----------------------------------------------------------------------------
(* One SendMessageBatch.  RETURNING gives no order, so any claims may come next. *)
NextChunks(w) ==
    {K \in SUBSET waiting[w] :
        \/ Cardinality(K) = ChunkSize
        \/ K = waiting[w] /\ Cardinality(K) <= ChunkSize}

Deliver(K) ==
    delivered' = [e \in Event |-> IF \E k \in K : k.event = e
                                    THEN delivered[e] + 1 ELSE delivered[e]]

(* Mutant: the Failed list of the response is not looked at. *)
SendUnread(w, K, rejected) ==
    /\ Deliver(K \ rejected)
    /\ publishing' = [publishing EXCEPT ![w] = K]
    /\ releasing' = [releasing EXCEPT ![w] = {}]
    /\ catching' = [catching EXCEPT ![w] = FALSE]

(* SQS answers, naming the entries it rejected.                                  *)
SendAnswered(w, K, rejected) ==
    /\ Deliver(K \ rejected)
    /\ publishing' = [publishing EXCEPT ![w] = K \ rejected]
    /\ releasing' = [releasing EXCEPT ![w] = rejected]
    /\ catching' = [catching EXCEPT ![w] = FALSE]

(* The call throws; some entries may have been accepted before it did.           *)
SendThrows(w, K, accepted) ==
    /\ Deliver(accepted)
    /\ publishing' = publishing
    /\ releasing' = [releasing EXCEPT ![w] = K]
    /\ catching' = [catching EXCEPT ![w] = TRUE]

SendChunk(w) ==
    /\ publishing[w] = {} /\ releasing[w] = {}
    /\ waiting[w] # {}
    /\ \E K \in NextChunks(w) :
          /\ waiting' = [waiting EXCEPT ![w] = @ \ K]
          /\ chunk' = [chunk EXCEPT ![w] = K]
          /\ \E part \in SUBSET K : SendAnswered(w, K, part) \/ SendThrows(w, K, part)
    /\ UNCHANGED <<rows, crashes>>

-----------------------------------------------------------------------------
(* The loop goes to the next chunk when the last statement of this one is done.   *)
EndChunk(w) ==
    LET over == publishing'[w] = {} /\ releasing'[w] = {} IN
    /\ chunk' = IF over THEN [chunk EXCEPT ![w] = {}] ELSE chunk
    /\ catching' = IF over THEN [catching EXCEPT ![w] = FALSE] ELSE catching

(* markPublished: UPDATE ... WHERE id IN (...) AND status = 'PROCESSING'.        *)
MarkPublished(w) ==
    /\ publishing[w] # {}
    /\ status' = [e \in Event |->
                    IF status[e] = "PROCESSING" /\ \E k \in publishing[w] : k.event = e
                      THEN "PUBLISHED" ELSE status[e]]
    /\ publishing' = [publishing EXCEPT ![w] = {}]
    /\ UNCHANGED <<attempts, available, expired, delivered, waiting, releasing, crashes>>
    /\ EndChunk(w)

(* Mutant: the row is given up one attempt early. *)
ReleasedEarly(k) == IF k.attempt + 1 >= MaxAttempts THEN "FAILED" ELSE "PENDING"

(* releaseForRetry: the claim's attempt decides, the row's status guards.         *)
Released(k) == IF k.attempt >= MaxAttempts THEN "FAILED" ELSE "PENDING"

(* Mutant: the row is written whatever its status. *)
ReleaseAnyStatus(w, k) ==
    /\ k \in releasing[w]
    /\ status' = [status EXCEPT ![k.event] = Released(k)]
    /\ available' = [available EXCEPT ![k.event] = FALSE]
    /\ releasing' = [releasing EXCEPT ![w] = @ \ {k}]
    /\ UNCHANGED <<attempts, expired, delivered, waiting, publishing, crashes>>
    /\ EndChunk(w)

ReleaseForRetry(w, k) ==
    /\ k \in releasing[w]
    /\ IF status[k.event] = "PROCESSING"
         THEN /\ status' = [status EXCEPT ![k.event] = Released(k)]
              /\ available' = [available EXCEPT ![k.event] = FALSE]
         ELSE UNCHANGED <<status, available>>
    /\ releasing' = [releasing EXCEPT ![w] = @ \ {k}]
    /\ UNCHANGED <<attempts, expired, delivered, waiting, publishing, crashes>>
    /\ EndChunk(w)

(* A settling statement fails.  The first failure enters the catch block, which   *)
(* releases the whole chunk while the other statements still run; a failure there  *)
(* leaves relayPending, and what it had claimed waits for its lease to expire.     *)
PublishFails(w) ==
    /\ publishing[w] # {}
    /\ ~catching[w]
    /\ publishing' = [publishing EXCEPT ![w] = {}]
    /\ releasing' = [releasing EXCEPT ![w] = chunk[w]]
    /\ catching' = [catching EXCEPT ![w] = TRUE]
    /\ UNCHANGED <<rows, delivered, waiting, chunk, crashes>>

ReleaseFails(w) ==
    /\ releasing[w] # {}
    /\ ~catching[w]
    /\ releasing' = [releasing EXCEPT ![w] = chunk[w]]
    /\ catching' = [catching EXCEPT ![w] = TRUE]
    /\ UNCHANGED <<rows, delivered, waiting, chunk, publishing, crashes>>

Stop(w) ==
    /\ waiting' = [waiting EXCEPT ![w] = {}]
    /\ chunk' = [chunk EXCEPT ![w] = {}]
    /\ publishing' = [publishing EXCEPT ![w] = {}]
    /\ releasing' = [releasing EXCEPT ![w] = {}]
    /\ catching' = [catching EXCEPT ![w] = FALSE]
    /\ UNCHANGED <<rows, delivered>>

(* Killed at any point, or thrown out of relayPending by a failure in the catch.   *)
Crash(w) ==
    /\ ~Idle(w)
    /\ crashes < MaxCrashes
    /\ crashes' = crashes + 1
    /\ Stop(w)

-----------------------------------------------------------------------------
Settle(w) == MarkPublished(w) \/ \E k \in releasing[w] : ReleaseForRetry(w, k)

Next ==
    \/ \E e \in Event : Enqueue(e) \/ BackoffElapses(e) \/ LeaseExpires(e)
    \/ \E w \in Worker :
          \/ ClaimBatch(w)
          \/ SendChunk(w)
          \/ Settle(w)
          \/ PublishFails(w)
          \/ ReleaseFails(w)
          \/ Crash(w)

Spec == Init /\ [][Next]_vars

(* The schedule invokes the relay every minute, its statements return, and time   *)
(* passes; SQS and the database may still fail every single call.                  *)
FairSpec ==
    /\ Spec
    /\ \A e \in Event : WF_vars(BackoffElapses(e)) /\ WF_vars(LeaseExpires(e))
    /\ \A w \in Worker : WF_vars(ClaimBatch(w) \/ SendChunk(w) \/ Settle(w))

-----------------------------------------------------------------------------
(* Properties. *)

(* PUBLISHED is never claimed of an event SQS did not accept, whoever wrote it.     *)
PublishedWasDelivered ==
    \A e \in Event : status[e] = "PUBLISHED" => delivered[e] > 0

(* At-least-once is not unboundedly-often: an event is accepted at most once per     *)
(* claim, through crashes, expired leases and failed settling alike.                 *)
DeliveriesBoundedByClaims == \A e \in Event : delivered[e] <= attempts[e]

(* The relay gives up on an event only after MaxAttempts claims of it.               *)
FailedIsExhausted ==
    \A e \in Event : status[e] = "FAILED" => attempts[e] >= MaxAttempts

(* A stale worker never takes back a row another has settled.                        *)
SettledIsFinal ==
    [][\A e \in Event :
          status[e] \in {"PUBLISHED", "FAILED"} => status'[e] = status[e]]_vars

(* Every event is published, or given up on, in the end.                              *)
EventsSettle ==
    \A e \in Event : []<>(status[e] \notin {"PENDING", "PROCESSING"})

(* Seen from outside, a row's lease and back-off are one open state.                   *)
Outcome(s) ==
    CASE s = "ABSENT" -> "NONE"
      [] s \in {"PENDING", "PROCESSING"} -> "OPEN"
      [] OTHER -> s

outcome == [e \in Event |-> Outcome(status[e])]

Delivery == INSTANCE EventDelivery WITH accepted <- delivered

(* Workers that overlap, die, lose their leases and settle late together deliver each    *)
(* event the way EventDelivery says (outbox-relay.service.ts:63, 171, 185).               *)
ImplementsDelivery == Delivery!Spec

(* MESSAGING_REALTIME_SETUP.md: FIFO queues use the conversation ID for ordering.      *)
(* An event reaches the queue only after the older ones of its conversation.           *)
ConversationOrder ==
    [][\A e, f \in Event :
          /\ f < e
          /\ ConversationOf[f] = ConversationOf[e]
          /\ delivered[e] = 0
          /\ delivered'[e] > 0
          => delivered'[f] > 0]_vars

=============================================================================
