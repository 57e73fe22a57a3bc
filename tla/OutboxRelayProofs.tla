-------------------------- MODULE OutboxRelayProofs --------------------------
(***************************************************************************)
(* What OutboxRelay promises of every batch, chunk and attempt limit, any      *)
(* number of workers and of crashes.                                           *)
(***************************************************************************)
EXTENDS OutboxRelay, FiniteSetTheorems, TLAPS

-----------------------------------------------------------------------------
(* What a claim and a send do, with the batch and the chunk named.               *)
Claims(w, S) ==
    /\ \A e \in S : status[e] \in {"PENDING", "PROCESSING"}
    /\ waiting[w] = {}
    /\ status' = [e \in Event |-> IF e \in S THEN "PROCESSING" ELSE status[e]]
    /\ attempts' = [e \in Event |-> IF e \in S THEN attempts[e] + 1 ELSE attempts[e]]
    /\ expired' = [e \in Event |-> e \notin S /\ expired[e]]
    /\ waiting' = [waiting EXCEPT ![w] =
                     {[event |-> e, attempt |-> attempts[e] + 1] : e \in S}]
    /\ UNCHANGED <<available, delivered, chunk, publishing, releasing, catching,
                   crashes>>

Sends(w, K, accepted, R) ==
    /\ accepted \subseteq K
    /\ waiting' = [waiting EXCEPT ![w] = @ \ K]
    /\ chunk' = [chunk EXCEPT ![w] = K]
    /\ Deliver(accepted)
    /\ publishing' \in {[publishing EXCEPT ![w] = accepted], publishing}
    /\ releasing' = [releasing EXCEPT ![w] = R]
    /\ \E b \in BOOLEAN : catching' = [catching EXCEPT ![w] = b]
    /\ UNCHANGED <<rows, crashes>>

LEMMA ClaimStep ==
    ASSUME NEW w \in Worker, ClaimBatch(w)
    PROVE  \E S \in SUBSET Event : Claims(w, S)
<1> DEFINE S == Oldest({e \in Event : Due(e)})
<1>1. S \in SUBSET Event /\ \A e \in S : status[e] \in {"PENDING", "PROCESSING"}
    BY DEF Oldest, Due
<1> USE <1>1
<1> WITNESS S \in SUBSET Event
<1> QED
    BY <1>1 DEF ClaimBatch, Claims, Idle

LEMMA SendStep ==
    ASSUME NEW w \in Worker, SendChunk(w)
    PROVE  \E K, accepted, R \in SUBSET waiting[w] : Sends(w, K, accepted, R)
<1>1. PICK K \in NextChunks(w) :
         /\ waiting' = [waiting EXCEPT ![w] = @ \ K]
         /\ chunk' = [chunk EXCEPT ![w] = K]
         /\ \E part \in SUBSET K : SendAnswered(w, K, part) \/ SendThrows(w, K, part)
    BY DEF SendChunk
<1>2. PICK part \in SUBSET K : SendAnswered(w, K, part) \/ SendThrows(w, K, part)
    BY <1>1
<1>3. K \in SUBSET waiting[w]
    BY DEF NextChunks
<1>4. UNCHANGED <<rows, crashes>>
    BY DEF SendChunk
<1>5. CASE SendAnswered(w, K, part)
    BY <1>1, <1>3, <1>4, <1>5 DEF SendAnswered, Sends
<1>6. CASE SendThrows(w, K, part)
    BY <1>1, <1>3, <1>4, <1>6 DEF SendThrows, Sends
<1> QED
    BY <1>2, <1>5, <1>6

(* Every variable keeps its type.                                               *)
LEMMA TypeStep == TypeOK /\ [Next]_vars => TypeOK'
<1> SUFFICES ASSUME TypeOK, [Next]_vars PROVE TypeOK'
    OBVIOUS
<1> USE SizesAssumption DEF TypeOK, Event
<1>1. ASSUME NEW e \in Event, Enqueue(e) PROVE TypeOK'
    BY <1>1 DEF Enqueue, local, Status
<1>2. ASSUME NEW e \in Event, BackoffElapses(e) PROVE TypeOK'
    BY <1>2 DEF BackoffElapses, local
<1>3. ASSUME NEW e \in Event, LeaseExpires(e) PROVE TypeOK'
    BY <1>3 DEF LeaseExpires, local
<1>4. ASSUME NEW w \in Worker, ClaimBatch(w) PROVE TypeOK'
  <2>1. PICK S \in SUBSET Event : Claims(w, S)
      BY <1>4, ClaimStep
  <2>2. {[event |-> e, attempt |-> attempts[e] + 1] : e \in S} \subseteq Claim
      BY DEF Claim
  <2>3. waiting' \in [Worker -> SUBSET Claim]
      BY <2>1, <2>2 DEF Claims
  <2> QED
      BY <2>1, <2>3 DEF Claims, Status
<1>5. ASSUME NEW w \in Worker, SendChunk(w) PROVE TypeOK'
  <2>1. PICK K, accepted, R \in SUBSET waiting[w] : Sends(w, K, accepted, R)
      BY <1>5, SendStep
  <2> USE DEF Sends
  <2>2. delivered' \in [Event -> Nat]
      BY <2>1 DEF Deliver
  <2>3. K \subseteq Claim
      OBVIOUS
  <2>4. waiting' \in [Worker -> SUBSET Claim] /\ chunk' \in [Worker -> SUBSET Claim]
      BY <2>1, <2>3
  <2>5. publishing' \in [Worker -> SUBSET Claim]
      BY <2>1, <2>3
  <2>6. releasing' \in [Worker -> SUBSET Claim] /\ catching' \in [Worker -> BOOLEAN]
      BY <2>1, <2>3
  <2> QED
      BY <2>1, <2>2, <2>4, <2>5, <2>6 DEF rows
<1>6. ASSUME NEW w \in Worker, MarkPublished(w) PROVE TypeOK'
    BY <1>6 DEF MarkPublished, EndChunk, Status
<1>7. ASSUME NEW w \in Worker, NEW k \in releasing[w], ReleaseForRetry(w, k)
      PROVE TypeOK'
  <2>1. status' \in [Event -> Status] /\ available' \in [Event -> BOOLEAN]
      BY <1>7 DEF ReleaseForRetry, Released, Status, Claim
  <2> QED
      BY <1>7, <2>1 DEF ReleaseForRetry, EndChunk
<1>8. ASSUME NEW w \in Worker, PublishFails(w) \/ ReleaseFails(w) PROVE TypeOK'
    BY <1>8 DEF PublishFails, ReleaseFails, rows
<1>9. ASSUME NEW w \in Worker, Crash(w) PROVE TypeOK'
    BY <1>9 DEF Crash, Stop, rows
<1>10. CASE UNCHANGED vars
    BY <1>10 DEF vars, rows, local
<1> QED
    BY <1>1, <1>2, <1>3, <1>4, <1>5, <1>6, <1>7, <1>8, <1>9, <1>10 DEF Next, Settle

(* Type correctness, for every value of the constants.                          *)
THEOREM TypeCorrect == Spec => []TypeOK
<1>1. Init => TypeOK
    BY SizesAssumption DEF Init, TypeOK, Status
<1> QED
    BY <1>1, TypeStep, PTL DEF Spec

-----------------------------------------------------------------------------
(* A worker that lost its lease never rewrites a row another has settled:      *)
(* every statement the relay runs leaves PUBLISHED and FAILED rows alone.       *)
THEOREM Settled == Spec => SettledIsFinal
<1> DEFINE Kept == \A e \in Event :
                     status[e] \in {"PUBLISHED", "FAILED"} => status'[e] = status[e]
<1>1. TypeOK /\ [Next]_vars => Kept
  <2> SUFFICES ASSUME TypeOK, [Next]_vars,
                      NEW f \in Event, status[f] \in {"PUBLISHED", "FAILED"}
               PROVE  status'[f] = status[f]
      OBVIOUS
  <2>1. ASSUME NEW e \in Event, Enqueue(e) PROVE status'[f] = status[f]
      BY <2>1 DEF Enqueue, TypeOK
  <2>2. ASSUME NEW w \in Worker, ClaimBatch(w) PROVE status'[f] = status[f]
      BY <2>2, ClaimStep DEF Claims, TypeOK
  <2>3. ASSUME NEW w \in Worker, MarkPublished(w) PROVE status'[f] = status[f]
      BY <2>3 DEF MarkPublished
  <2>4. ASSUME NEW w \in Worker, NEW k \in releasing[w], ReleaseForRetry(w, k)
        PROVE status'[f] = status[f]
      BY <2>4 DEF ReleaseForRetry, TypeOK
  <2>5. CASE UNCHANGED status
      BY <2>5
  <2> QED
      BY <2>1, <2>2, <2>3, <2>4, <2>5
      DEF Next, Settle, BackoffElapses, LeaseExpires, SendChunk, PublishFails,
          ReleaseFails, Crash, Stop, rows, vars
<1>2. TypeOK /\ [Next]_vars => [Kept]_vars
    BY <1>1
<1> QED
    BY <1>2, TypeCorrect, PTL DEF Spec, SettledIsFinal

-----------------------------------------------------------------------------
(* The inductive invariant.  A claim is sent at most once and by one worker, so *)
(* the sends still to come and the ones SQS accepted share out the claims.       *)

(* The attempts of e that some worker has yet to send.                           *)
Unsent(e) == {n \in 1..attempts[e] :
                \E w \in Worker : [event |-> e, attempt |-> n] \in waiting[w]}

Held(w) == waiting[w] \cup chunk[w] \cup publishing[w] \cup releasing[w]

ClaimsAreCounted ==
    \A w \in Worker : \A k \in Held(w) : k.attempt \in 1..attempts[k.event]

OneHolder ==
    \A v, w \in Worker : \A k \in waiting[v] \cap waiting[w] : v = w

PublishingWasDelivered ==
    \A w \in Worker : \A k \in publishing[w] : delivered[k.event] > 0

SendsShareClaims ==
    \A e \in Event : delivered[e] + Cardinality(Unsent(e)) <= attempts[e]

RelayInv ==
    /\ ClaimsAreCounted
    /\ OneHolder
    /\ PublishingWasDelivered
    /\ PublishedWasDelivered
    /\ SendsShareClaims
    /\ FailedIsExhausted

LEMMA NumberedSubset ==
    ASSUME NEW n \in Nat, NEW S \in SUBSET (1..n)
    PROVE  IsFiniteSet(S) /\ Cardinality(S) \in Nat
<1>1. IsFiniteSet(1..n)
    BY FS_Interval
<1> QED
    BY <1>1, FS_Subset, FS_CardinalityType

LEMMA AddAtMostOne ==
    ASSUME NEW S, NEW x, IsFiniteSet(S)
    PROVE  IsFiniteSet(S \cup {x}) /\ Cardinality(S \cup {x}) <= Cardinality(S) + 1
<1>1. Cardinality(S) \in Nat
    BY FS_CardinalityType
<1>2. CASE x \in S
    BY <1>1, <1>2, FS_AddElement
<1>3. CASE x \notin S
    BY <1>1, <1>3, FS_AddElement
<1> QED
    BY <1>2, <1>3

LEMMA UnsentIsFinite ==
    ASSUME TypeOK, NEW e \in Event
    PROVE  IsFiniteSet(Unsent(e)) /\ Cardinality(Unsent(e)) \in Nat
<1>1. attempts[e] \in Nat /\ Unsent(e) \in SUBSET (1..attempts[e])
    BY DEF Unsent, TypeOK
<1> QED
    BY <1>1, NumberedSubset

LEMMA UnsentStaysFinite ==
    ASSUME TypeOK', NEW e \in Event
    PROVE  IsFiniteSet(Unsent(e)') /\ Cardinality(Unsent(e)') \in Nat
<1>1. attempts'[e] \in Nat /\ Unsent(e)' \in SUBSET (1..attempts'[e])
    BY DEF Unsent, TypeOK
<1> QED
    BY <1>1, NumberedSubset

(* A step that only takes claims away from workers leaves fewer to send.         *)
LEMMA UnsentShrinks ==
    ASSUME TypeOK, NEW e \in Event, attempts'[e] = attempts[e],
           \A w \in Worker : waiting'[w] \subseteq waiting[w]
    PROVE  /\ Unsent(e)' \subseteq Unsent(e)
           /\ Cardinality(Unsent(e)') <= Cardinality(Unsent(e))
<1>1. Unsent(e)' \subseteq Unsent(e)
    BY DEF Unsent
<1> QED
    BY <1>1, UnsentIsFinite, FS_Subset

(* A claim adds one send for each event of the batch, and one attempt.            *)
LEMMA ClaimShares ==
    ASSUME TypeOK, TypeOK', SendsShareClaims, NEW w \in Worker, ClaimBatch(w)
    PROVE  SendsShareClaims'
<1>1. PICK S \in SUBSET Event : Claims(w, S)
    BY ClaimStep
<1> USE DEF Claims
<1> SUFFICES ASSUME NEW f \in Event
             PROVE  delivered'[f] + Cardinality(Unsent(f)') <= attempts'[f]
    BY DEF SendsShareClaims
<1>2. /\ delivered[f] + Cardinality(Unsent(f)) <= attempts[f]
      /\ delivered[f] \in Nat /\ attempts[f] \in Nat
      /\ Cardinality(Unsent(f)) \in Nat /\ Cardinality(Unsent(f)') \in Nat
      /\ IsFiniteSet(Unsent(f))
    BY UnsentIsFinite, UnsentStaysFinite DEF SendsShareClaims, TypeOK
<1>3. Unsent(f)' \subseteq Unsent(f) \cup {attempts'[f]}
  <2> SUFFICES ASSUME NEW n \in Unsent(f)' PROVE n \in Unsent(f) \/ n = attempts'[f]
      OBVIOUS
  <2>1. PICK v \in Worker : [event |-> f, attempt |-> n] \in waiting'[v]
      BY DEF Unsent
  <2>2. CASE v = w
    <3>1. waiting'[w] = {[event |-> e, attempt |-> attempts[e] + 1] : e \in S}
        BY <1>1 DEF TypeOK
    <3>2. PICK e \in S : [event |-> f, attempt |-> n] = [event |-> e, attempt |-> attempts[e] + 1]
        BY <2>1, <2>2, <3>1
    <3>3. f = e /\ n = attempts[e] + 1
        BY <3>2
    <3> QED
        BY <1>1, <3>3
  <2>3. CASE v # w
    <3>1. [event |-> f, attempt |-> n] \in waiting[v]
        BY <1>1, <2>1, <2>3 DEF TypeOK
    <3>2. n \in 1..attempts'[f] /\ attempts'[f] \in {attempts[f], attempts[f] + 1}
        BY <1>1 DEF Unsent
    <3>3. n \in 1..attempts[f] \/ n = attempts'[f]
        BY <1>2, <3>2
    <3> QED
        BY <3>1, <3>3 DEF Unsent
  <2> QED
      BY <2>2, <2>3
<1>4. CASE f \in S
  <2>1. attempts'[f] = attempts[f] + 1
      BY <1>1, <1>4
  <2>2. /\ IsFiniteSet(Unsent(f) \cup {attempts'[f]})
        /\ Cardinality(Unsent(f) \cup {attempts'[f]}) <= Cardinality(Unsent(f)) + 1
      BY <1>2, AddAtMostOne
  <2>3. Cardinality(Unsent(f)') <= Cardinality(Unsent(f) \cup {attempts'[f]})
      BY <1>3, <2>2, FS_Subset
  <2>4. Cardinality(Unsent(f) \cup {attempts'[f]}) \in Nat
      BY <2>2, FS_CardinalityType
  <2> QED
      BY <1>1, <1>2, <2>1, <2>2, <2>3, <2>4
<1>5. CASE f \notin S
  <2>1. attempts'[f] = attempts[f]
      BY <1>1, <1>5
  <2>2. Unsent(f)' \subseteq Unsent(f)
      BY <1>1, <1>5, <2>1 DEF Unsent, TypeOK
  <2>3. Cardinality(Unsent(f)') <= Cardinality(Unsent(f))
      BY <1>2, <2>2, FS_Subset
  <2> QED
      BY <1>1, <1>2, <2>1, <2>3
<1> QED
    BY <1>4, <1>5

(* An accepted claim was still to be sent, and nobody else holds it: what SQS      *)
(* accepts is paid for by a send that is no longer to come.                        *)
LEMMA SendShares ==
    ASSUME TypeOK, TypeOK', ClaimsAreCounted, OneHolder, SendsShareClaims,
           NEW w \in Worker, SendChunk(w)
    PROVE  SendsShareClaims'
<1>1. PICK K, accepted, R \in SUBSET waiting[w] : Sends(w, K, accepted, R)
    BY SendStep
<1> USE DEF Sends
<1> SUFFICES ASSUME NEW f \in Event
             PROVE  delivered'[f] + Cardinality(Unsent(f)') <= attempts'[f]
    BY DEF SendsShareClaims
<1>3. /\ delivered[f] + Cardinality(Unsent(f)) <= attempts[f]
      /\ delivered[f] \in Nat /\ attempts[f] \in Nat /\ attempts'[f] = attempts[f]
      /\ Cardinality(Unsent(f)) \in Nat /\ Cardinality(Unsent(f)') \in Nat
      /\ IsFiniteSet(Unsent(f))
    BY <1>1, UnsentIsFinite, UnsentStaysFinite DEF SendsShareClaims, TypeOK, rows
<1>4. \A v \in Worker : waiting'[v] \subseteq waiting[v]
    BY <1>1 DEF TypeOK
<1>5. Unsent(f)' \subseteq Unsent(f) /\ Cardinality(Unsent(f)') <= Cardinality(Unsent(f))
    BY <1>3, <1>4, UnsentShrinks
<1>6. CASE \E k \in accepted : k.event = f
  <2>1. PICK k \in accepted : k.event = f
      BY <1>6
  <2>2. /\ k \in waiting[w] /\ k \in K /\ k \in Claim
        /\ k = [event |-> f, attempt |-> k.attempt]
      BY <1>1, <2>1 DEF TypeOK, Claim
  <2>3. k.attempt \in Unsent(f)
      BY <2>2 DEF Unsent, ClaimsAreCounted, Held
  <2>4. \A v \in Worker : k \notin waiting'[v]
      BY <1>1, <2>2 DEF OneHolder, TypeOK
  <2>5. Unsent(f)' \subseteq Unsent(f) \ {k.attempt}
      BY <1>5, <2>2, <2>4 DEF Unsent
  <2>6. /\ IsFiniteSet(Unsent(f) \ {k.attempt})
        /\ Cardinality(Unsent(f) \ {k.attempt}) = Cardinality(Unsent(f)) - 1
      BY <1>3, <2>3, FS_RemoveElement
  <2>7. Cardinality(Unsent(f)') <= Cardinality(Unsent(f)) - 1
      BY <2>5, <2>6, FS_Subset
  <2>8. delivered'[f] = delivered[f] + 1
      BY <1>1, <1>6 DEF Deliver, TypeOK
  <2> QED
      BY <1>3, <2>7, <2>8
<1>7. CASE ~ \E k \in accepted : k.event = f
  <2>1. delivered'[f] = delivered[f]
      BY <1>1, <1>7 DEF Deliver, TypeOK
  <2> QED
      BY <1>3, <1>5, <2>1
<1> QED
    BY <1>6, <1>7

(* Attempts and deliveries only grow.                                             *)
LEMMA CountersGrow ==
    ASSUME TypeOK, TypeOK', [Next]_vars, NEW e \in Event
    PROVE  attempts[e] <= attempts'[e] /\ delivered[e] <= delivered'[e]
<1>1. ASSUME NEW w \in Worker, ClaimBatch(w)
      PROVE attempts[e] <= attempts'[e] /\ delivered' = delivered
    BY <1>1, ClaimStep DEF Claims, TypeOK
<1>2. ASSUME NEW w \in Worker, SendChunk(w)
      PROVE attempts' = attempts /\ delivered[e] <= delivered'[e]
    BY <1>2, SendStep DEF Sends, Deliver, rows, TypeOK
<1>3. CASE UNCHANGED <<attempts, delivered>>
    BY <1>3 DEF TypeOK
<1>4. attempts[e] <= attempts[e] /\ delivered[e] <= delivered[e]
    BY DEF TypeOK
<1> QED
    BY <1>1, <1>2, <1>3, <1>4
    DEF Next, Settle, Enqueue, BackoffElapses, LeaseExpires, MarkPublished,
        ReleaseForRetry, PublishFails, ReleaseFails, Crash, Stop, rows, local, vars

(* The claim just counted. *)
Fresh(k) ==
    /\ k.event \in Event
    /\ k.attempt = attempts[k.event] + 1
    /\ attempts'[k.event] = attempts[k.event] + 1

(* Whatever a worker holds after a step it held before, or has just claimed.       *)
LEMMA HeldStep ==
    ASSUME TypeOK, TypeOK', [Next]_vars, NEW w \in Worker, NEW k \in Held(w)'
    PROVE  k \in Held(w) \/ Fresh(k)
<1>1. ASSUME NEW v \in Worker, ClaimBatch(v)
      PROVE k \in Held(w) \/ Fresh(k)
  <2>1. PICK S \in SUBSET Event : Claims(v, S)
      BY <1>1, ClaimStep
  <2> USE DEF Claims
  <2>2. /\ waiting'[w] \subseteq waiting[w] \cup
                {[event |-> e, attempt |-> attempts[e] + 1] : e \in S}
        /\ chunk'[w] = chunk[w]
        /\ publishing'[w] = publishing[w]
        /\ releasing'[w] = releasing[w]
      BY <2>1 DEF TypeOK
  <2>3. CASE k \in {[event |-> e, attempt |-> attempts[e] + 1] : e \in S}
    <3>1. PICK e \in S : k = [event |-> e, attempt |-> attempts[e] + 1]
        BY <2>3
    <3>2. k.event = e /\ k.attempt = attempts[e] + 1
        BY <3>1
    <3> QED
        BY <2>1, <3>2 DEF Fresh
  <2> QED
      BY <2>2, <2>3 DEF Held
<1>2. ASSUME NEW v \in Worker, SendChunk(v) PROVE k \in Held(w)
  <2>1. PICK K, accepted, R \in SUBSET waiting[v] : Sends(v, K, accepted, R)
      BY <1>2, SendStep
  <2> USE DEF Sends
  <2>2. /\ waiting'[w] \subseteq waiting[w]
        /\ chunk'[w] \subseteq chunk[w] \cup waiting[w]
      BY <2>1 DEF TypeOK
  <2>3. publishing'[w] \subseteq publishing[w] \cup waiting[w]
      BY <2>1 DEF TypeOK
  <2>4. releasing'[w] \subseteq releasing[w] \cup waiting[w]
      BY <2>1 DEF TypeOK
  <2> QED
      BY <2>2, <2>3, <2>4 DEF Held
<1>3. ASSUME NEW v \in Worker, MarkPublished(v) PROVE k \in Held(w)
  <2>1. waiting'[w] = waiting[w] /\ releasing'[w] = releasing[w]
      BY <1>3 DEF MarkPublished
  <2>2. publishing'[w] \subseteq publishing[w] /\ chunk'[w] \subseteq chunk[w]
      BY <1>3 DEF MarkPublished, EndChunk, TypeOK
  <2> QED
      BY <2>1, <2>2 DEF Held
<1>4. ASSUME NEW v \in Worker, NEW j \in releasing[v], ReleaseForRetry(v, j)
      PROVE k \in Held(w)
  <2>1. waiting'[w] = waiting[w] /\ publishing'[w] = publishing[w]
      BY <1>4 DEF ReleaseForRetry
  <2>2. releasing'[w] \subseteq releasing[w] /\ chunk'[w] \subseteq chunk[w]
      BY <1>4 DEF ReleaseForRetry, EndChunk, TypeOK
  <2> QED
      BY <2>1, <2>2 DEF Held
<1>5. ASSUME NEW v \in Worker, PublishFails(v) \/ ReleaseFails(v) PROVE k \in Held(w)
  <2>1. waiting'[w] = waiting[w] /\ chunk'[w] = chunk[w]
      BY <1>5 DEF PublishFails, ReleaseFails
  <2>2. publishing'[w] \subseteq publishing[w]
      BY <1>5 DEF PublishFails, ReleaseFails, TypeOK
  <2>3. releasing'[w] \subseteq releasing[w] \cup chunk[w]
      BY <1>5 DEF PublishFails, ReleaseFails, TypeOK
  <2> QED
      BY <2>1, <2>2, <2>3 DEF Held
<1>6. ASSUME NEW v \in Worker, Crash(v) PROVE k \in Held(w)
  <2>1. waiting'[w] \subseteq waiting[w] /\ chunk'[w] \subseteq chunk[w]
      BY <1>6 DEF Crash, Stop, TypeOK
  <2>2. publishing'[w] \subseteq publishing[w] /\ releasing'[w] \subseteq releasing[w]
      BY <1>6 DEF Crash, Stop, TypeOK
  <2> QED
      BY <2>1, <2>2 DEF Held
<1>7. CASE UNCHANGED local
    BY <1>7 DEF local, Held
<1> QED
    BY <1>1, <1>2, <1>3, <1>4, <1>5, <1>6, <1>7
    DEF Next, Settle, Enqueue, BackoffElapses, LeaseExpires, vars

LEMMA CountedStep ==
    ASSUME TypeOK, TypeOK', ClaimsAreCounted, [Next]_vars PROVE ClaimsAreCounted'
<1> SUFFICES ASSUME NEW w \in Worker, NEW k \in Held(w)'
             PROVE  k.attempt \in 1..attempts'[k.event]
    BY DEF ClaimsAreCounted
<1>1. k \in Claim
    BY DEF Held, TypeOK
<1>2. /\ k.event \in Event
      /\ attempts[k.event] \in Nat /\ attempts'[k.event] \in Nat
      /\ attempts[k.event] <= attempts'[k.event]
    BY <1>1, CountersGrow DEF TypeOK, Claim
<1>3. CASE k \in Held(w)
    BY <1>2, <1>3 DEF ClaimsAreCounted
<1>4. CASE Fresh(k)
    BY <1>2, <1>4 DEF Fresh
<1> QED
    BY <1>2, <1>3, <1>4, HeldStep

(* Only a claim gives a worker something to send, and it is new to everyone.       *)
LEMMA OneHolderStep ==
    ASSUME TypeOK, TypeOK', ClaimsAreCounted, OneHolder, [Next]_vars PROVE OneHolder'
<1>1. ASSUME NEW w \in Worker, ClaimBatch(w) PROVE OneHolder'
  <2>1. PICK S \in SUBSET Event : Claims(w, S)
      BY <1>1, ClaimStep
  <2> USE DEF Claims
  <2>2. \A v \in Worker \ {w} : waiting'[v] = waiting[v]
      BY <2>1 DEF TypeOK
  <2>3. ASSUME NEW v \in Worker \ {w}, NEW k \in waiting'[v], k \in waiting'[w]
        PROVE FALSE
    <3>1. waiting'[w] = {[event |-> e, attempt |-> attempts[e] + 1] : e \in S}
        BY <2>1 DEF TypeOK
    <3>2. PICK e \in S : k = [event |-> e, attempt |-> attempts[e] + 1]
        BY <2>3, <3>1
    <3>3. k.event = e /\ k.attempt = attempts[e] + 1 /\ attempts[e] \in Nat
        BY <3>2 DEF TypeOK
    <3>4. k.attempt \in 1..attempts[e]
        BY <2>2, <2>3, <3>3 DEF ClaimsAreCounted, Held
    <3> QED
        BY <3>3, <3>4
  <2> QED
      BY <2>2, <2>3 DEF OneHolder
<1>2. CASE \A w \in Worker : waiting'[w] \subseteq waiting[w]
    BY <1>2 DEF OneHolder
<1>3. ASSUME NEW w \in Worker, SendChunk(w)
      PROVE \A v \in Worker : waiting'[v] \subseteq waiting[v]
    BY <1>3, SendStep DEF Sends, TypeOK
<1>4. ASSUME NEW w \in Worker, Crash(w)
      PROVE \A v \in Worker : waiting'[v] \subseteq waiting[v]
    BY <1>4 DEF Crash, Stop, TypeOK
<1> QED
    BY <1>1, <1>2, <1>3, <1>4
    DEF Next, Settle, Enqueue, BackoffElapses, LeaseExpires, MarkPublished,
        ReleaseForRetry, PublishFails, ReleaseFails, rows, local, vars

LEMMA SharesStep ==
    ASSUME TypeOK, TypeOK', ClaimsAreCounted, OneHolder, SendsShareClaims, [Next]_vars
    PROVE  SendsShareClaims'
<1>1. ASSUME NEW w \in Worker, ClaimBatch(w) PROVE SendsShareClaims'
    BY <1>1, ClaimShares
<1>2. ASSUME NEW w \in Worker, SendChunk(w) PROVE SendsShareClaims'
    BY <1>2, SendShares
<1>3. CASE /\ UNCHANGED <<attempts, delivered>>
           /\ \A w \in Worker : waiting'[w] \subseteq waiting[w]
  <2> SUFFICES ASSUME NEW e \in Event
               PROVE  delivered'[e] + Cardinality(Unsent(e)') <= attempts'[e]
      BY DEF SendsShareClaims
  <2>1. Cardinality(Unsent(e)') <= Cardinality(Unsent(e))
      BY <1>3, UnsentShrinks
  <2>2. /\ Cardinality(Unsent(e)) \in Nat /\ Cardinality(Unsent(e)') \in Nat
        /\ delivered[e] \in Nat /\ attempts[e] \in Nat
      BY UnsentIsFinite, UnsentStaysFinite DEF TypeOK
  <2>3. delivered[e] + Cardinality(Unsent(e)) <= attempts[e]
      BY DEF SendsShareClaims
  <2> QED
      BY <1>3, <2>1, <2>2, <2>3
<1>4. ASSUME NEW w \in Worker, Crash(w)
      PROVE \A v \in Worker : waiting'[v] \subseteq waiting[v]
    BY <1>4 DEF Crash, Stop, TypeOK
<1> QED
    BY <1>1, <1>2, <1>3, <1>4
    DEF Next, Settle, Enqueue, BackoffElapses, LeaseExpires, MarkPublished,
        ReleaseForRetry, PublishFails, ReleaseFails, Crash, Stop, rows, local, vars

(* What a worker is about to mark published, SQS has answered for.                 *)
LEMMA PublishingStep ==
    ASSUME TypeOK, TypeOK', PublishingWasDelivered, [Next]_vars
    PROVE  PublishingWasDelivered'
<1>1. ASSUME NEW w \in Worker, SendChunk(w) PROVE PublishingWasDelivered'
  <2>1. PICK K, accepted, R \in SUBSET waiting[w] : Sends(w, K, accepted, R)
      BY <1>1, SendStep
  <2> SUFFICES ASSUME NEW v \in Worker, NEW k \in publishing'[v]
               PROVE  delivered'[k.event] > 0
      BY DEF PublishingWasDelivered
  <2>2. k \in publishing[v] \/ k \in accepted
      BY <2>1 DEF Sends, TypeOK
  <2>3. k.event \in Event /\ delivered[k.event] \in Nat
      BY DEF TypeOK, Claim
  <2>4. CASE k \in accepted
      BY <2>1, <2>3, <2>4 DEF Sends, Deliver
  <2>5. CASE k \in publishing[v]
    <3>1. delivered[k.event] > 0 /\ delivered'[k.event] \in Nat
        BY <2>3, <2>5 DEF PublishingWasDelivered, TypeOK
    <3> QED
        BY <2>3, <3>1, CountersGrow
  <2> QED
      BY <2>2, <2>4, <2>5
<1>2. CASE /\ delivered' = delivered
           /\ \A w \in Worker : publishing'[w] \subseteq publishing[w]
    BY <1>2 DEF PublishingWasDelivered
<1>3. ASSUME NEW w \in Worker, ClaimBatch(w)
      PROVE UNCHANGED <<delivered, publishing>>
    BY <1>3, ClaimStep DEF Claims
<1>4. ASSUME NEW w \in Worker,
             MarkPublished(w) \/ PublishFails(w) \/ ReleaseFails(w) \/ Crash(w)
      PROVE /\ delivered' = delivered
            /\ \A v \in Worker : publishing'[v] \subseteq publishing[v]
    BY <1>4 DEF MarkPublished, PublishFails, ReleaseFails, Crash, Stop, TypeOK
<1> QED
    BY <1>1, <1>2, <1>3, <1>4
    DEF Next, Settle, Enqueue, BackoffElapses, LeaseExpires, ReleaseForRetry, rows,
        local, vars

(* A row is settled by a statement that had the right to.                           *)
LEMMA SettlingStep ==
    ASSUME TypeOK, TypeOK', RelayInv, [Next]_vars
    PROVE  PublishedWasDelivered' /\ FailedIsExhausted'
<1> DEFINE Sound(f) == /\ status'[f] = "PUBLISHED" => delivered'[f] > 0
                       /\ status'[f] = "FAILED" => attempts'[f] >= MaxAttempts
<1> SUFFICES ASSUME NEW f \in Event PROVE Sound(f)
    BY DEF PublishedWasDelivered, FailedIsExhausted
<1>1. /\ delivered[f] \in Nat /\ delivered'[f] \in Nat /\ delivered[f] <= delivered'[f]
      /\ attempts[f] \in Nat /\ attempts'[f] \in Nat /\ attempts[f] <= attempts'[f]
      /\ MaxAttempts \in Nat
    BY CountersGrow, SizesAssumption DEF TypeOK
<1>2. CASE status'[f] \in {status[f], "PENDING", "PROCESSING"}
    BY <1>1, <1>2 DEF RelayInv, PublishedWasDelivered, FailedIsExhausted
<1>3. ASSUME NEW w \in Worker, ClaimBatch(w)
      PROVE status'[f] \in {status[f], "PENDING", "PROCESSING"}
    BY <1>3, ClaimStep DEF Claims
<1>4. ASSUME NEW w \in Worker, MarkPublished(w) PROVE Sound(f)
  <2>1. CASE status'[f] = status[f]
      BY <1>2, <2>1
  <2>2. CASE status'[f] # status[f]
    <3>1. status'[f] = "PUBLISHED" /\ \E k \in publishing[w] : k.event = f
        BY <1>4, <2>2 DEF MarkPublished
    <3>2. delivered[f] > 0
        BY <3>1 DEF RelayInv, PublishingWasDelivered
    <3> QED
        BY <1>1, <3>1, <3>2
  <2> QED
      BY <2>1, <2>2
<1>5. ASSUME NEW w \in Worker, NEW k \in releasing[w], ReleaseForRetry(w, k)
      PROVE Sound(f)
  <2>1. k.attempt \in 1..attempts[k.event]
      BY DEF RelayInv, ClaimsAreCounted, Held
  <2>2. CASE status'[f] = "FAILED" /\ status[f] # "FAILED"
    <3>1. k.event = f /\ k.attempt >= MaxAttempts
        BY <1>5, <2>2 DEF ReleaseForRetry, Released, TypeOK
    <3> QED
        BY <1>1, <2>1, <2>2, <3>1
  <2>3. CASE status'[f] \in {status[f], "PENDING"}
      BY <1>2, <2>3
  <2>4. status'[f] \in {status[f], "PENDING", "FAILED"}
      BY <1>5 DEF ReleaseForRetry, Released, TypeOK
  <2> QED
      BY <2>2, <2>3, <2>4
<1>6. ASSUME NEW e \in Event, Enqueue(e)
      PROVE status'[f] \in {status[f], "PENDING", "PROCESSING"}
    BY <1>6 DEF Enqueue, TypeOK
<1> QED
    BY <1>2, <1>3, <1>4, <1>5, <1>6
    DEF Next, Settle, BackoffElapses, LeaseExpires, SendChunk, PublishFails,
        ReleaseFails, Crash, Stop, rows, vars

(* The inductive invariant holds of every behaviour.                                *)
THEOREM RelayInvariant == Spec => []RelayInv
<1>1. Init => RelayInv
  <2> SUFFICES ASSUME Init PROVE RelayInv
      OBVIOUS
  <2>1. \A e \in Event : Unsent(e) = {}
    <3>1. \A e \in Event, w \in Worker : waiting[w] = {}
        BY DEF Init
    <3> QED
        BY <3>1 DEF Unsent
  <2>2. SendsShareClaims
    <3>1. \A e \in Event : Cardinality(Unsent(e)) = 0
        BY <2>1, FS_EmptySet
    <3> QED
        BY <3>1 DEF Init, SendsShareClaims
  <2> QED
      BY <2>2 DEF Init, RelayInv, ClaimsAreCounted, OneHolder, PublishingWasDelivered,
                  PublishedWasDelivered, FailedIsExhausted, Held
<1>2. TypeOK /\ TypeOK' /\ RelayInv /\ [Next]_vars => RelayInv'
    BY CountedStep, OneHolderStep, PublishingStep, SharesStep, SettlingStep DEF RelayInv
<1> QED
    BY <1>1, <1>2, TypeCorrect, PTL DEF Spec

(* PUBLISHED rows were accepted by SQS, whichever worker wrote the status.           *)
THEOREM Published == Spec => []PublishedWasDelivered
<1>1. RelayInv => PublishedWasDelivered
    BY DEF RelayInv
<1> QED
    BY <1>1, RelayInvariant, PTL

(* No event is accepted more often than it was claimed.                              *)
THEOREM Bounded == Spec => []DeliveriesBoundedByClaims
<1>1. TypeOK /\ RelayInv => DeliveriesBoundedByClaims
  <2> SUFFICES ASSUME TypeOK, RelayInv, NEW e \in Event
               PROVE  delivered[e] <= attempts[e]
      BY DEF DeliveriesBoundedByClaims
  <2>1. Cardinality(Unsent(e)) \in Nat
      BY UnsentIsFinite
  <2> QED
      BY <2>1 DEF RelayInv, SendsShareClaims, TypeOK
<1> QED
    BY <1>1, TypeCorrect, RelayInvariant, PTL

(* The relay gives up only after the limit, even when leases change hands.            *)
THEOREM Exhausted == Spec => []FailedIsExhausted
<1>1. RelayInv => FailedIsExhausted
    BY DEF RelayInv
<1> QED
    BY <1>1, RelayInvariant, PTL

-----------------------------------------------------------------------------
(* Every step of the relay is one of EventDelivery, or changes nothing that can be    *)
(* seen from outside.                                                                 *)
OutcomeKept == \A e \in Event : Outcome(status'[e]) = Outcome(status[e])

LEMMA NothingSeen ==
    ASSUME OutcomeKept, UNCHANGED <<attempts, delivered>>
    PROVE  UNCHANGED Delivery!vars
BY DEF OutcomeKept, outcome, Delivery!vars

LEMMA EnqueueIsCommit ==
    ASSUME TypeOK, NEW e \in Event, Enqueue(e)
    PROVE  Delivery!Commit(e)
<1>1. status' = [status EXCEPT ![e] = "PENDING"] /\ status[e] = "ABSENT"
    BY DEF Enqueue
<1>2. outcome' = [outcome EXCEPT ![e] = "OPEN"]
    BY <1>1 DEF outcome, Outcome, TypeOK
<1>3. outcome[e] = "NONE"
    BY <1>1 DEF outcome, Outcome
<1> QED
    BY <1>2, <1>3 DEF Enqueue, Delivery!Commit

LEMMA ClaimIsAttempt ==
    ASSUME TypeOK, NEW w \in Worker, ClaimBatch(w)
    PROVE  \E S \in SUBSET Event : Delivery!Attempt(S)
<1>1. PICK S \in SUBSET Event : Claims(w, S)
    BY ClaimStep
<1>2. Delivery!Open(S)
    BY <1>1 DEF Claims, Delivery!Open, outcome, Outcome
<1>3. outcome' = outcome
    BY <1>1 DEF Claims, outcome, Outcome
<1> QED
    BY <1>1, <1>2, <1>3 DEF Claims, Delivery!Attempt

(* What the queue takes is within the attempts, since it still is afterwards.          *)
LEMMA SendIsAccept ==
    ASSUME TypeOK, DeliveriesBoundedByClaims', NEW w \in Worker, SendChunk(w)
    PROVE  \E S \in SUBSET Event : Delivery!Accept(S)
<1>1. PICK K, taken, R \in SUBSET waiting[w] : Sends(w, K, taken, R)
    BY SendStep
<1> DEFINE S == {e \in Event : \E k \in taken : k.event = e}
<1>2. delivered' = [e \in Event |-> IF e \in S THEN delivered[e] + 1 ELSE delivered[e]]
    BY <1>1 DEF Sends, Deliver
<1>3. UNCHANGED <<status, attempts>>
    BY <1>1 DEF Sends, rows
<1>4. \A e \in S : delivered[e] < attempts[e]
    BY <1>2, <1>3 DEF DeliveriesBoundedByClaims, TypeOK
<1>5. outcome' = outcome
    BY <1>3 DEF outcome
<1> QED
    BY <1>2, <1>3, <1>4, <1>5 DEF Delivery!Accept

LEMMA MarkIsPublish ==
    ASSUME TypeOK, RelayInv, NEW w \in Worker, MarkPublished(w)
    PROVE  \E S \in SUBSET Event : Delivery!Publish(S)
<1> DEFINE S == {e \in Event : status[e] = "PROCESSING" /\ \E k \in publishing[w] : k.event = e}
<1>1. status' = [e \in Event |-> IF e \in S THEN "PUBLISHED" ELSE status[e]]
    BY DEF MarkPublished
<1>2. Delivery!Open(S)
    BY DEF Delivery!Open, outcome, Outcome
<1>3. \A e \in S : delivered[e] > 0
    BY DEF RelayInv, PublishingWasDelivered
<1>4. outcome' = [e \in Event |-> IF e \in S THEN "PUBLISHED" ELSE outcome[e]]
    BY <1>1 DEF outcome, Outcome
<1> QED
    BY <1>2, <1>3, <1>4 DEF MarkPublished, Delivery!Publish

(* A release either leaves the row open, or ends it when the claims are used up.       *)
LEMMA ReleaseIsGiveUp ==
    ASSUME TypeOK, RelayInv, NEW w \in Worker, NEW k \in releasing[w], ReleaseForRetry(w, k)
    PROVE  Delivery!GiveUp(k.event) \/ UNCHANGED Delivery!vars
<1>1. k.event \in Event /\ k.attempt \in 1..attempts[k.event]
    BY DEF RelayInv, ClaimsAreCounted, Held, TypeOK, Claim
<1>2. UNCHANGED <<attempts, delivered>>
    BY DEF ReleaseForRetry
<1>3. CASE status[k.event] = "PROCESSING" /\ k.attempt >= MaxAttempts
  <2>1. status' = [status EXCEPT ![k.event] = "FAILED"]
      BY <1>3 DEF ReleaseForRetry, Released
  <2>2. outcome' = [outcome EXCEPT ![k.event] = "FAILED"]
      BY <1>1, <2>1 DEF outcome, Outcome, TypeOK
  <2>3. outcome[k.event] = "OPEN"
      BY <1>1, <1>3 DEF outcome, Outcome
  <2>4. attempts[k.event] >= MaxAttempts
      BY <1>1, <1>3, SizesAssumption DEF TypeOK
  <2> QED
      BY <1>2, <2>2, <2>3, <2>4 DEF Delivery!GiveUp
<1>4. CASE ~(status[k.event] = "PROCESSING" /\ k.attempt >= MaxAttempts)
  <2>1. OutcomeKept
      BY <1>1, <1>4 DEF ReleaseForRetry, Released, OutcomeKept, Outcome, TypeOK
  <2> QED
      BY <1>2, <2>1, NothingSeen
<1> QED
    BY <1>3, <1>4

LEMMA DeliveryStep ==
    ASSUME TypeOK, RelayInv, DeliveriesBoundedByClaims', [Next]_vars
    PROVE  [Delivery!Next]_Delivery!vars
<1>1. ASSUME NEW e \in Event, Enqueue(e) PROVE Delivery!Next
    BY <1>1, EnqueueIsCommit DEF Delivery!Next
<1>2. ASSUME NEW w \in Worker, ClaimBatch(w) PROVE Delivery!Next
    BY <1>2, ClaimIsAttempt DEF Delivery!Next
<1>3. ASSUME NEW w \in Worker, SendChunk(w) PROVE Delivery!Next
    BY <1>3, SendIsAccept DEF Delivery!Next
<1>4. ASSUME NEW w \in Worker, MarkPublished(w) PROVE Delivery!Next
    BY <1>4, MarkIsPublish DEF Delivery!Next
<1>5. ASSUME NEW w \in Worker, NEW k \in releasing[w], ReleaseForRetry(w, k)
      PROVE  Delivery!Next \/ UNCHANGED Delivery!vars
  <2>1. k.event \in Event
      BY DEF TypeOK, Claim
  <2> QED
      BY <1>5, <2>1, ReleaseIsGiveUp DEF Delivery!Next
<1>6. CASE UNCHANGED <<status, attempts, delivered>>
  <2>1. OutcomeKept
      BY <1>6 DEF OutcomeKept
  <2> QED
      BY <1>6, <2>1, NothingSeen
<1> QED
    BY <1>1, <1>2, <1>3, <1>4, <1>5, <1>6
    DEF Next, Settle, BackoffElapses, LeaseExpires, PublishFails, ReleaseFails, Crash,
        Stop, rows, vars

(* The relay delivers events the way EventDelivery says, however many workers overlap, *)
(* die or settle late.                                                                 *)
THEOREM DeliveryImplemented == Spec => ImplementsDelivery
<1>1. Init => Delivery!Init
    BY DEF Init, Delivery!Init, outcome, Outcome
<1>2. TypeOK /\ RelayInv /\ DeliveriesBoundedByClaims' /\ [Next]_vars
        => [Delivery!Next]_Delivery!vars
    BY DeliveryStep
<1> QED
    BY <1>1, <1>2, TypeCorrect, RelayInvariant, Bounded, PTL
    DEF Spec, ImplementsDelivery, Delivery!Spec

=============================================================================
