-------------------------- MODULE TransactionsProofs --------------------------
(***************************************************************************)
(* What Transactions promises of any number of orders, buyers, references,  *)
(* prices and requests in progress, under each provider.                    *)
(***************************************************************************)
EXTENDS Transactions, FiniteSetTheorems, TLAPS

-----------------------------------------------------------------------------
(* The invariant.  A reference that someone was sent to stays what it is:   *)
(* payments only make progress.                                             *)
Live(r) == account[r].held \notin {"none", "made"}

HasPayment(t) ==
    \E r \in Ref : /\ account[r].for = t
                   /\ account[r].held \in Paid
                   /\ account[r].amount = tx[t].amount

(* An order names a reference that was made for it, with Escrow.com of its amount.  *)
NamesOwn(t) ==
    /\ tx[t].ref # NoRef => Live(tx[t].ref) /\ account[tx[t].ref].for = t
    /\ EscrowEnabled => tx[t].ref # NoRef /\ account[tx[t].ref].amount = tx[t].amount

Owes(s) == provider # "stub" /\ s \notin {"INITIATED", "REFUNDED"}

Outcome(t, s) ==
    provider = "escrow" =>
        /\ s = "COMPLETE" => account[tx[t].ref].held = "accepted"
        /\ s = "REFUNDED" => account[tx[t].ref].held \in {"cancelled", "refunded"}

RowOK(t) ==
    /\ NamesOwn(t)
    /\ Owes(tx[t].status) => HasPayment(t)
    /\ Outcome(t, tx[t].status)

EventOK(r, e) ==
    /\ Live(r)
    /\ e # "cancel" => account[r].held \in Paid
    /\ e = "accept" => account[r].held = "accepted"
    /\ e = "cancel" => account[r].held = "cancelled"
    /\ e = "payment_refunded" => account[r].held = "refunded"

(* What is asked of Escrow.com before a status is written. *)
AskShape ==
    {<< <<"ship">>, "SHIPPED" >>, << <<"receive">>, "RECEIVED" >>,
     << <<"receive", "accept">>, "COMPLETE" >>, << <<"accept">>, "COMPLETE" >>,
     << <<"cancel">>, "REFUNDED" >>}

CallOK(c) ==
    LET q == call[c] IN
    /\ q.pc \in {"creating", "initializing", "recording", "verifying"} => ~EscrowEnabled
    /\ q.pc \in {"opening", "inserting", "asking"} => EscrowEnabled
    /\ q.pc \in {"initializing", "recording", "verifying", "asking", "writing"} => q.tx \in Row
    /\ q.pc = "recording" => account[q.ref].held = "made" /\ account[q.ref].for = q.tx
    /\ q.pc = "inserting" => account[q.ref].held = "made" /\ account[q.ref].amount = q.price
    /\ q.pc = "verifying" => Live(q.ref) /\ account[q.ref].for = q.tx
    /\ q.pc = "asking" => <<q.asks, q.to>> \in AskShape
    /\ q.pc \in {"asking", "writing"} => (Owes(q.to) => HasPayment(q.tx))
    /\ q.pc = "writing" => Outcome(q.tx, q.to)

Checkout == {"recording", "inserting"}

CheckoutsApart ==
    \A c, d \in Call :
        (call[c].pc \in Checkout /\ call[d].pc \in Checkout /\ call[c].ref = call[d].ref) => c = d

IInv ==
    /\ TypeOK
    /\ \A t \in Row : RowOK(t)
    /\ \A x \in emitted : EventOK(x[1], x[2])
    /\ \A c \in Call : CallOK(c)
    /\ CheckoutsApart

-----------------------------------------------------------------------------
(* Types of calls, rows and accounts. *)
LEMMA RowTyped ==
    ASSUME TypeOK, NEW t \in Row
    PROVE  t \in Tx /\ tx[t] \in RowType
BY DEF TypeOK, Row, Absent

LEMMA CallTyped ==
    ASSUME TypeOK, NEW c \in Call
    PROVE  /\ call[c].pc \in {"looking", "creating", "opening"} =>
                call[c] \in [pc : {"looking", "creating", "opening"}, buyer : Buyer, price : Price]
           /\ call[c].pc = "initializing" =>
                call[c] \in [pc : {"initializing"}, tx : Tx, price : Price]
           /\ call[c].pc = "recording" => call[c] \in [pc : {"recording"}, tx : Tx, ref : Ref]
           /\ call[c].pc = "inserting" =>
                call[c] \in [pc : {"inserting"}, buyer : Buyer, price : Price, ref : Ref]
           /\ call[c].pc = "verifying" =>
                call[c] \in [pc : {"verifying"}, tx : Tx, ref : Ref, initiated : BOOLEAN]
           /\ call[c].pc = "asking" =>
                call[c] \in [pc : {"asking"}, tx : Tx, asks : Seq(Action), to : Status]
           /\ call[c].pc = "writing" => call[c] \in [pc : {"writing"}, tx : Tx, to : Status]
BY DEF TypeOK, CallType, Idle

-----------------------------------------------------------------------------
(* What other requests rely on: payments only make progress, rows keep their amount and, with     *)
(* Escrow.com, their reference.                                                                   *)
AccountsKept ==
    \A r \in Ref : Live(r) =>
        /\ (Live(r))' /\ account'[r].for = account[r].for /\ account'[r].amount = account[r].amount
        /\ account[r].held \in Paid => account'[r].held \in Paid
        /\ account[r].held \in {"accepted", "cancelled", "refunded"} =>
                account'[r].held = account[r].held

RowsKept ==
    /\ UNCHANGED provider
    /\ \A t \in Row : /\ t \in Row' /\ tx'[t].amount = tx[t].amount
                      /\ EscrowEnabled => tx'[t].ref = tx[t].ref

CheckoutKept(d) == call[d].pc \in Checkout => account'[call[d].ref] = account[call[d].ref]

LEMMA PaymentKept ==
    ASSUME AccountsKept, RowsKept, NEW t \in Row, HasPayment(t)
    PROVE  HasPayment(t)'
BY DEF HasPayment, AccountsKept, RowsKept, Live, Paid

LEMMA OutcomeKept ==
    ASSUME IInv, AccountsKept, RowsKept, NEW t \in Row, NEW s, Outcome(t, s)
    PROVE  Outcome(t, s)'
<1>1. CASE provider = "escrow"
    <2>1. tx[t].ref \in Ref /\ Live(tx[t].ref) /\ tx'[t].ref = tx[t].ref
        BY <1>1, RowTyped DEF IInv, RowOK, NamesOwn, EscrowEnabled, RowType, RowsKept
    <2> QED
        BY <2>1 DEF Outcome, AccountsKept, RowsKept
<1>2. CASE provider # "escrow"
    BY <1>2 DEF Outcome, RowsKept
<1> QED
    BY <1>1, <1>2

LEMMA CallKept ==
    ASSUME IInv, AccountsKept, RowsKept, NEW d \in Call, call'[d] = call[d], CheckoutKept(d)
    PROVE  CallOK(d)'
<1> DEFINE q == call[d]
<1>1. CallOK(d) /\ call'[d] = q
    BY DEF IInv
<1>2. q.pc \in {"initializing", "recording", "verifying", "asking", "writing"} => q.tx \in Row /\ q.tx \in Row'
    BY <1>1 DEF CallOK, RowsKept
<1>3. q.pc = "verifying" => (Live(q.ref))' /\ account'[q.ref].for = q.tx
    BY <1>1, CallTyped DEF CallOK, AccountsKept, IInv, Live
<1>4. q.pc \in {"asking", "writing"} => (Owes(q.to) => HasPayment(q.tx)')
    BY <1>1, <1>2, PaymentKept DEF CallOK
<1>5. q.pc = "writing" => Outcome(q.tx, q.to)'
    BY <1>1, <1>2, OutcomeKept DEF CallOK
<1> QED
    BY <1>1, <1>2, <1>3, <1>4, <1>5
    DEF CallOK, EscrowEnabled, RowsKept, CheckoutKept, Checkout, Owes, Live, HasPayment, Outcome

LEMMA RowKept ==
    ASSUME IInv, AccountsKept, RowsKept, NEW t \in Row, tx'[t] = tx[t]
    PROVE  RowOK(t)'
<1>1. RowOK(t) /\ tx[t] \in RowType
    BY RowTyped DEF IInv
<1>2. NamesOwn(t)'
    BY <1>1 DEF RowOK, NamesOwn, RowsKept, AccountsKept, EscrowEnabled, RowType, Live
<1>3. (Owes(tx[t].status) => HasPayment(t))'
    BY <1>1, PaymentKept DEF RowOK, Owes, RowsKept
<1>4. Outcome(t, tx[t].status)'
    BY <1>1, OutcomeKept DEF RowOK, Outcome
<1> QED
    BY <1>2, <1>3, <1>4 DEF RowOK

LEMMA EventKept ==
    ASSUME AccountsKept, NEW r \in Ref, NEW e, EventOK(r, e)
    PROVE  EventOK(r, e)'
BY DEF AccountsKept, EventOK, Live, Paid

LEMMA ApartKept ==
    ASSUME CheckoutsApart, \A d \in Call : call'[d] = call[d] \/ call'[d].pc \notin Checkout
    PROVE  CheckoutsApart'
BY DEF CheckoutsApart

(* A step is sound if what it does not leave alone is in order afterwards. *)
LEMMA Assembled ==
    ASSUME IInv, TypeOK', AccountsKept, RowsKept, CheckoutsApart',
           \A d \in Call : (call'[d] = call[d] /\ CheckoutKept(d)) \/ CallOK(d)',
           \A t \in Row' : (t \in Row /\ tx'[t] = tx[t]) \/ RowOK(t)',
           \A x \in emitted' : x \in emitted \/ EventOK(x[1], x[2])'
    PROVE  IInv'
<1>1. \A d \in Call : CallOK(d)'
    BY CallKept
<1>2. \A t \in Row' : RowOK(t)'
    BY RowKept
<1>3. ASSUME NEW x \in emitted'
      PROVE  EventOK(x[1], x[2])'
    <2>1. CASE x \in emitted
        <3>1. x[1] \in Ref /\ EventOK(x[1], x[2])
            BY <2>1 DEF IInv, TypeOK
        <3> QED
            BY <3>1, EventKept
    <2> QED
        BY <1>3, <2>1
<1> QED
    BY <1>1, <1>2, <1>3 DEF IInv

(* A request that only reads. *)
LEMMA ReadStep ==
    ASSUME IInv, NEW c \in Call, NEW q \in CallType, call' = [call EXCEPT ![c] = q],
           UNCHANGED <<config, listing, tx, account, emitted>>,
           CallOK(c)', q.pc \notin Checkout
    PROVE  IInv'
<1>1. TypeOK'
    BY DEF IInv, TypeOK, config
<1>2. AccountsKept /\ RowsKept
    BY DEF AccountsKept, RowsKept, Live, config, Row
<1>3. \A d \in Call : d # c => call'[d] = call[d]
    BY DEF IInv, TypeOK
<1>4. call'[c] = q
    BY DEF IInv, TypeOK
<1>5. CheckoutsApart'
    BY <1>3, <1>4, ApartKept DEF IInv
<1>6. \A d \in Call : CheckoutKept(d)
    BY DEF CheckoutKept
<1> QED
    BY <1>1, <1>2, <1>3, <1>5, <1>6, Assembled DEF Row

(* A request that returns, or throws, changing nothing. *)
LEMMA ReturnStep ==
    ASSUME IInv, NEW c \in Call, Return(c), UNCHANGED <<config, listing, tx, account, emitted>>
    PROVE  IInv'
<1>1. Idle \in CallType /\ Idle.pc \notin Checkout /\ call' = [call EXCEPT ![c] = Idle]
    BY DEF CallType, Idle, Checkout, Return, Continue
<1>2. call'[c] = Idle
    BY <1>1 DEF IInv, TypeOK
<1>3. CallOK(c)'
    BY <1>2 DEF CallOK, Idle
<1> QED
    BY <1>1, <1>3, ReadStep

-----------------------------------------------------------------------------
(* Orders. *)
LEMMA OrderStep ==
    ASSUME IInv, NEW c \in Call, NEW b \in Buyer, Order(c, b)
    PROVE  IInv'
<1> DEFINE q == [pc |-> "looking", buyer |-> b, price |-> listing.price]
<1>1. q \in CallType
    BY DEF CallType, IInv, TypeOK
<1>2. call' = [call EXCEPT ![c] = q] /\ UNCHANGED <<config, listing, tx, account, emitted>>
    BY DEF Order, Begin
<1>3. call'[c].pc = "looking"
    BY <1>2 DEF IInv, TypeOK
<1>4. CallOK(c)'
    BY <1>3 DEF CallOK
<1> QED
    BY <1>1, <1>2, <1>4, ReadStep DEF Checkout

LEMMA LookStep ==
    ASSUME IInv, NEW c \in Call, Look(c)
    PROVE  IInv'
<1>1. /\ call[c] \in [pc : {"looking", "creating", "opening"}, buyer : Buyer, price : Price]
      /\ UNCHANGED <<config, listing, tx, account, emitted>>
    BY CallTyped DEF Look, At, IInv
<1>2. CASE Return(c)
    BY <1>1, <1>2, ReturnStep
<1>3. ASSUME NEW t \in Open(call[c].buyer), tx[t].ref = NoRef,
             Continue(c, [pc |-> "initializing", tx |-> t, price |-> call[c].price])
      PROVE  IInv'
    <2> DEFINE q == [pc |-> "initializing", tx |-> t, price |-> call[c].price]
    <2>1. t \in Row /\ t \in Tx
        BY <1>3, RowTyped DEF Open, IInv
    <2>2. q \in CallType /\ call' = [call EXCEPT ![c] = q] /\ q.pc \notin Checkout
        BY <1>1, <1>3, <2>1 DEF CallType, Continue, Checkout
    <2>3. call'[c].pc = "initializing" /\ call'[c].tx = t
        BY <2>2 DEF IInv, TypeOK
    <2>4. ~EscrowEnabled
        BY <1>3, <2>1 DEF IInv, RowOK, NamesOwn
    <2>5. CallOK(c)'
        BY <1>1, <2>1, <2>3, <2>4 DEF CallOK, EscrowEnabled, Row, config
    <2> QED
        BY <1>1, <2>2, <2>5, ReadStep
<1>4. CASE Continue(c, [call[c] EXCEPT !.pc = IF EscrowEnabled THEN "opening" ELSE "creating"])
    <2> DEFINE p == IF EscrowEnabled THEN "opening" ELSE "creating"
               q == [call[c] EXCEPT !.pc = p]
    <2>1. p \in {"opening", "creating"} /\ (p = "opening" <=> EscrowEnabled)
        OBVIOUS
    <2> HIDE DEF p
    <2>2. q \in CallType /\ call' = [call EXCEPT ![c] = q] /\ q.pc = p
        BY <1>1, <1>4, <2>1 DEF CallType, Continue, p
    <2>3. call'[c].pc = p
        BY <2>2 DEF IInv, TypeOK
    <2>4. CallOK(c)' /\ p \notin Checkout
        BY <1>1, <2>1, <2>3 DEF CallOK, EscrowEnabled, config, Checkout
    <2> QED
        BY <1>1, <2>2, <2>4, ReadStep
<1> QED
    BY <1>2, <1>3, <1>4 DEF Look

LEMMA CreateStep ==
    ASSUME IInv, NEW c \in Call, Create(c)
    PROVE  IInv'
<1>1. /\ call[c] \in [pc : {"looking", "creating", "opening"}, buyer : Buyer, price : Price]
      /\ ~EscrowEnabled /\ UNCHANGED <<config, listing, account, emitted>>
    BY CallTyped DEF Create, At, IInv, CallOK
<1>2. PICK t \in Tx \ Row :
        /\ tx' = [tx EXCEPT ![t] = NewRow(call[c].buyer, call[c].price, NoRef)]
        /\ call' = [call EXCEPT ![c] = [pc |-> "initializing", tx |-> t, price |-> call[c].price]]
    BY DEF Create, Continue
<1>3. NewRow(call[c].buyer, call[c].price, NoRef) \in RowType
    BY <1>1 DEF NewRow, RowType, Status
<1>4. [pc |-> "initializing", tx |-> t, price |-> call[c].price] \in CallType
    BY <1>1 DEF CallType
<1>5. TypeOK'
    BY <1>1, <1>2, <1>3, <1>4 DEF IInv, TypeOK, config
<1>6. /\ tx'[t].status = "INITIATED" /\ tx'[t].ref = NoRef
      /\ call'[c].pc = "initializing" /\ call'[c].tx = t
      /\ \A u \in Tx : u # t => tx'[u] = tx[u]
      /\ \A d \in Call : d # c => call'[d] = call[d]
    BY <1>2 DEF IInv, TypeOK, NewRow
<1>7. AccountsKept /\ RowsKept /\ \A d \in Call : CheckoutKept(d)
    BY <1>1, <1>2, <1>6 DEF AccountsKept, RowsKept, CheckoutKept, Live, config, Row
<1>8. CheckoutsApart'
    BY <1>6, ApartKept DEF IInv, Checkout
<1>9. CallOK(c)' /\ t \in Row'
    BY <1>1, <1>6 DEF CallOK, Row, EscrowEnabled, config
<1>10. RowOK(t)'
    BY <1>1, <1>6 DEF RowOK, NamesOwn, Owes, Outcome, EscrowEnabled, config
<1> QED
    BY <1>1, <1>5, <1>6, <1>7, <1>8, <1>9, <1>10, Assembled DEF Row

(* An account nobody was sent to changes. *)
LEMMA FreshAccount ==
    ASSUME NEW r \in Ref, ~Live(r), \A s \in Ref : s # r => account'[s] = account[s]
    PROVE  AccountsKept
BY DEF AccountsKept, Live

LEMMA CheckoutRef ==
    ASSUME IInv, NEW d \in Call, call[d].pc \in Checkout
    PROVE  call[d].ref \in Ref /\ account[call[d].ref].held = "made"
BY CallTyped DEF IInv, CallOK, Checkout

(* A checkout is begun at the provider. *)
LEMMA BeginCheckout ==
    ASSUME IInv, NEW c \in Call, NEW r \in Unused, NEW q \in CallType, NEW a \in AccountType,
           a.held = "made",
           account' = [account EXCEPT ![r] = a], call' = [call EXCEPT ![c] = q],
           UNCHANGED <<config, listing, tx, emitted>>,
           q.pc \in Checkout, q.ref = r, CallOK(c)'
    PROVE  IInv'
<1>1. r \in Ref /\ account[r].held = "none" /\ ~Live(r)
    BY DEF Unused, Live
<1>2. TypeOK'
    BY <1>1 DEF IInv, TypeOK, config
<1>3. /\ \A s \in Ref : s # r => account'[s] = account[s]
      /\ \A d \in Call : d # c => call'[d] = call[d]
      /\ call'[c] = q
    BY <1>1 DEF IInv, TypeOK
<1>4. AccountsKept /\ RowsKept
    BY <1>1, <1>3, FreshAccount DEF RowsKept, config, Row
<1>5. \A d \in Call : call[d].pc \in Checkout => call[d].ref # r
    BY <1>1, CheckoutRef
<1>6. \A d \in Call : CheckoutKept(d)
    BY <1>3, <1>5, CheckoutRef DEF CheckoutKept
<1>7. CheckoutsApart'
    BY <1>3, <1>5 DEF IInv, CheckoutsApart
<1> QED
    BY <1>2, <1>3, <1>4, <1>6, <1>7, Assembled DEF Row

LEMMA InitializeStep ==
    ASSUME IInv, NEW c \in Call, Initialize(c)
    PROVE  IInv'
<1>1. /\ call[c] \in [pc : {"initializing"}, tx : Tx, price : Price]
      /\ ~EscrowEnabled /\ call[c].tx \in Row /\ UNCHANGED <<config, listing, tx, emitted>>
    BY CallTyped DEF Initialize, At, IInv, CallOK
<1>2. CASE Throws(c) /\ UNCHANGED account
    BY <1>1, <1>2, ReturnStep DEF Throws
<1>3. ASSUME NEW r \in Unused,
             account' = [account EXCEPT ![r] = [held |-> "made", for |-> call[c].tx, amount |-> call[c].price]],
             Continue(c, [pc |-> "recording", tx |-> call[c].tx, ref |-> r])
      PROVE  IInv'
    <2> DEFINE a == [held |-> "made", for |-> call[c].tx, amount |-> call[c].price]
               q == [pc |-> "recording", tx |-> call[c].tx, ref |-> r]
    <2>1. r \in Ref
        BY DEF Unused
    <2>2. a \in AccountType /\ q \in CallType /\ call' = [call EXCEPT ![c] = q]
        BY <1>1, <1>3, <2>1 DEF AccountType, Held, CallType, Continue
    <2>3. call'[c].pc = "recording" /\ call'[c].tx = call[c].tx /\ call'[c].ref = r
        BY <2>2 DEF IInv, TypeOK
    <2>4. account'[r].held = "made" /\ account'[r].for = call[c].tx
        BY <1>3, <2>1 DEF IInv, TypeOK
    <2>5. CallOK(c)'
        BY <1>1, <2>3, <2>4 DEF CallOK, EscrowEnabled, Row, config
    <2>6. q.pc \in Checkout /\ q.ref = r /\ a.held = "made"
        BY DEF Checkout
    <2> HIDE DEF a, q
    <2> QED
        BY <1>1, <1>3, <2>2, <2>5, <2>6, BeginCheckout DEF a
<1> QED
    BY <1>2, <1>3 DEF Initialize

LEMMA OpenEscrowStep ==
    ASSUME IInv, NEW c \in Call, OpenEscrow(c)
    PROVE  IInv'
<1>1. /\ call[c] \in [pc : {"looking", "creating", "opening"}, buyer : Buyer, price : Price]
      /\ EscrowEnabled /\ UNCHANGED <<config, listing, tx, emitted>>
    BY CallTyped DEF OpenEscrow, At, IInv, CallOK
<1>2. CASE Throws(c) /\ UNCHANGED account
    BY <1>1, <1>2, ReturnStep DEF Throws
<1>3. ASSUME NEW r \in Unused,
             account' = [account EXCEPT ![r] = [held |-> "made", for |-> NoTx, amount |-> call[c].price]],
             Continue(c, [pc |-> "inserting", buyer |-> call[c].buyer, price |-> call[c].price, ref |-> r])
      PROVE  IInv'
    <2> DEFINE a == [held |-> "made", for |-> NoTx, amount |-> call[c].price]
               q == [pc |-> "inserting", buyer |-> call[c].buyer, price |-> call[c].price, ref |-> r]
    <2>1. r \in Ref
        BY DEF Unused
    <2>2. a \in AccountType /\ q \in CallType /\ call' = [call EXCEPT ![c] = q]
        BY <1>1, <1>3, <2>1 DEF AccountType, Held, CallType, Continue
    <2>3. call'[c].pc = "inserting" /\ call'[c].price = call[c].price /\ call'[c].ref = r
        BY <2>2 DEF IInv, TypeOK
    <2>4. account'[r].held = "made" /\ account'[r].amount = call[c].price
        BY <1>3, <2>1 DEF IInv, TypeOK
    <2>5. CallOK(c)'
        BY <1>1, <2>3, <2>4 DEF CallOK, EscrowEnabled, Row, config
    <2>6. q.pc \in Checkout /\ q.ref = r /\ a.held = "made"
        BY DEF Checkout
    <2> HIDE DEF a, q
    <2> QED
        BY <1>1, <1>3, <2>2, <2>5, <2>6, BeginCheckout DEF a
<1> QED
    BY <1>2, <1>3 DEF OpenEscrow

(* A checkout in progress ends: the others keep theirs. *)
LEMMA EndCheckout ==
    ASSUME IInv, NEW c \in Call, call[c].pc \in Checkout, Return(c),
           \A s \in Ref : s # call[c].ref => account'[s] = account[s]
    PROVE  /\ call' \in [Call -> CallType] /\ AccountsKept /\ CheckoutsApart'
           /\ \A d \in Call : (call'[d] = call[d] /\ CheckoutKept(d)) \/ CallOK(d)'
<1>1. call' = [call EXCEPT ![c] = Idle] /\ Idle \in CallType
    BY DEF Return, Continue, CallType
<1>2. call'[c] = Idle /\ \A d \in Call : d # c => call'[d] = call[d]
    BY <1>1 DEF IInv, TypeOK
<1>3. call[c].ref \in Ref /\ ~Live(call[c].ref)
    BY CheckoutRef DEF Live
<1>4. CallOK(c)'
    BY <1>2 DEF CallOK, Idle
<1>5. \A d \in Call : d # c => CheckoutKept(d)
    BY CheckoutRef DEF CheckoutKept, IInv, CheckoutsApart
<1>6. CheckoutsApart'
    BY <1>2, ApartKept DEF IInv, Idle, Checkout
<1> QED
    BY <1>1, <1>2, <1>3, <1>4, <1>5, <1>6, FreshAccount DEF IInv, TypeOK

LEMMA ForgetStep ==
    ASSUME IInv, NEW c \in Call, call[c].pc \in Checkout, Return(c), Forgotten(call[c].ref),
           UNCHANGED <<config, listing, tx, emitted>>
    PROVE  IInv'
<1>1. call[c].ref \in Ref /\ NoAccount \in AccountType
    BY CheckoutRef DEF NoAccount, AccountType, Held
<1>2. \A s \in Ref : s # call[c].ref => account'[s] = account[s]
    BY DEF Forgotten, IInv, TypeOK
<1>3. /\ call' \in [Call -> CallType] /\ AccountsKept /\ CheckoutsApart'
      /\ \A d \in Call : (call'[d] = call[d] /\ CheckoutKept(d)) \/ CallOK(d)'
    BY <1>2, EndCheckout
<1>4. TypeOK'
    BY <1>1, <1>3 DEF IInv, TypeOK, config, Forgotten
<1>5. RowsKept
    BY DEF RowsKept, config, Row
<1> QED
    BY <1>3, <1>4, <1>5, Assembled DEF Row

LEMMA RecordStep ==
    ASSUME IInv, NEW c \in Call, Record(c)
    PROVE  IInv'
<1>0. PICK t \in Tx, r \in Ref : call[c] = [pc |-> "recording", tx |-> t, ref |-> r]
    BY CallTyped DEF Record, At, IInv
<1>1. /\ call[c].pc = "recording" /\ call[c].tx = t /\ call[c].ref = r
      /\ ~EscrowEnabled /\ t \in Row /\ account[r].held = "made" /\ account[r].for = t
      /\ Return(c) /\ UNCHANGED <<config, listing, emitted>>
      /\ call[c].pc \in Checkout
    <2>1. call[c].pc = "recording" /\ call[c].tx = t /\ call[c].ref = r
        BY <1>0
    <2>2. CallOK(c)
        BY DEF IInv
    <2> QED
        BY <2>1, <2>2 DEF Record, CallOK, Checkout
<1>2. tx[t] \in RowType /\ account[r] \in AccountType
    BY <1>1, RowTyped DEF IInv, TypeOK
<1>3. /\ tx' = [tx EXCEPT ![t] = [tx[t] EXCEPT !.ref = r]]
      /\ account' = [account EXCEPT ![r] = [account[r] EXCEPT !.held = "open"]]
    BY <1>1 DEF Record, IInv, TypeOK
<1>4. [tx[t] EXCEPT !.ref = r] \in RowType /\ [account[r] EXCEPT !.held = "open"] \in AccountType
    BY <1>1, <1>2 DEF RowType, AccountType, Held
<1>5. /\ \A u \in Tx : u # t => tx'[u] = tx[u]
      /\ \A u \in Ref : u # r => account'[u] = account[u]
      /\ tx'[t] = [tx[t] EXCEPT !.ref = r] /\ account'[r] = [account[r] EXCEPT !.held = "open"]
    BY <1>1, <1>3 DEF IInv, TypeOK
<1>6. /\ tx'[t].status = tx[t].status /\ tx'[t].amount = tx[t].amount /\ tx'[t].ref = r
      /\ account'[r].held = "open" /\ account'[r].for = t
    BY <1>1, <1>2, <1>5 DEF RowType, AccountType
<1>7. /\ call' \in [Call -> CallType] /\ AccountsKept /\ CheckoutsApart'
      /\ \A d \in Call : (call'[d] = call[d] /\ CheckoutKept(d)) \/ CallOK(d)'
    BY <1>1, <1>5, EndCheckout
<1>8. TypeOK'
    BY <1>1, <1>3, <1>4, <1>7 DEF IInv, TypeOK, config
<1>9. RowsKept
    BY <1>1, <1>5, <1>6, RowTyped DEF RowsKept, config, Row, IInv
<1>10. RowOK(t)'
    <2>1. NamesOwn(t)'
        BY <1>1, <1>6 DEF NamesOwn, Live, EscrowEnabled, config
    <2>2. (Owes(tx[t].status) => HasPayment(t))'
        BY <1>1, <1>6, <1>7, <1>9, PaymentKept DEF IInv, RowOK, Owes, config
    <2>3. Outcome(t, tx[t].status)'
        BY <1>1 DEF Outcome, EscrowEnabled, config
    <2> QED
        BY <2>1, <2>2, <2>3 DEF RowOK
<1> QED
    BY <1>1, <1>5, <1>7, <1>8, <1>9, <1>10, Assembled DEF Row

LEMMA InsertStep ==
    ASSUME IInv, NEW c \in Call, Insert(c)
    PROVE  IInv'
<1> DEFINE r == call[c].ref
<1>1. /\ call[c] \in [pc : {"inserting"}, buyer : Buyer, price : Price, ref : Ref]
      /\ EscrowEnabled /\ account[r].held = "made" /\ account[r].amount = call[c].price
      /\ Return(c) /\ UNCHANGED <<config, listing, emitted>>
      /\ call[c].pc \in Checkout /\ r \in Ref /\ account[r] \in AccountType
    BY CallTyped, CheckoutRef DEF Insert, At, IInv, CallOK, Checkout, TypeOK
<1> HIDE DEF r
<1>2. ASSUME NEW t \in Tx \ Row,
             tx' = [tx EXCEPT ![t] = NewRow(call[c].buyer, call[c].price, r)],
             account' = [account EXCEPT ![r].for = t, ![r].held = "open"]
      PROVE  IInv'
    <2> DEFINE a == [account[r] EXCEPT !.for = t, !.held = "open"]
               w == NewRow(call[c].buyer, call[c].price, r)
    <2>1. /\ a \in AccountType /\ a.for = t /\ a.held = "open" /\ a.amount = call[c].price
        BY <1>1 DEF AccountType, Held
    <2>2. w \in RowType /\ w.ref = r /\ w.amount = call[c].price /\ w.status = "INITIATED"
        BY <1>1 DEF NewRow, RowType, Status
    <2>3. account' = [account EXCEPT ![r] = a]
        BY <1>1, <1>2 DEF IInv, TypeOK
    <2>4. tx' = [tx EXCEPT ![t] = w]
        BY <1>2
    <2> HIDE DEF a, w
    <2>5. /\ account'[r] = a /\ \A s \in Ref : s # r => account'[s] = account[s]
          /\ tx'[t] = w /\ \A u \in Tx : u # t => tx'[u] = tx[u]
        BY <1>1, <2>3, <2>4 DEF IInv, TypeOK
    <2>6. /\ call' \in [Call -> CallType] /\ AccountsKept /\ CheckoutsApart'
          /\ \A d \in Call : (call'[d] = call[d] /\ CheckoutKept(d)) \/ CallOK(d)'
        BY <1>1, <2>5, EndCheckout DEF r
    <2>7. tx' \in [Tx -> {Absent} \cup RowType] /\ account' \in [Ref -> AccountType]
        BY <1>1, <2>1, <2>2, <2>3, <2>4 DEF IInv, TypeOK
    <2>8. TypeOK'
        BY <1>1, <2>6, <2>7 DEF IInv, TypeOK, config
    <2>9. RowsKept
        BY <1>1, <2>5 DEF RowsKept, config, Row
    <2>10. NamesOwn(t)'
        BY <1>1, <2>1, <2>2, <2>5, TransactionsAssumption DEF NamesOwn, Live
    <2>11. (Owes(tx[t].status) => HasPayment(t))' /\ Outcome(t, tx[t].status)'
        BY <2>2, <2>5 DEF Owes, Outcome
    <2>12. RowOK(t)'
        BY <2>10, <2>11 DEF RowOK
    <2>13. \A u \in Row' : (u \in Row /\ tx'[u] = tx[u]) \/ RowOK(u)'
        BY <2>5, <2>12 DEF Row
    <2>14. \A x \in emitted' : x \in emitted
        BY <1>1
    <2> QED
        BY <2>6, <2>8, <2>9, <2>13, <2>14, Assembled
<1>3. CASE Forgotten(r) /\ UNCHANGED tx
    BY <1>1, <1>3, ForgetStep DEF r
<1> QED
    BY <1>2, <1>3 DEF Insert, r

LEMMA WriteFailsStep ==
    ASSUME IInv, NEW c \in Call, WriteFails(c)
    PROVE  IInv'
<1>1. Return(c) /\ UNCHANGED <<config, listing, tx, emitted>>
    BY DEF WriteFails, Throws
<1>2. CASE UNCHANGED account
    BY <1>1, <1>2, ReturnStep
<1>3. CASE At(c, "recording") /\ Forgotten(call[c].ref)
    BY <1>1, <1>3, ForgetStep DEF At, Checkout
<1> QED
    BY <1>2, <1>3 DEF WriteFails

-----------------------------------------------------------------------------
(* The provider. *)
ProviderMoves(r) ==
    \/ Move(r, {"open"}, "secured", "payment_approved")
    \/ \E a \in Action : Perform(r, a)
    \/ Move(r, {"secured", "shipped", "received"}, "refunded", "payment_refunded")

LEMMA Moved ==
    ASSUME IInv, NEW r \in Ref, ProviderMoves(r)
    PROVE  /\ account' \in [Ref -> AccountType] /\ emitted' \subseteq Ref \X Event
           /\ AccountsKept
           /\ \A x \in emitted' : x \in emitted \/ EventOK(x[1], x[2])'
           /\ \A d \in Call : CheckoutKept(d)
<1>1. PICK from \in SUBSET Held, to \in Held, e \in Event :
        /\ Move(r, from, to, e)
        /\ <<from, to, e>> \in
              {<<{"open"}, "secured", "payment_approved">>, <<{"secured"}, "shipped", "ship">>,
               <<{"shipped"}, "received", "receive">>, <<{"received"}, "accepted", "accept">>,
               <<{"open"}, "cancelled", "cancel">>,
               <<{"secured", "shipped", "received"}, "refunded", "payment_refunded">>}
    <2>1. CASE Move(r, {"open"}, "secured", "payment_approved")
        BY <2>1 DEF Held, Event
    <2>2. CASE Move(r, {"secured", "shipped", "received"}, "refunded", "payment_refunded")
        BY <2>2 DEF Held, Event
    <2>3. CASE Move(r, {"secured"}, "shipped", "ship")
        BY <2>3 DEF Held, Event, Action
    <2>4. CASE Move(r, {"shipped"}, "received", "receive")
        BY <2>4 DEF Held, Event, Action
    <2>5. CASE Move(r, {"received"}, "accepted", "accept")
        BY <2>5 DEF Held, Event, Action
    <2>6. CASE Move(r, {"open"}, "cancelled", "cancel")
        BY <2>6 DEF Held, Event, Action
    <2> QED
        BY <2>1, <2>2, <2>3, <2>4, <2>5, <2>6 DEF ProviderMoves, Perform
<1>2. /\ account[r].held \in from /\ emitted' = emitted \cup {<<r, e>>}
      /\ account' = [account EXCEPT ![r] = [account[r] EXCEPT !.held = to]]
    BY <1>1 DEF Move, IInv, TypeOK
<1>3. account[r] \in AccountType
    BY DEF IInv, TypeOK
<1>4. [account[r] EXCEPT !.held = to] \in AccountType
    BY <1>3 DEF AccountType
<1>5. /\ account'[r].held = to /\ account'[r].for = account[r].for
      /\ account'[r].amount = account[r].amount
      /\ \A s \in Ref : s # r => account'[s] = account[s]
    BY <1>2, <1>3 DEF AccountType, IInv, TypeOK
<1>6. account' \in [Ref -> AccountType] /\ emitted' \subseteq Ref \X Event
    BY <1>2, <1>4 DEF IInv, TypeOK
<1>7. AccountsKept
    BY <1>1, <1>2, <1>5 DEF AccountsKept, Live, Paid
<1>8. EventOK(r, e)'
    BY <1>1, <1>5 DEF EventOK, Live, Paid
<1>9. \A x \in emitted' : x \in emitted \/ EventOK(x[1], x[2])'
    BY <1>2, <1>8
<1>10. \A d \in Call : CheckoutKept(d)
    <2> SUFFICES ASSUME NEW d \in Call, call[d].pc \in Checkout
                 PROVE  account'[call[d].ref] = account[call[d].ref]
        BY DEF CheckoutKept
    <2>1. call[d].ref \in Ref /\ call[d].ref # r
        BY <1>1, <1>2, CheckoutRef
    <2> QED
        BY <1>5, <2>1
<1> QED
    BY <1>6, <1>7, <1>9, <1>10

LEMMA ProviderStep ==
    ASSUME IInv, NEW r \in Ref, Pay(r) \/ ActDirectly(r)
    PROVE  IInv'
<1>1. ProviderMoves(r) /\ UNCHANGED <<config, listing, tx, call>>
    BY DEF Pay, ActDirectly, ProviderMoves
<1>2. TypeOK'
    BY <1>1, Moved DEF IInv, TypeOK, config
<1>3. RowsKept
    BY <1>1 DEF RowsKept, config, Row
<1>4. CheckoutsApart'
    BY <1>1, ApartKept DEF IInv
<1> QED
    BY <1>1, <1>2, <1>3, <1>4, Moved, Assembled DEF Row

-----------------------------------------------------------------------------
(* Paystack's verification. *)
LEMMA VerifyStep ==
    ASSUME IInv, NEW c \in Call, NEW r \in Ref, Verify(c, r)
    PROVE  IInv'
<1>1. PICK t \in Named(r) :
        Begin(c, [pc |-> "verifying", tx |-> t, ref |-> r, initiated |-> tx[t].status = "INITIATED"])
    BY DEF Verify
<1> DEFINE q == [pc |-> "verifying", tx |-> t, ref |-> r, initiated |-> tx[t].status = "INITIATED"]
<1>2. t \in Row /\ t \in Tx /\ tx[t].ref = r
    BY <1>1, RowTyped DEF Named, IInv
<1>3. q \in CallType /\ q.pc = "verifying" /\ q.tx = t /\ q.ref = r
    BY <1>2 DEF CallType
<1>4. call' = [call EXCEPT ![c] = q] /\ UNCHANGED <<config, listing, tx, account, emitted>>
    BY <1>1 DEF Verify, Begin
<1> HIDE DEF q
<1>5. call'[c] = q
    BY <1>4 DEF IInv, TypeOK
<1>6. Live(r) /\ account[r].for = t
    BY <1>2, TransactionsAssumption DEF IInv, RowOK, NamesOwn
<1>7. ~EscrowEnabled
    BY DEF Verify, EscrowEnabled
<1>8. CallOK(c)' /\ q.pc \notin Checkout
    BY <1>2, <1>3, <1>4, <1>5, <1>6, <1>7 DEF CallOK, Live, EscrowEnabled, Row, config, Checkout
<1> QED
    BY <1>3, <1>4, <1>8, ReadStep

(* A request that is about to write a status. *)
LEMMA AboutToWrite ==
    ASSUME IInv, NEW c \in Call, NEW t \in Row, NEW s \in Status,
           call' = [call EXCEPT ![c] = Writing(t, s)],
           UNCHANGED <<config, listing, tx, account, emitted>>,
           Owes(s) => HasPayment(t), Outcome(t, s)
    PROVE  IInv'
<1> DEFINE q == Writing(t, s)
<1>1. q \in CallType /\ q.pc = "writing" /\ q.tx = t /\ q.to = s
    BY RowTyped DEF CallType, Writing, IInv
<1> HIDE DEF q
<1>2. call'[c] = q
    BY DEF IInv, TypeOK, q
<1>3. (Owes(s) => HasPayment(t))' /\ Outcome(t, s)' /\ t \in Row'
    BY DEF Owes, HasPayment, Outcome, Row, config
<1>4. CallOK(c)' /\ q.pc \notin Checkout
    BY <1>1, <1>2, <1>3 DEF CallOK, Checkout
<1> QED
    BY <1>1, <1>4, ReadStep DEF q

LEMMA CheckStep ==
    ASSUME IInv, NEW c \in Call, Check(c) \/ CheckFails(c)
    PROVE  IInv'
<1>1. UNCHANGED <<config, listing, tx, account, emitted>>
    BY DEF Check, CheckFails
<1>2. CASE Return(c)
    BY <1>1, <1>2, ReturnStep
<1>3. CASE At(c, "verifying") /\ Verified(call[c].tx, call[c].ref)
           /\ Continue(c, Writing(call[c].tx, "FUNDED"))
    <2>1. /\ call[c] \in [pc : {"verifying"}, tx : Tx, ref : Ref, initiated : BOOLEAN]
          /\ call[c].tx \in Row /\ account[call[c].ref].for = call[c].tx
        BY <1>3, CallTyped DEF IInv, At, CallOK
    <2>2. HasPayment(call[c].tx)
        BY <1>3, <2>1 DEF HasPayment, Verified, Paid
    <2>3. Outcome(call[c].tx, "FUNDED") /\ "FUNDED" \in Status
        BY DEF Outcome, Status
    <2> QED
        BY <1>1, <1>3, <2>1, <2>2, <2>3, AboutToWrite DEF Continue
<1> QED
    BY <1>2, <1>3 DEF Check, CheckFails, Throws

-----------------------------------------------------------------------------
(* The requests of the parties, and webhooks of Escrow.com. *)
LEMMA RequestStep ==
    ASSUME IInv, NEW c \in Call, NEW t \in Row, NEW from, NEW asks \in Seq(Action),
           NEW to \in Status, Request(c, t, from, asks, to),
           Owes(to) => HasPayment(t),
           asks = <<>> => Outcome(t, to),
           asks # <<>> => <<asks, to>> \in AskShape
    PROVE  IInv'
<1>1. UNCHANGED <<config, listing, tx, account, emitted>>
    BY DEF Request
<1>2. CASE ~(EscrowEnabled /\ asks # <<>>)
    <2>1. call' = [call EXCEPT ![c] = Writing(t, to)]
        BY <1>2 DEF Request, Begin
    <2>2. Outcome(t, to)
        BY <1>2 DEF Outcome, EscrowEnabled
    <2> QED
        BY <1>1, <2>1, <2>2, AboutToWrite
<1>3. CASE EscrowEnabled /\ asks # <<>>
    <2> DEFINE q == [pc |-> "asking", tx |-> t, asks |-> asks, to |-> to]
    <2>1. q \in CallType /\ q.pc = "asking" /\ q.tx = t /\ q.asks = asks /\ q.to = to
        BY RowTyped DEF CallType, IInv
    <2>2. call' = [call EXCEPT ![c] = q]
        BY <1>3 DEF Request, Begin
    <2> HIDE DEF q
    <2>3. call'[c] = q
        BY <2>2 DEF IInv, TypeOK
    <2>4. (Owes(to) => HasPayment(t))' /\ t \in Row' /\ EscrowEnabled'
        BY <1>1, <1>3 DEF Owes, HasPayment, Row, config, EscrowEnabled
    <2>5. CallOK(c)' /\ q.pc \notin Checkout
        BY <1>3, <2>1, <2>3, <2>4 DEF CallOK, Checkout
    <2> QED
        BY <1>1, <2>1, <2>2, <2>5, ReadStep
<1> QED
    BY <1>2, <1>3

LEMMA Owed ==
    ASSUME IInv, NEW t \in Row, tx[t].status \notin {"INITIATED", "REFUNDED"}, NEW s
    PROVE  Owes(s) => HasPayment(t)
BY DEF IInv, RowOK, Owes

LEMMA PartyStep ==
    ASSUME IInv, NEW c \in Call, NEW t \in Tx,
           \/ MarkShipped(c, t) \/ ConfirmReceipt(c, t) \/ DisputeTransaction(c, t)
           \/ RefundTransaction(c, t) \/ FundStubTransaction(c, t)
    PROVE  IInv'
<1>1. /\ <<>> \in Seq(Action) /\ <<"ship">> \in Seq(Action) /\ <<"receive">> \in Seq(Action)
      /\ <<"receive", "accept">> \in Seq(Action) /\ <<"cancel">> \in Seq(Action)
      /\ <<"ship">> # <<>> /\ <<"receive">> # <<>> /\ <<"receive", "accept">> # <<>>
      /\ <<"cancel">> # <<>>
    BY DEF Action
<1>2. {"SHIPPED", "RECEIVED", "COMPLETE", "DISPUTED", "REFUNDED", "FUNDED"} \subseteq Status
    BY DEF Status
<1>3. CASE MarkShipped(c, t)
    <2>1. t \in Row /\ tx[t].status = "FUNDED" /\ Request(c, t, {"FUNDED"}, <<"ship">>, "SHIPPED")
        BY <1>3 DEF MarkShipped, Request
    <2>2. Owes("SHIPPED") => HasPayment(t)
        BY <2>1, Owed
    <2>3. << <<"ship">>, "SHIPPED" >> \in AskShape
        BY DEF AskShape
    <2> QED
        BY <1>1, <1>2, <2>1, <2>2, <2>3, RequestStep
<1>4. CASE Request(c, t, {"SHIPPED"}, <<"receive">>, "RECEIVED")
    <2>1. t \in Row /\ tx[t].status = "SHIPPED"
        BY <1>4 DEF Request
    <2>2. Owes("RECEIVED") => HasPayment(t)
        BY <2>1, Owed
    <2>3. << <<"receive">>, "RECEIVED" >> \in AskShape
        BY DEF AskShape
    <2> QED
        BY <1>1, <1>2, <1>4, <2>1, <2>2, <2>3, RequestStep
<1>5. CASE Request(c, t, {"SHIPPED"}, <<"receive", "accept">>, "COMPLETE")
    <2>1. t \in Row /\ tx[t].status = "SHIPPED"
        BY <1>5 DEF Request
    <2>2. Owes("COMPLETE") => HasPayment(t)
        BY <2>1, Owed
    <2>3. << <<"receive", "accept">>, "COMPLETE" >> \in AskShape
        BY DEF AskShape
    <2> QED
        BY <1>1, <1>2, <1>5, <2>1, <2>2, <2>3, RequestStep
<1>6. CASE DisputeTransaction(c, t)
    <2>1. /\ t \in Row /\ tx[t].status \in {"FUNDED", "SHIPPED", "RECEIVED"}
          /\ Request(c, t, {"FUNDED", "SHIPPED", "RECEIVED"}, <<>>, "DISPUTED")
        BY <1>6 DEF DisputeTransaction, Request
    <2>2. (Owes("DISPUTED") => HasPayment(t)) /\ Outcome(t, "DISPUTED")
        BY <2>1, Owed DEF Outcome
    <2> QED
        BY <1>1, <1>2, <2>1, <2>2, RequestStep
<1>7. CASE RefundTransaction(c, t)
    <2>1. t \in Row /\ Request(c, t, {"INITIATED"}, <<"cancel">>, "REFUNDED")
        BY <1>7 DEF RefundTransaction, Request
    <2>2. ~Owes("REFUNDED") /\ << <<"cancel">>, "REFUNDED" >> \in AskShape
        BY DEF Owes, AskShape
    <2> QED
        BY <1>1, <1>2, <2>1, <2>2, RequestStep
<1>8. CASE FundStubTransaction(c, t)
    <2>1. t \in Row /\ Request(c, t, {"INITIATED"}, <<>>, "FUNDED")
        BY <1>8 DEF FundStubTransaction, Request
    <2>2. ~Owes("FUNDED") /\ Outcome(t, "FUNDED")
        BY <1>8 DEF Owes, Outcome, FundStubTransaction
    <2> QED
        BY <1>1, <1>2, <2>1, <2>2, RequestStep
<1> QED
    BY <1>3, <1>4, <1>5, <1>6, <1>7, <1>8 DEF ConfirmReceipt

LEMMA WebhookStep ==
    ASSUME IInv, NEW c \in Call, NEW r \in Ref, EscrowWebhook(c, r)
    PROVE  IInv'
<1>1. PICK e \in Event, t \in Named(r) :
        <<r, e>> \in emitted /\ Request(c, t, From(e), <<>>, To(e))
    BY DEF EscrowWebhook
<1>2. provider = "escrow"
    BY DEF EscrowWebhook
<1>3. t \in Row /\ tx[t].ref = r /\ Live(r) /\ account[r].for = t /\ account[r].amount = tx[t].amount
    BY <1>1, <1>2, TransactionsAssumption DEF Named, IInv, RowOK, NamesOwn, EscrowEnabled
<1>4. EventOK(r, e)
    <2>1. <<r, e>>[1] = r /\ <<r, e>>[2] = e
        OBVIOUS
    <2> QED
        BY <1>1, <2>1 DEF IInv
<1>5. /\ To(e) \in Status
      /\ To(e) = "COMPLETE" => e = "accept"
      /\ To(e) = "REFUNDED" <=> e \in {"cancel", "payment_refunded"}
    BY DEF To, Event, Action, Status
<1>6. e # "cancel" => HasPayment(t)
    BY <1>3, <1>4 DEF EventOK, HasPayment
<1>7. Owes(To(e)) => HasPayment(t)
    BY <1>5, <1>6 DEF Owes
<1>8. Outcome(t, To(e))
    BY <1>3, <1>4, <1>5 DEF Outcome, EventOK
<1>9. <<>> \in Seq(Action)
    OBVIOUS
<1> QED
    BY <1>1, <1>3, <1>5, <1>7, <1>8, <1>9, RequestStep

-----------------------------------------------------------------------------
(* Escrow.com is asked, and answers. *)
LEMMA AskingShape ==
    ASSUME IInv, NEW c \in Call, At(c, "asking")
    PROVE  /\ call[c] \in [pc : {"asking"}, tx : Tx, asks : Seq(Action), to : Status]
           /\ EscrowEnabled /\ call[c].tx \in Row
           /\ <<call[c].asks, call[c].to>> \in AskShape
           /\ Owes(call[c].to) => HasPayment(call[c].tx)
           /\ tx[call[c].tx].ref \in Ref
<1>1. call[c].pc = "asking" /\ CallOK(c)
    BY DEF IInv, At
<1>2. call[c] \in [pc : {"asking"}, tx : Tx, asks : Seq(Action), to : Status]
    BY <1>1, CallTyped DEF IInv
<1>3. EscrowEnabled /\ call[c].tx \in Row /\ <<call[c].asks, call[c].to>> \in AskShape
    BY <1>1 DEF CallOK
<1>4. tx[call[c].tx].ref \in Ref
    BY <1>3, RowTyped DEF IInv, RowOK, NamesOwn, RowType
<1> QED
    BY <1>1, <1>2, <1>3, <1>4 DEF CallOK

(* A request has been answered; it has more to ask, or its status to write, or it gave up. *)
LEMMA Answered ==
    ASSUME IInv, NEW c \in Call, NEW q \in CallType, call' = [call EXCEPT ![c] = q],
           UNCHANGED <<config, listing, tx>>, q.pc \notin Checkout, CallOK(c)',
           \/ UNCHANGED <<account, emitted>>
           \/ \E r \in Ref : ProviderMoves(r)
    PROVE  IInv'
<1>1. /\ account' \in [Ref -> AccountType] /\ emitted' \subseteq Ref \X Event /\ AccountsKept
      /\ \A x \in emitted' : x \in emitted \/ EventOK(x[1], x[2])'
      /\ \A d \in Call : CheckoutKept(d)
    <2>1. CASE UNCHANGED <<account, emitted>>
        BY <2>1 DEF IInv, TypeOK, AccountsKept, CheckoutKept, Live
    <2>2. CASE \E r \in Ref : ProviderMoves(r)
        BY <2>2, Moved
    <2> QED
        BY <2>1, <2>2
<1>2. TypeOK'
    BY <1>1 DEF IInv, TypeOK, config
<1>3. RowsKept
    BY DEF RowsKept, config, Row
<1>4. call'[c] = q /\ \A d \in Call : d # c => call'[d] = call[d]
    BY DEF IInv, TypeOK
<1>5. CheckoutsApart'
    BY <1>4, ApartKept DEF IInv
<1> QED
    BY <1>1, <1>2, <1>3, <1>4, <1>5, Assembled DEF Row

(* What an accepted request leaves at the provider. *)
LEMMA Agreed ==
    ASSUME IInv, NEW r \in Ref, NEW a \in Action, Perform(r, a)
    PROVE  /\ a = "accept" => account'[r].held = "accepted"
           /\ a = "cancel" => account'[r].held = "cancelled"
<1>1. account[r] \in AccountType
    BY DEF IInv, TypeOK
<1>2. ASSUME NEW from, NEW to, NEW e, Move(r, from, to, e)
      PROVE  account'[r].held = to
    BY <1>1, <1>2 DEF Move, IInv, TypeOK, AccountType
<1> QED
    BY <1>2 DEF Perform

LEMMA AskStep ==
    ASSUME IInv, NEW c \in Call, Ask(c)
    PROVE  IInv'
<1>1. PICK t \in Row, asks \in Seq(Action), to \in Status, r \in Ref :
        /\ call[c] = [pc |-> "asking", tx |-> t, asks |-> asks, to |-> to]
        /\ tx[t].ref = r
    BY AskingShape DEF Ask
<1>2. /\ call[c].pc = "asking" /\ call[c].tx = t /\ call[c].asks = asks /\ call[c].to = to
      /\ tx[call[c].tx].ref = r /\ t \in Tx
    BY <1>1, RowTyped DEF IInv
<1>3. EscrowEnabled /\ <<asks, to>> \in AskShape /\ (Owes(to) => HasPayment(t))
    BY <1>2, AskingShape DEF Ask
<1> DEFINE a == Head(asks)
           q == IF Len(asks) = 1 THEN Writing(t, to)
                ELSE [pc |-> "asking", tx |-> t, asks |-> Tail(asks), to |-> to]
<1>4. /\ a \in Action
      /\ Len(asks) = 1 => (to = "COMPLETE" => a = "accept") /\ (to = "REFUNDED" => a = "cancel")
      /\ Len(asks) # 1 => Tail(asks) \in Seq(Action) /\ <<Tail(asks), to>> \in AskShape
    <2>1. CASE asks = <<"ship">> /\ to = "SHIPPED"
        BY <2>1 DEF Action
    <2>2. CASE asks = <<"receive">> /\ to = "RECEIVED"
        BY <2>2 DEF Action
    <2>3. CASE asks = <<"receive", "accept">> /\ to = "COMPLETE"
        <3>1. Head(asks) = "receive" /\ Len(asks) = 2 /\ Tail(asks) = <<"accept">>
            BY <2>3
        <3>2. <<"accept">> \in Seq(Action)
            BY DEF Action
        <3> QED
            BY <2>3, <3>1, <3>2 DEF Action, AskShape
    <2>4. CASE asks = <<"accept">> /\ to = "COMPLETE"
        BY <2>4 DEF Action
    <2>5. CASE asks = <<"cancel">> /\ to = "REFUNDED"
        BY <2>5 DEF Action
    <2> QED
        BY <1>3, <2>1, <2>2, <2>3, <2>4, <2>5 DEF AskShape
<1>5. UNCHANGED <<config, listing, tx>>
    BY DEF Ask
<1>6. ASSUME Throws(c), \/ UNCHANGED <<account, emitted>>
                       \/ Perform(r, a)
      PROVE  IInv'
    <2>1. Idle \in CallType /\ Idle.pc \notin Checkout /\ call' = [call EXCEPT ![c] = Idle]
        BY <1>6 DEF CallType, Idle, Checkout, Throws, Return, Continue
    <2>2. call'[c] = Idle
        BY <2>1 DEF IInv, TypeOK
    <2>3. CallOK(c)'
        BY <2>2 DEF CallOK, Idle
    <2> QED
        BY <1>4, <1>5, <1>6, <2>1, <2>3, Answered DEF ProviderMoves
<1>7. ASSUME IF provider = "stub" THEN UNCHANGED <<account, emitted>> ELSE Perform(r, a),
             call' = [call EXCEPT ![c] = q]
      PROVE  IInv'
    <2>1. /\ q \in CallType /\ q.tx = t /\ q.to = to /\ q.pc \in {"asking", "writing"}
          /\ q.pc = "asking" => <<q.asks, q.to>> \in AskShape
          /\ q.pc = "writing" => Len(asks) = 1
        BY <1>2, <1>4 DEF CallType, Writing
    <2> HIDE DEF q
    <2>2. call'[c] = q
        BY <1>7 DEF IInv, TypeOK
    <2>3. \/ UNCHANGED <<account, emitted>>
          \/ ProviderMoves(r)
        BY <1>4, <1>7 DEF ProviderMoves
    <2>4. AccountsKept /\ RowsKept
        <3>1. RowsKept
            BY <1>5 DEF RowsKept, config, Row
        <3>2. CASE UNCHANGED <<account, emitted>>
            BY <3>1, <3>2 DEF AccountsKept, Live
        <3>3. CASE ProviderMoves(r)
            BY <3>1, <3>3, Moved
        <3> QED
            BY <2>3, <3>2, <3>3
    <2>5. t \in Row' /\ (Owes(to) => HasPayment(t))' /\ EscrowEnabled'
        BY <1>3, <1>5, <2>4, PaymentKept DEF Owes, Row, EscrowEnabled, config
    <2>6. ASSUME Len(asks) = 1 PROVE Outcome(t, to)'
        <3>1. CASE provider = "escrow"
            <4>1. /\ to = "COMPLETE" => account'[r].held = "accepted"
                  /\ to = "REFUNDED" => account'[r].held = "cancelled"
                BY <1>4, <1>7, <2>6, <3>1, Agreed
            <4> QED
                BY <1>1, <1>5, <4>1 DEF Outcome
        <3>2. CASE provider # "escrow"
            BY <1>5, <3>2 DEF Outcome, config
        <3> QED
            BY <3>1, <3>2
    <2>7. CallOK(c)' /\ q.pc \notin Checkout
        BY <2>1, <2>2, <2>5, <2>6 DEF CallOK, Checkout
    <2> QED
        BY <1>5, <1>7, <2>1, <2>3, <2>7, Answered
<1>8. [call[c] EXCEPT !.asks = Tail(call[c].asks)]
        = [pc |-> "asking", tx |-> t, asks |-> Tail(asks), to |-> to]
    <2> DEFINE e == call[c]
    <2>1. e = [pc |-> "asking", tx |-> t, asks |-> asks, to |-> to]
        BY <1>1
    <2> HIDE DEF e
    <2>2. \A x : [e EXCEPT !.asks = x] = [pc |-> "asking", tx |-> t, asks |-> x, to |-> to]
        BY <2>1
    <2> QED
        BY <1>2, <2>2 DEF e
<1> QED
    BY <1>2, <1>6, <1>7, <1>8 DEF Ask, Continue, a, q

(* The status is written. *)
LEMMA WriteStep ==
    ASSUME IInv, NEW c \in Call, Write(c)
    PROVE  IInv'
<1>1. PICK t \in Tx, s \in Status : call[c] = [pc |-> "writing", tx |-> t, to |-> s]
    BY CallTyped DEF Write, At, IInv
<1>2. /\ t \in Row /\ tx[t] \in RowType /\ (Owes(s) => HasPayment(t)) /\ Outcome(t, s)
      /\ RowOK(t)
    <2>1. call[c].pc = "writing" /\ call[c].tx = t /\ call[c].to = s
        BY <1>1
    <2>2. CallOK(c)
        BY DEF IInv
    <2>3. t \in Row /\ (Owes(s) => HasPayment(t)) /\ Outcome(t, s)
        BY <2>1, <2>2 DEF CallOK
    <2> QED
        BY <2>3, RowTyped DEF IInv
<1>3. tx' = [tx EXCEPT ![t] = [tx[t] EXCEPT !.status = s]]
    BY <1>1, <1>2 DEF Write, IInv, TypeOK
<1>4. [tx[t] EXCEPT !.status = s] \in RowType
    BY <1>2 DEF RowType
<1>5. /\ tx'[t].status = s /\ tx'[t].amount = tx[t].amount /\ tx'[t].ref = tx[t].ref
      /\ \A u \in Tx : u # t => tx'[u] = tx[u]
    BY <1>2, <1>3 DEF RowType, IInv, TypeOK
<1>6. /\ call' = [call EXCEPT ![c] = Idle] /\ Idle \in CallType
      /\ UNCHANGED <<config, account, emitted>>
    BY DEF Write, Return, Continue, CallType
<1>7. call'[c] = Idle /\ \A d \in Call : d # c => call'[d] = call[d]
    BY <1>6 DEF IInv, TypeOK
<1>8. listing' \in [status : {"ACTIVE", "COMPLETED"}, price : Price]
    BY DEF Write, IInv, TypeOK
<1>9. TypeOK'
    BY <1>3, <1>4, <1>6, <1>8 DEF IInv, TypeOK, config
<1>10. AccountsKept /\ RowsKept /\ \A d \in Call : CheckoutKept(d)
    BY <1>2, <1>5, <1>6 DEF AccountsKept, RowsKept, CheckoutKept, Live, config, Row, Status
<1>11. CallOK(c)' /\ CheckoutsApart'
    BY <1>7, ApartKept DEF CallOK, Idle, IInv, Checkout
<1>12. RowOK(t)'
    <2>1. NamesOwn(t)'
        BY <1>2, <1>5, <1>6 DEF RowOK, NamesOwn, Live, EscrowEnabled, config
    <2>2. (Owes(tx[t].status) => HasPayment(t))' /\ Outcome(t, tx[t].status)'
        BY <1>2, <1>5, <1>6 DEF Owes, HasPayment, Outcome, config
    <2> QED
        BY <2>1, <2>2 DEF RowOK
<1>13. \A u \in Row' : (u \in Row /\ tx'[u] = tx[u]) \/ RowOK(u)'
    BY <1>5, <1>12 DEF Row
<1> QED
    BY <1>6, <1>7, <1>9, <1>10, <1>11, <1>13, Assembled

LEMMA RepriceStep ==
    ASSUME IInv, NEW p \in Price, Reprice(p)
    PROVE  IInv'
<1>1. UNCHANGED <<config, tx, call, account, emitted>>
    BY DEF Reprice
<1>2. TypeOK'
    BY <1>1 DEF Reprice, IInv, TypeOK, config
<1>3. AccountsKept /\ RowsKept /\ \A d \in Call : CheckoutKept(d)
    BY <1>1 DEF AccountsKept, RowsKept, CheckoutKept, Live, config, Row
<1>4. CheckoutsApart'
    BY <1>1, ApartKept DEF IInv
<1> QED
    BY <1>1, <1>2, <1>3, <1>4, Assembled DEF Row

-----------------------------------------------------------------------------
LEMMA InitSound == Init => IInv
<1> SUFFICES ASSUME Init PROVE IInv
    OBVIOUS
<1>1. NoAccount \in AccountType
    BY DEF NoAccount, AccountType, Held
<1>2. TypeOK
    BY <1>1 DEF Init, TypeOK, CallType, Absent
<1>3. Row = {} /\ \A c \in Call : call[c].pc = "idle"
    BY DEF Init, Row, Absent, Idle
<1> QED
    BY <1>2, <1>3 DEF Init, IInv, CallOK, CheckoutsApart, Checkout

LEMMA NextSound == IInv /\ [Next]_vars => IInv'
<1> SUFFICES ASSUME IInv, [Next]_vars PROVE IInv'
    OBVIOUS
<1>1. ASSUME NEW p \in Price, Reprice(p) PROVE IInv'
    BY <1>1, RepriceStep
<1>2. ASSUME NEW c \in Call, NEW b \in Buyer, Order(c, b) PROVE IInv'
    BY <1>2, OrderStep
<1>3. ASSUME NEW c \in Call, NEW r \in Ref,
             Verify(c, r) \/ PaystackWebhook(c, r) \/ EscrowWebhook(c, r)
      PROVE  IInv'
    BY <1>3, VerifyStep, WebhookStep DEF PaystackWebhook
<1>4. ASSUME NEW c \in Call, NEW t \in Tx,
             \/ MarkShipped(c, t) \/ ConfirmReceipt(c, t) \/ DisputeTransaction(c, t)
             \/ RefundTransaction(c, t) \/ FundStubTransaction(c, t)
      PROVE  IInv'
    BY <1>4, PartyStep
<1>5. ASSUME NEW c \in Call, Proceed(c) PROVE IInv'
    BY <1>5, LookStep, CreateStep, InitializeStep, RecordStep, OpenEscrowStep, InsertStep,
       CheckStep, AskStep, WriteStep, WriteFailsStep DEF Proceed
<1>6. ASSUME NEW r \in Ref, Pay(r) \/ ActDirectly(r) PROVE IInv'
    BY <1>6, ProviderStep
<1>7. CASE UNCHANGED vars
    <2>1. UNCHANGED <<provider, acceptOnConfirm, listing, tx, call, account, emitted>>
        BY <1>7 DEF vars, config
    <2>2. TypeOK' /\ CheckoutsApart'
        BY <2>1, ApartKept DEF IInv, TypeOK
    <2>3. AccountsKept /\ RowsKept /\ \A d \in Call : CheckoutKept(d)
        BY <2>1 DEF AccountsKept, RowsKept, CheckoutKept, Live, Row
    <2> QED
        BY <2>1, <2>2, <2>3, Assembled DEF Row
<1> QED
    BY <1>1, <1>2, <1>3, <1>4, <1>5, <1>6, <1>7 DEF Next

(* In every state that can be reached, orders name references made for them, checkouts in     *)
(* progress do not share one, and what is about to be written has been paid and agreed to      *)
(* (transactions.service.ts:252, 281, 423).                                                     *)
THEOREM TransactionsInvariant == Spec => []IInv
    BY InitSound, NextSound, PTL DEF Spec

(* Rows, requests, and what the providers hold keep their types.  *)
THEOREM TypeCorrect == Spec => []TypeOK
<1>1. IInv => TypeOK
    BY DEF IInv
<1> QED
    BY <1>1, TransactionsInvariant, PTL

(* For any number of requests crossing each other, an order that counts as paid was paid, at its  *)
(* own amount (transactions.service.ts:281, 760).                                                 *)
THEOREM Funded == Spec => []FundedWasPaid
<1>1. IInv => FundedWasPaid
    BY DEF IInv, FundedWasPaid, RowOK, Owes, HasPayment
<1> QED
    BY <1>1, TransactionsInvariant, PTL

(* With Escrow.com, no order is COMPLETE or REFUNDED that is not so at the provider, though every  *)
(* status is written without being read again (transactions.service.ts:610, 738, 752).              *)
THEOREM Outcomes == Spec => []OutcomesAreTheProviders
<1>1. IInv => OutcomesAreTheProviders
    BY DEF IInv, OutcomesAreTheProviders, RowOK, Outcome
<1> QED
    BY <1>1, TransactionsInvariant, PTL

-----------------------------------------------------------------------------
(* Lost payments.  A checkout is made for an order only by a request that saw it name none; of     *)
(* the requests that are still to name one, and the references they have overwritten, there are    *)
(* fewer than requests, because one request's reference is the one that is named.                  *)
Renewing == {"initializing", "recording"}

Taken(t) == {r \in Ref : account[r].for = t /\ Live(r)}
Left(t) == Taken(t) \ {tx[t].ref}
Pending(t) == {c \in Call : call[c].pc \in Renewing /\ call[c].tx = t}

LostOK(t) ==
    IF t \in Row /\ tx[t].ref # NoRef
    THEN /\ IsFiniteSet(Left(t))
         /\ Cardinality(Left(t)) + Cardinality(Pending(t)) < Cardinality(Call)
    ELSE Taken(t) = {}

LostInv ==
    /\ \A t \in Tx : LostOK(t)
    /\ Row = {} \/ Call # {}

(* The requests that may name another checkout are finitely many, and Cardinality counts them. *)
LEMMA PendingCounted ==
    ASSUME NEW t
    PROVE  IsFiniteSet(Pending(t)) /\ Cardinality(Pending(t)) \in Nat /\ Cardinality(Call) \in Nat
<1>1. Pending(t) \in SUBSET Call
    BY DEF Pending
<1> QED
    BY <1>1, FS_Subset, FS_CardinalityType, TransactionsAssumption

(* Most steps send no buyer to a reference, name none, and have no request begin to do so for an   *)
(* order that names one.                                                                           *)
QuietAccounts ==
    \A r \in Ref : /\ (Live(r))' <=> Live(r)
                   /\ Live(r) => account'[r].for = account[r].for

QuietRows ==
    /\ \A t \in Row : t \in Row' /\ tx'[t].ref = tx[t].ref
    /\ \A t \in Row' : t \in Row \/ (tx'[t].ref = NoRef /\ Call # {})

QuietCalls ==
    \A d \in Call : call'[d].pc \in Renewing =>
        \/ call[d].pc \in Renewing /\ call'[d].tx = call[d].tx
        \/ call'[d].tx \in Row => tx[call'[d].tx].ref = NoRef

LEMMA QuietStep ==
    ASSUME LostInv, QuietAccounts, QuietRows, QuietCalls
    PROVE  LostInv'
<1>1. ASSUME NEW t \in Tx PROVE LostOK(t)'
    <2>1. Taken(t)' = Taken(t)
        BY DEF Taken, QuietAccounts
    <2>2. CASE t \in Row /\ tx[t].ref # NoRef
        <3>1. t \in Row' /\ tx'[t].ref = tx[t].ref /\ Left(t)' = Left(t)
            BY <2>1, <2>2 DEF QuietRows, Left
        <3>2. Pending(t)' \in SUBSET Pending(t)
            BY <2>2 DEF Pending, QuietCalls
        <3>3. Cardinality(Pending(t)') <= Cardinality(Pending(t)) /\ Cardinality(Pending(t)') \in Nat
            BY <3>2, PendingCounted, FS_Subset, FS_CardinalityType
        <3>4. IsFiniteSet(Left(t)) /\ Cardinality(Left(t)) \in Nat
              /\ Cardinality(Left(t)) + Cardinality(Pending(t)) < Cardinality(Call)
            BY <2>2, FS_CardinalityType DEF LostInv, LostOK
        <3>5. Cardinality(Left(t)) + Cardinality(Pending(t)') < Cardinality(Call)
            BY <3>3, <3>4, PendingCounted
        <3> QED
            BY <2>2, <3>1, <3>4, <3>5 DEF LostOK
    <2>3. CASE ~(t \in Row /\ tx[t].ref # NoRef)
        <3>1. Taken(t) = {} /\ ~(t \in Row' /\ tx'[t].ref # NoRef)
            BY <2>3 DEF LostInv, LostOK, QuietRows
        <3> QED
            BY <2>1, <3>1 DEF LostOK
    <2> QED
        BY <2>2, <2>3
<1>2. Row' = {} \/ Call # {}
    BY DEF LostInv, QuietRows
<1> QED
    BY <1>1, <1>2 DEF LostInv

(* A request goes on to something else than naming a checkout. *)
LEMMA QuietCall ==
    ASSUME TypeOK, NEW c \in Call, NEW q, call' = [call EXCEPT ![c] = q], q.pc \notin Renewing
    PROVE  QuietCalls
BY DEF QuietCalls, TypeOK

LEMMA QuietReturn ==
    ASSUME TypeOK, NEW c \in Call, Return(c)
    PROVE  QuietCalls
BY QuietCall DEF Return, Continue, Idle, Renewing

LEMMA SameAccounts == ASSUME UNCHANGED account PROVE QuietAccounts
BY DEF QuietAccounts, Live

LEMMA SameRows == ASSUME UNCHANGED tx PROVE QuietRows
BY DEF QuietRows, Row

(* The account of a checkout nobody was sent to. *)
LEMMA UnsentAccount ==
    ASSUME TypeOK, NEW r \in Ref, NEW a, ~Live(r), account' = [account EXCEPT ![r] = a],
           a.held \in {"none", "made"}
    PROVE  QuietAccounts
BY DEF QuietAccounts, Live, TypeOK

(* What the provider does with a payment. *)
LEMMA MoveIsQuiet ==
    ASSUME TypeOK, NEW r \in Ref, NEW from, NEW to, NEW e, Move(r, from, to, e),
           from \subseteq Held \ {"none", "made"}, to \notin {"none", "made"}
    PROVE  QuietAccounts
<1>1. account[r] \in AccountType
    BY DEF TypeOK
<1>2. account' = [account EXCEPT ![r] = [account[r] EXCEPT !.held = to]] /\ Live(r)
    BY DEF Move, Live, TypeOK
<1>3. /\ account'[r].held = to /\ account'[r].for = account[r].for
      /\ \A s \in Ref : s # r => account'[s] = account[s]
    BY <1>1, <1>2 DEF TypeOK, AccountType
<1> QED
    BY <1>2, <1>3 DEF QuietAccounts, Live

LEMMA PerformIsQuiet ==
    ASSUME TypeOK, NEW r \in Ref, NEW a, Perform(r, a)
    PROVE  QuietAccounts
<1>1. CASE Move(r, {"secured"}, "shipped", "ship")
    BY <1>1, MoveIsQuiet DEF Held
<1>2. CASE Move(r, {"shipped"}, "received", "receive")
    BY <1>2, MoveIsQuiet DEF Held
<1>3. CASE Move(r, {"received"}, "accepted", "accept")
    BY <1>3, MoveIsQuiet DEF Held
<1>4. CASE Move(r, {"open"}, "cancelled", "cancel")
    BY <1>4, MoveIsQuiet DEF Held
<1> QED
    BY <1>1, <1>2, <1>3, <1>4 DEF Perform

(* Requests of the parties and reports of the provider. *)
LEMMA RequestIsQuiet ==
    ASSUME TypeOK, NEW c \in Call, NEW t, NEW from, NEW asks, NEW to, Request(c, t, from, asks, to)
    PROVE  QuietAccounts /\ QuietRows /\ QuietCalls
<1>1. UNCHANGED <<tx, account>>
    BY DEF Request
<1>2. QuietCalls
    <2>1. CASE call' = [call EXCEPT ![c] = [pc |-> "asking", tx |-> t, asks |-> asks, to |-> to]]
        BY <2>1, QuietCall DEF Renewing
    <2>2. CASE call' = [call EXCEPT ![c] = Writing(t, to)]
        BY <2>2, QuietCall DEF Writing, Renewing
    <2> QED
        BY <2>1, <2>2 DEF Request, Begin
<1> QED
    BY <1>1, <1>2, SameAccounts, SameRows

(* Looking for open orders, and creating one: a checkout is only begun for an order without. *)
LEMMA LookIsQuiet ==
    ASSUME IInv, NEW c \in Call, Look(c)
    PROVE  QuietAccounts /\ QuietRows /\ QuietCalls
<1>1. UNCHANGED <<tx, account>> /\ TypeOK
    BY DEF Look, IInv
<1>2. ASSUME Return(c) PROVE QuietCalls
    BY <1>1, <1>2, QuietReturn
<1>3. ASSUME NEW t \in Open(call[c].buyer), tx[t].ref = NoRef,
             Continue(c, [pc |-> "initializing", tx |-> t, price |-> call[c].price])
      PROVE  QuietCalls
    <2>1. /\ call'[c].pc = "initializing" /\ call'[c].tx = t
          /\ \A d \in Call : d # c => call'[d] = call[d]
        BY <1>1, <1>3 DEF Continue, TypeOK
    <2> QED
        BY <1>3, <2>1 DEF QuietCalls
<1>4. ASSUME Continue(c, [call[c] EXCEPT !.pc = IF EscrowEnabled THEN "opening" ELSE "creating"])
      PROVE  QuietCalls
    <2>1. call[c] \in [pc : {"looking", "creating", "opening"}, buyer : Buyer, price : Price]
        BY CallTyped DEF Look, At, IInv
    <2>2. PICK p \in {"opening", "creating"} : call' = [call EXCEPT ![c] = [call[c] EXCEPT !.pc = p]]
        BY <1>4 DEF Continue
    <2>3. [call[c] EXCEPT !.pc = p].pc = p
        BY <2>1
    <2> QED
        BY <1>1, <2>2, <2>3, QuietCall DEF Renewing
<1>5. QuietCalls
    BY <1>2, <1>3, <1>4, <1>1 DEF Look
<1> QED
    BY <1>1, <1>5, SameAccounts, SameRows

LEMMA CreateIsQuiet ==
    ASSUME IInv, NEW c \in Call, Create(c)
    PROVE  QuietAccounts /\ QuietRows /\ QuietCalls
<1>1. PICK t \in Tx \ Row :
        /\ tx' = [tx EXCEPT ![t] = NewRow(call[c].buyer, call[c].price, NoRef)]
        /\ call' = [call EXCEPT ![c] = [pc |-> "initializing", tx |-> t, price |-> call[c].price]]
    BY DEF Create, Continue
<1>2. /\ tx'[t].ref = NoRef /\ \A u \in Tx : u # t => tx'[u] = tx[u]
      /\ call'[c].pc = "initializing" /\ call'[c].tx = t
      /\ \A d \in Call : d # c => call'[d] = call[d]
    BY <1>1 DEF IInv, TypeOK, NewRow
<1>3. QuietRows
    BY <1>1, <1>2 DEF QuietRows, Row
<1>4. QuietCalls
    BY <1>1, <1>2 DEF QuietCalls
<1> QED
    BY <1>3, <1>4, SameAccounts DEF Create

(* A checkout at the provider, to which nobody was sent yet. *)
LEMMA InitializeIsQuiet ==
    ASSUME IInv, NEW c \in Call, Initialize(c)
    PROVE  QuietAccounts /\ QuietRows /\ QuietCalls
<1>1. TypeOK /\ UNCHANGED tx /\ call[c].pc = "initializing"
    BY DEF IInv, Initialize, At
<1>2. CASE Throws(c) /\ UNCHANGED account
    BY <1>1, <1>2, QuietReturn, SameAccounts, SameRows DEF Throws
<1>3. ASSUME NEW r \in Unused,
             account' = [account EXCEPT ![r] = [held |-> "made", for |-> call[c].tx, amount |-> call[c].price]],
             Continue(c, [pc |-> "recording", tx |-> call[c].tx, ref |-> r])
      PROVE  QuietAccounts /\ QuietCalls
    <2>1. r \in Ref /\ ~Live(r)
        BY DEF Unused, Live
    <2>2. QuietAccounts
        BY <1>1, <1>3, <2>1, UnsentAccount
    <2>3. /\ call'[c].tx = call[c].tx /\ \A d \in Call : d # c => call'[d] = call[d]
        BY <1>1, <1>3 DEF Continue, TypeOK
    <2>4. QuietCalls
        BY <1>1, <2>3 DEF QuietCalls, Renewing
    <2> QED
        BY <2>2, <2>4
<1> QED
    BY <1>1, <1>2, <1>3, SameRows DEF Initialize

LEMMA OpenEscrowIsQuiet ==
    ASSUME IInv, NEW c \in Call, OpenEscrow(c)
    PROVE  QuietAccounts /\ QuietRows /\ QuietCalls
<1>1. TypeOK /\ UNCHANGED tx
    BY DEF IInv, OpenEscrow
<1>2. CASE Throws(c) /\ UNCHANGED account
    BY <1>1, <1>2, QuietReturn, SameAccounts, SameRows DEF Throws
<1>3. ASSUME NEW r \in Unused,
             account' = [account EXCEPT ![r] = [held |-> "made", for |-> NoTx, amount |-> call[c].price]],
             Continue(c, [pc |-> "inserting", buyer |-> call[c].buyer, price |-> call[c].price, ref |-> r])
      PROVE  QuietAccounts /\ QuietCalls
    <2>1. r \in Ref /\ ~Live(r)
        BY DEF Unused, Live
    <2>2. QuietAccounts
        BY <1>1, <1>3, <2>1, UnsentAccount
    <2>3. QuietCalls
        BY <1>1, <1>3, QuietCall DEF Continue, Renewing
    <2> QED
        BY <2>2, <2>3
<1> QED
    BY <1>1, <1>2, <1>3, SameRows DEF OpenEscrow

LEMMA ForgottenIsQuiet ==
    ASSUME IInv, NEW c \in Call, call[c].pc \in Checkout, Forgotten(call[c].ref)
    PROVE  QuietAccounts
<1>1. call[c].ref \in Ref /\ ~Live(call[c].ref)
    BY CheckoutRef DEF Live
<1>2. account' = [account EXCEPT ![call[c].ref] = NoAccount] /\ NoAccount.held = "none"
    BY DEF Forgotten, NoAccount
<1> QED
    BY <1>1, <1>2, UnsentAccount DEF IInv

LEMMA AskIsQuiet ==
    ASSUME IInv, NEW c \in Call, Ask(c)
    PROVE  QuietAccounts /\ QuietRows /\ QuietCalls
<1>1. TypeOK /\ UNCHANGED tx /\ call[c].pc = "asking" /\ call[c].tx \in Row
      /\ call[c] \in [pc : {"asking"}, tx : Tx, asks : Seq(Action), to : Status]
    BY CallTyped DEF IInv, Ask, At, CallOK
<1>2. tx[call[c].tx].ref \in Ref
    BY <1>1, RowTyped DEF IInv, RowOK, NamesOwn, CallOK, RowType
<1>3. QuietAccounts
    BY <1>1, <1>2, SameAccounts, PerformIsQuiet DEF Ask
<1>4. QuietCalls
    <2>1. CASE Throws(c)
        BY <1>1, <2>1, QuietReturn DEF Throws
    <2>2. CASE Continue(c, Writing(call[c].tx, call[c].to))
        BY <1>1, <2>2, QuietCall DEF Continue, Writing, Renewing
    <2>3. CASE Continue(c, [call[c] EXCEPT !.asks = Tail(@)])
        <3>1. [call[c] EXCEPT !.asks = Tail(@)].pc = "asking"
            BY <1>1
        <3> QED
            BY <1>1, <2>3, <3>1, QuietCall DEF Continue, Renewing
    <2> QED
        BY <2>1, <2>2, <2>3 DEF Ask
<1> QED
    BY <1>1, <1>3, <1>4, SameRows

LEMMA WriteIsQuiet ==
    ASSUME IInv, NEW c \in Call, Write(c)
    PROVE  QuietAccounts /\ QuietRows /\ QuietCalls
<1>1. TypeOK /\ UNCHANGED account /\ Return(c)
      /\ call[c] \in [pc : {"writing"}, tx : Tx, to : Status] /\ call[c].tx \in Row
    BY CallTyped DEF IInv, Write, At, CallOK
<1>2. tx[call[c].tx] \in RowType
    BY <1>1, RowTyped
<1>3. tx' = [tx EXCEPT ![call[c].tx] = [tx[call[c].tx] EXCEPT !.status = call[c].to]]
    BY <1>1 DEF Write, TypeOK
<1>4. /\ tx'[call[c].tx].ref = tx[call[c].tx].ref /\ tx'[call[c].tx].status \in Status
      /\ \A u \in Tx : u # call[c].tx => tx'[u] = tx[u]
    BY <1>1, <1>2, <1>3 DEF TypeOK, RowType
<1>5. QuietRows
    BY <1>1, <1>4 DEF QuietRows, Row, Status
<1> QED
    BY <1>1, <1>5, SameAccounts, QuietReturn

(* The steps that send a buyer to a checkout.  The reference named last is not among the lost     *)
(* ones; the one it replaces is, but its request has no other to name.                            *)
LEMMA RecordLoses ==
    ASSUME IInv, LostInv, NEW c \in Call, Record(c)
    PROVE  LostInv'
<1>1. PICK t \in Tx, r \in Ref : call[c] = [pc |-> "recording", tx |-> t, ref |-> r]
    BY CallTyped DEF Record, At, IInv
<1>2. /\ call[c].pc = "recording" /\ call[c].tx = t /\ call[c].ref = r
      /\ t \in Row /\ ~Live(r) /\ account[r].for = t /\ Return(c)
    <2>1. call[c].pc = "recording" /\ call[c].tx = t /\ call[c].ref = r /\ CallOK(c)
        BY <1>1 DEF IInv
    <2> QED
        BY <2>1 DEF Record, CallOK, Live
<1>3. tx[t] \in RowType /\ account[r] \in AccountType
    BY <1>2, RowTyped DEF IInv, TypeOK
<1>4. /\ tx' = [tx EXCEPT ![t] = [tx[t] EXCEPT !.ref = r]]
      /\ account' = [account EXCEPT ![r] = [account[r] EXCEPT !.held = "open"]]
    BY <1>2 DEF Record, IInv, TypeOK
<1>5. /\ \A u \in Tx : u # t => tx'[u] = tx[u]
      /\ \A u \in Ref : u # r => account'[u] = account[u]
      /\ tx'[t].ref = r /\ tx'[t].status = tx[t].status
      /\ account'[r].for = t /\ account'[r].held = "open"
      /\ call'[c].pc = "idle" /\ \A d \in Call : d # c => call'[d] = call[d]
    BY <1>2, <1>3, <1>4 DEF IInv, TypeOK, RowType, AccountType, Return, Continue, Idle
<1>6. ASSUME NEW u \in Tx, u # t PROVE LostOK(u)'
    <2>1. Taken(u)' = Taken(u) /\ Left(u)' = Left(u)
        BY <1>2, <1>5, <1>6 DEF Taken, Left, Live
    <2>2. Pending(u)' = Pending(u)
        BY <1>2, <1>5, <1>6 DEF Pending, Renewing
    <2> QED
        BY <1>5, <1>6, <2>1, <2>2 DEF LostInv, LostOK, Row
<1>7. LostOK(t)'
    <2>1. Left(t)' = Taken(t) /\ t \in Row' /\ tx'[t].ref # NoRef
        BY <1>2, <1>5, TransactionsAssumption DEF Left, Taken, Live, Row
    <2>2. Pending(t)' = Pending(t) \ {c} /\ c \in Pending(t)
        BY <1>2, <1>5 DEF Pending, Renewing
    <2>3. Cardinality(Pending(t)') = Cardinality(Pending(t)) - 1 /\ Cardinality(Pending(t)') \in Nat
        BY <2>2, PendingCounted, FS_RemoveElement, FS_CardinalityType
    <2>4. CASE tx[t].ref = NoRef
        <3>1. Taken(t) = {}
            BY <2>4 DEF LostInv, LostOK
        <3>2. Cardinality(Pending(t)) <= Cardinality(Call)
            <4>1. Pending(t) \in SUBSET Call
                BY DEF Pending
            <4> QED
                BY <4>1, FS_Subset, TransactionsAssumption
        <3>3. 0 + Cardinality(Pending(t)') < Cardinality(Call)
            BY <2>3, <3>2, PendingCounted
        <3> QED
            BY <2>1, <3>1, <3>3, FS_EmptySet DEF LostOK
    <2>5. CASE tx[t].ref # NoRef
        <3>1. /\ IsFiniteSet(Left(t))
              /\ Cardinality(Left(t)) + Cardinality(Pending(t)) < Cardinality(Call)
            BY <1>2, <2>5 DEF LostInv, LostOK
        <3>2. /\ IsFiniteSet(Left(t) \cup {tx[t].ref})
              /\ Cardinality(Left(t) \cup {tx[t].ref}) <= Cardinality(Left(t)) + 1
              /\ Cardinality(Left(t)) \in Nat
            <4>1. Cardinality(Left(t)) \in Nat
                BY <3>1, FS_CardinalityType
            <4>2. /\ IsFiniteSet(Left(t) \cup {tx[t].ref})
                  /\ \/ Cardinality(Left(t) \cup {tx[t].ref}) = Cardinality(Left(t))
                     \/ Cardinality(Left(t) \cup {tx[t].ref}) = Cardinality(Left(t)) + 1
                BY <3>1, FS_AddElement, Zenon
            <4> QED
                BY <4>1, <4>2
        <3>3. Taken(t) \in SUBSET (Left(t) \cup {tx[t].ref})
            BY DEF Left
        <3>4. /\ IsFiniteSet(Taken(t)) /\ Cardinality(Taken(t)) \in Nat
              /\ Cardinality(Left(t) \cup {tx[t].ref}) \in Nat
              /\ Cardinality(Taken(t)) <= Cardinality(Left(t) \cup {tx[t].ref})
            BY <3>2, <3>3, FS_Subset, FS_CardinalityType
        <3>5. Cardinality(Taken(t)) + Cardinality(Pending(t)') < Cardinality(Call)
            BY <2>3, <3>1, <3>2, <3>4, PendingCounted
        <3> QED
            BY <2>1, <3>4, <3>5 DEF LostOK
    <2> QED
        BY <2>4, <2>5
<1> QED
    BY <1>6, <1>7 DEF LostInv

LEMMA InsertLoses ==
    ASSUME IInv, LostInv, NEW c \in Call, Insert(c)
    PROVE  LostInv'
<1> DEFINE r == call[c].ref
<1>1. /\ call[c].pc = "inserting" /\ r \in Ref /\ ~Live(r) /\ account[r] \in AccountType
      /\ Return(c) /\ call[c].pc \in Checkout /\ TypeOK
    BY CheckoutRef DEF Insert, At, IInv, Checkout, TypeOK, Live
<1> HIDE DEF r
<1>2. ASSUME NEW t \in Tx \ Row,
             tx' = [tx EXCEPT ![t] = NewRow(call[c].buyer, call[c].price, r)],
             account' = [account EXCEPT ![r].for = t, ![r].held = "open"]
      PROVE  LostInv'
    <2>1. account' = [account EXCEPT ![r] = [account[r] EXCEPT !.for = t, !.held = "open"]]
        BY <1>1, <1>2 DEF TypeOK
    <2>2. /\ \A u \in Tx : u # t => tx'[u] = tx[u]
          /\ \A u \in Ref : u # r => account'[u] = account[u]
          /\ tx'[t].ref = r /\ tx'[t].status = "INITIATED"
          /\ account'[r].for = t /\ account'[r].held = "open"
          /\ call'[c].pc = "idle" /\ \A d \in Call : d # c => call'[d] = call[d]
        BY <1>1, <1>2, <2>1 DEF TypeOK, NewRow, AccountType, Return, Continue, Idle
    <2>3. ASSUME NEW u \in Tx, u # t PROVE LostOK(u)'
        <3>1. Taken(u)' = Taken(u) /\ Left(u)' = Left(u)
            BY <1>1, <2>2, <2>3 DEF Taken, Left, Live
        <3>2. Pending(u)' = Pending(u)
            BY <1>1, <2>2 DEF Pending, Renewing
        <3> QED
            BY <2>2, <2>3, <3>1, <3>2 DEF LostInv, LostOK, Row
    <2>4. LostOK(t)'
        <3>1. Taken(t) = {}
            BY DEF LostInv, LostOK
        <3>2. Left(t)' = {} /\ t \in Row' /\ tx'[t].ref # NoRef
            BY <1>1, <2>2, <3>1, TransactionsAssumption DEF Left, Taken, Live, Row
        <3>3. \A d \in Call : CallOK(d)
            BY DEF IInv
        <3>4. Pending(t)' = {}
            <4>1. ASSUME NEW d \in Call, call'[d].pc \in Renewing, call'[d].tx = t PROVE FALSE
                <5>1. d # c
                    BY <2>2, <4>1 DEF Renewing
                <5>2. call[d].pc \in Renewing /\ call[d].tx = t
                    BY <2>2, <4>1, <5>1
                <5>3. t \in Row
                    BY <3>3, <5>2 DEF CallOK, Renewing
                <5> QED
                    BY <5>3
            <4> QED
                BY <4>1 DEF Pending
        <3>5. Cardinality(Call) # 0 /\ Cardinality(Call) \in Nat
            BY FS_EmptySet, FS_CardinalityType, TransactionsAssumption
        <3> QED
            BY <3>2, <3>4, <3>5, FS_EmptySet DEF LostOK
    <2> QED
        BY <2>3, <2>4 DEF LostInv
<1>3. CASE Forgotten(r) /\ UNCHANGED tx
    BY <1>1, <1>3, ForgottenIsQuiet, QuietReturn, SameRows, QuietStep DEF r
<1> QED
    BY <1>2, <1>3 DEF Insert, r

LEMMA NextLoses == IInv /\ LostInv /\ [Next]_vars => LostInv'
<1> SUFFICES ASSUME IInv, LostInv, [Next]_vars PROVE LostInv'
    OBVIOUS
<1>0. TypeOK
    BY DEF IInv
<1>1. ASSUME NEW p \in Price, Reprice(p) PROVE LostInv'
    BY <1>1, SameAccounts, SameRows, QuietStep DEF Reprice, QuietCalls
<1>2. ASSUME NEW c \in Call, NEW b \in Buyer, Order(c, b) PROVE LostInv'
    <2>1. QuietCalls
        BY <1>0, <1>2, QuietCall DEF Order, Begin, Renewing
    <2> QED
        BY <1>2, <2>1, SameAccounts, SameRows, QuietStep DEF Order
<1>3. ASSUME NEW c \in Call, NEW r \in Ref, Verify(c, r) PROVE LostInv'
    <2>1. QuietCalls
        BY <1>0, <1>3, QuietCall DEF Verify, Begin, Renewing
    <2> QED
        BY <1>3, <2>1, SameAccounts, SameRows, QuietStep DEF Verify
<1>4. ASSUME NEW c \in Call, NEW r \in Ref, EscrowWebhook(c, r) PROVE LostInv'
    BY <1>0, <1>4, RequestIsQuiet, QuietStep DEF EscrowWebhook
<1>5. ASSUME NEW c \in Call, NEW t \in Tx,
             \/ MarkShipped(c, t) \/ ConfirmReceipt(c, t) \/ DisputeTransaction(c, t)
             \/ RefundTransaction(c, t) \/ FundStubTransaction(c, t)
      PROVE  LostInv'
    <2>1. PICK from, asks, to : Request(c, t, from, asks, to)
        BY <1>5 DEF MarkShipped, ConfirmReceipt, DisputeTransaction, RefundTransaction,
           FundStubTransaction
    <2> QED
        BY <1>0, <2>1, RequestIsQuiet, QuietStep
<1>6. ASSUME NEW c \in Call, Proceed(c) PROVE LostInv'
    <2>1. CASE Check(c) \/ CheckFails(c)
        <3>1. QuietCalls
            BY <1>0, <2>1, QuietCall, QuietReturn
            DEF Check, CheckFails, Throws, Continue, Writing, Renewing
        <3> QED
            BY <2>1, <3>1, SameAccounts, SameRows, QuietStep DEF Check, CheckFails
    <2>2. CASE WriteFails(c)
        BY <1>0, <2>2, ForgottenIsQuiet, SameAccounts, SameRows, QuietReturn, QuietStep
        DEF WriteFails, Throws, At, Checkout
    <2> QED
        BY <1>6, <2>1, <2>2, LookIsQuiet, CreateIsQuiet, InitializeIsQuiet, OpenEscrowIsQuiet,
           AskIsQuiet, WriteIsQuiet, RecordLoses, InsertLoses, QuietStep DEF Proceed
<1>7. ASSUME NEW r \in Ref, Pay(r) \/ ActDirectly(r) PROVE LostInv'
    <2>1. QuietAccounts
        <3>1. CASE Move(r, {"open"}, "secured", "payment_approved")
            BY <1>0, <3>1, MoveIsQuiet DEF Held
        <3>2. CASE Move(r, {"secured", "shipped", "received"}, "refunded", "payment_refunded")
            BY <1>0, <3>2, MoveIsQuiet DEF Held
        <3> QED
            BY <1>0, <1>7, <3>1, <3>2, PerformIsQuiet DEF Pay, ActDirectly
    <2>2. QuietCalls /\ UNCHANGED tx
        BY <1>7 DEF Pay, ActDirectly, QuietCalls
    <2> QED
        BY <2>1, <2>2, SameRows, QuietStep
<1>8. CASE UNCHANGED vars
    BY <1>8, SameAccounts, SameRows, QuietStep DEF vars, QuietCalls
<1> QED
    BY <1>1, <1>2, <1>3, <1>4, <1>5, <1>6, <1>7, <1>8 DEF Next, PaystackWebhook

(* However many requests make checkouts for an order at once, the payments it can no longer be     *)
(* found by are fewer than the requests; a request that runs alone loses none                       *)
(* (transactions.service.ts:233, 262).                                                               *)
THEOREM LostBounded == Spec => []LostPaymentsBoundedByCalls
<1>1. Init => LostInv
    <2> SUFFICES ASSUME Init PROVE LostInv
        OBVIOUS
    <2>1. Row = {}
        BY DEF Init, Row, Absent
    <2>2. \A t \in Tx : Taken(t) = {}
        BY DEF Init, Taken, Live, NoAccount
    <2> QED
        BY <2>1, <2>2 DEF LostInv, LostOK
<1>2. IInv /\ LostInv /\ [Next]_vars => LostInv'
    BY NextLoses
<1>3. IInv /\ LostInv => LostPaymentsBoundedByCalls
    <2> SUFFICES ASSUME IInv, LostInv, NEW t \in Row
                 PROVE  Cardinality(Unfindable(t)) < Cardinality(Call)
        BY DEF LostPaymentsBoundedByCalls
    <2>1. Unfindable(t) \in SUBSET Left(t) /\ t \in Tx
        BY DEF Unfindable, Left, Taken, Live, Paid, Row
    <2>2. CASE tx[t].ref # NoRef
        <3>1. /\ IsFiniteSet(Left(t))
              /\ Cardinality(Left(t)) + Cardinality(Pending(t)) < Cardinality(Call)
            BY <2>1, <2>2 DEF LostInv, LostOK
        <3>2. /\ Cardinality(Unfindable(t)) <= Cardinality(Left(t))
              /\ Cardinality(Unfindable(t)) \in Nat /\ Cardinality(Left(t)) \in Nat
            BY <2>1, <3>1, FS_Subset, FS_CardinalityType
        <3> QED
            BY <3>1, <3>2, PendingCounted
    <2>3. CASE tx[t].ref = NoRef
        <3>1. Unfindable(t) = {}
            BY <2>1, <2>3 DEF LostInv, LostOK, Left
        <3>2. Cardinality(Call) # 0 /\ Cardinality(Call) \in Nat
            BY FS_EmptySet, FS_CardinalityType, TransactionsAssumption DEF LostInv
        <3> QED
            BY <3>1, <3>2, FS_EmptySet
    <2> QED
        BY <2>2, <2>3
<1> QED
    BY <1>1, <1>2, <1>3, TransactionsInvariant, PTL DEF Spec

=============================================================================
