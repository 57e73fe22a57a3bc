----------------------------- MODULE Transactions -----------------------------
(***************************************************************************)
(* TransactionsService with EscrowService and PaystackService: orders for   *)
(* one listing, paid through Paystack or held by Escrow.com.  The module is *)
(* not registered in app.module.ts, so no request reaches it today; it is   *)
(* kept for the day it is.                                                  *)
(*                                                                         *)
(* Every request reads the order, asks the provider if it has to, and then  *)
(* writes the status without looking again.  A call is such a request; the  *)
(* providers are external: what they hold for a reference, and webhooks     *)
(* that report it as often and as late as they like.  Amounts matter only   *)
(* as far as they are compared; currencies, notifications, the log of       *)
(* provider events and of provider statuses (read by nothing) are left out. *)
(***************************************************************************)
EXTENDS Naturals, FiniteSets, Sequences

CONSTANTS
    Tx,             \* transaction ids
    Buyer,          \* those who order the listing
    Ref,            \* references the providers know payments by
    Price,          \* prices of the listing
    Call,           \* requests in progress at one time
    Provider,       \* the configurations: "paystack", "escrow", "stub"
    NoRef, NoTx,    \* null
    NoPrice

ASSUME TransactionsAssumption ==
    /\ Provider \subseteq {"paystack", "escrow", "stub"}
    /\ NoRef \notin Ref /\ NoTx \notin Tx /\ NoPrice \notin Price
    /\ IsFiniteSet(Tx) /\ IsFiniteSet(Call)

VARIABLES
    provider,       \* how the deployment is configured; "stub" is Escrow.com without keys
    acceptOnConfirm,    \* "ESCROW_ACCEPT_ON_CONFIRM"
    listing,        \* its "status" and "price"
    tx,             \* tx[t]: "status" ("ABSENT" before the row), buyer, "amount", and the
                    \* provider's reference ("escrowTransactionId")
    call,           \* call[c]: how far a request is and what it has read
    account,        \* external: account[r]: what the provider has for a reference
    emitted         \* external: events the provider reports by webhook

config == <<provider, acceptOnConfirm>>
vars == <<config, listing, tx, call, account, emitted>>

Status == {"INITIATED", "FUNDED", "SHIPPED", "RECEIVED", "COMPLETE", "DISPUTED", "REFUNDED"}
Action == {"ship", "receive", "accept", "cancel"}
Event == {"payment_approved", "payment_refunded"} \cup Action
Held == {"none", "made", "open", "secured", "shipped", "received", "accepted", "cancelled", "refunded"}

Idle == [pc |-> "idle"]

CallType ==
    {Idle}
    \cup [pc : {"looking", "creating", "opening"}, buyer : Buyer, price : Price]
    \cup [pc : {"initializing"}, tx : Tx, price : Price]
    \cup [pc : {"recording"}, tx : Tx, ref : Ref]
    \cup [pc : {"inserting"}, buyer : Buyer, price : Price, ref : Ref]
    \cup [pc : {"verifying"}, tx : Tx, ref : Ref, initiated : BOOLEAN]
    \cup [pc : {"asking"}, tx : Tx, asks : Seq(Action), to : Status]
    \cup [pc : {"writing"}, tx : Tx, to : Status]

Absent == [status |-> "ABSENT"]

RowType == [status : Status, buyer : Buyer, amount : Price, ref : Ref \cup {NoRef}]

AccountType == [held : Held, for : Tx \cup {NoTx}, amount : Price \cup {NoPrice}]

TypeOK ==
    /\ provider \in Provider
    /\ acceptOnConfirm \in BOOLEAN
    /\ listing \in [status : {"ACTIVE", "COMPLETED"}, price : Price]
    /\ tx \in [Tx -> {Absent} \cup RowType]
    /\ call \in [Call -> CallType]
    /\ account \in [Ref -> AccountType]
    /\ emitted \subseteq Ref \X Event

NoAccount == [held |-> "none", for |-> NoTx, amount |-> NoPrice]

Init ==
    /\ provider \in Provider
    /\ acceptOnConfirm \in IF provider = "paystack" THEN {FALSE} ELSE BOOLEAN
    /\ listing \in [status : {"ACTIVE"}, price : Price]
    /\ tx = [t \in Tx |-> Absent]
    /\ call = [c \in Call |-> Idle]
    /\ account = [r \in Ref |-> NoAccount]
    /\ emitted = {}

Row == {t \in Tx : tx[t].status # "ABSENT"}
EscrowEnabled == provider \in {"escrow", "stub"}

At(c, pc) == call[c].pc = pc
Begin(c, r) == call[c] = Idle /\ call' = [call EXCEPT ![c] = r]
Continue(c, r) == call' = [call EXCEPT ![c] = r]
Return(c) == Continue(c, Idle)

(* An answer that is an error: the request throws. *)
Throws(c) == Return(c)

Writing(t, s) == [pc |-> "writing", tx |-> t, to |-> s]

-----------------------------------------------------------------------------
(* createPaymentTransaction: the listing is read, then open orders of the buyer are      *)
(* looked for, then one is created.                                                     *)
Reprice(p) ==
    /\ p # listing.price
    /\ listing' = [listing EXCEPT !.price = p]
    /\ UNCHANGED <<config, tx, call, account, emitted>>

Order(c, b) ==
    /\ listing.status = "ACTIVE"
    /\ Begin(c, [pc |-> "looking", buyer |-> b, price |-> listing.price])
    /\ UNCHANGED <<config, listing, tx, account, emitted>>

Open(b) ==
    {t \in Row : tx[t].buyer = b
                 /\ tx[t].status \in {"INITIATED", "FUNDED", "SHIPPED", "RECEIVED", "DISPUTED"}}

(* Mutant: a checkout is made for every unpaid order that is looked up. *)
LookRenewing(c) ==
    /\ At(c, "looking")
    /\ \/ \E t \in Open(call[c].buyer) :
            IF tx[t].status = "INITIATED" /\ ~EscrowEnabled
            THEN Continue(c, [pc |-> "initializing", tx |-> t, price |-> call[c].price])
            ELSE Return(c)
       \/ /\ Open(call[c].buyer) = {}
          /\ Continue(c, [call[c] EXCEPT !.pc = IF EscrowEnabled THEN "opening" ELSE "creating"])
    /\ UNCHANGED <<config, listing, tx, account, emitted>>

(* An open order is shown again, after a Paystack checkout was made for it if the first  *)
(* attempt to make one failed.                                                           *)
Look(c) ==
    /\ At(c, "looking")
    /\ \/ \E t \in Open(call[c].buyer) :
            IF tx[t].status = "INITIATED" /\ tx[t].ref = NoRef
            THEN Continue(c, [pc |-> "initializing", tx |-> t, price |-> call[c].price])
            ELSE Return(c)
       \/ /\ Open(call[c].buyer) = {}
          /\ Continue(c, [call[c] EXCEPT !.pc = IF EscrowEnabled THEN "opening" ELSE "creating"])
    /\ UNCHANGED <<config, listing, tx, account, emitted>>

NewRow(b, p, r) == [status |-> "INITIATED", buyer |-> b, amount |-> p, ref |-> r]

Create(c) ==
    /\ At(c, "creating")
    /\ \E t \in Tx \ Row :
        /\ tx' = [tx EXCEPT ![t] = NewRow(call[c].buyer, call[c].price, NoRef)]
        /\ Continue(c, [pc |-> "initializing", tx |-> t, price |-> call[c].price])
    /\ UNCHANGED <<config, listing, account, emitted>>

Unused == {r \in Ref : account[r].held = "none"}

(* A payment that no row came to name: nobody was sent to it, and it is as good as unused. *)
Forgotten(r) == account' = [account EXCEPT ![r] = NoAccount]

(* initializePendingPayment: a fresh reference, at the price the listing had when it was   *)
(* read; the row then names the reference, and the buyer is sent to it.                     *)
Initialize(c) ==
    /\ At(c, "initializing")
    /\ \/ \E r \in Unused :
            /\ account' = [account EXCEPT ![r] =
                            [held |-> "made", for |-> call[c].tx, amount |-> call[c].price]]
            /\ Continue(c, [pc |-> "recording", tx |-> call[c].tx, ref |-> r])
       \/ Throws(c) /\ UNCHANGED account
    /\ UNCHANGED <<config, listing, tx, emitted>>

Record(c) ==
    /\ At(c, "recording")
    /\ tx' = [tx EXCEPT ![call[c].tx].ref = call[c].ref]
    /\ account' = [account EXCEPT ![call[c].ref].held = "open"]
    /\ Return(c)
    /\ UNCHANGED <<config, listing, emitted>>

(* createEscrowTransaction, before there is a row.  *)
OpenEscrow(c) ==
    /\ At(c, "opening")
    /\ \/ \E r \in Unused :
            /\ account' = [account EXCEPT ![r] =
                            [held |-> "made", for |-> NoTx, amount |-> call[c].price]]
            /\ Continue(c, [pc |-> "inserting", buyer |-> call[c].buyer,
                            price |-> call[c].price, ref |-> r])
       \/ Throws(c) /\ UNCHANGED account
    /\ UNCHANGED <<config, listing, tx, emitted>>

Insert(c) ==
    /\ At(c, "inserting")
    /\ \/ \E t \in Tx \ Row :
            /\ tx' = [tx EXCEPT ![t] = NewRow(call[c].buyer, call[c].price, call[c].ref)]
            /\ account' = [account EXCEPT ![call[c].ref].for = t, ![call[c].ref].held = "open"]
       \/ Forgotten(call[c].ref) /\ UNCHANGED tx    \* the insert fails
    /\ Return(c)
    /\ UNCHANGED <<config, listing, emitted>>

-----------------------------------------------------------------------------
(* The provider. *)
Move(r, from, to, event) ==
    /\ account[r].held \in from
    /\ account' = [account EXCEPT ![r].held = to]
    /\ emitted' = emitted \cup {<<r, event>>}

Perform(r, a) ==
    \/ a = "ship" /\ Move(r, {"secured"}, "shipped", "ship")
    \/ a = "receive" /\ Move(r, {"shipped"}, "received", "receive")
    \/ a = "accept" /\ Move(r, {"received"}, "accepted", "accept")
    \/ a = "cancel" /\ Move(r, {"open"}, "cancelled", "cancel")

(* A buyer pays; on Escrow.com the parties may also act without Remnant.                  *)
Pay(r) ==
    /\ provider # "stub"
    /\ Move(r, {"open"}, "secured", "payment_approved")
    /\ UNCHANGED <<config, listing, tx, call>>

ActDirectly(r) ==
    /\ provider = "escrow"
    /\ \/ \E a \in Action : Perform(r, a)
       \/ Move(r, {"secured", "shipped", "received"}, "refunded", "payment_refunded")
    /\ UNCHANGED <<config, listing, tx, call>>

-----------------------------------------------------------------------------
(* verifyPaystackTransaction, for the browser that comes back from the checkout and for    *)
(* the webhook: the order that names the reference now, whatever order it was made for.    *)
Named(r) == {t \in Row : tx[t].ref = r}

Verify(c, r) ==
    /\ provider = "paystack"
    /\ \E t \in Named(r) :
        Begin(c, [pc |-> "verifying", tx |-> t, ref |-> r,
                  initiated |-> tx[t].status = "INITIATED"])
    /\ UNCHANGED <<config, listing, tx, account, emitted>>

(* handlePaystackWebhook *)
PaystackWebhook(c, r) ==
    /\ <<r, "payment_approved">> \in emitted
    /\ Verify(c, r)

(* Mutant: the amount is not compared. *)
VerifiedAtAnyPrice(t, r) == account[r].held = "secured"

(* "success", and the reference and the amount asked for. *)
Verified(t, r) == account[r].held = "secured" /\ account[r].amount = tx[t].amount

Check(c) ==
    /\ At(c, "verifying")
    /\ IF Verified(call[c].tx, call[c].ref) /\ call[c].initiated
       THEN Continue(c, Writing(call[c].tx, "FUNDED"))
       ELSE Return(c)
    /\ UNCHANGED <<config, listing, tx, account, emitted>>

(* PaystackService.request times out. *)
CheckFails(c) ==
    /\ At(c, "verifying")
    /\ Throws(c)
    /\ UNCHANGED <<config, listing, tx, account, emitted>>

-----------------------------------------------------------------------------
(* The requests of the parties: a status they start from, what they ask of Escrow.com, and *)
(* the status they write.                                                                  *)
Request(c, t, from, asks, to) ==
    /\ t \in Row
    /\ tx[t].status \in from
    /\ Begin(c, IF EscrowEnabled /\ asks # <<>>
                THEN [pc |-> "asking", tx |-> t, asks |-> asks, to |-> to]
                ELSE Writing(t, to))
    /\ UNCHANGED <<config, listing, tx, account, emitted>>

MarkShipped(c, t) == Request(c, t, {"FUNDED"}, <<"ship">>, "SHIPPED")

ConfirmReceipt(c, t) ==
    IF EscrowEnabled /\ ~acceptOnConfirm
    THEN Request(c, t, {"SHIPPED"}, <<"receive">>, "RECEIVED")
    ELSE Request(c, t, {"SHIPPED"}, <<"receive", "accept">>, "COMPLETE")

DisputeTransaction(c, t) ==
    Request(c, t, {"FUNDED", "SHIPPED", "RECEIVED"}, <<>>, "DISPUTED")

(* Only what has not been paid can be refunded here, and only with escrow. *)
RefundTransaction(c, t) ==
    EscrowEnabled /\ Request(c, t, {"INITIATED"}, <<"cancel">>, "REFUNDED")

FundStubTransaction(c, t) ==
    provider = "stub" /\ Request(c, t, {"INITIATED"}, <<>>, "FUNDED")

(* Mutant: a refusal of the provider is not noticed. *)
AskUnchecked(c) ==
    /\ At(c, "asking")
    /\ \/ Perform(tx[call[c].tx].ref, Head(call[c].asks))
       \/ UNCHANGED <<account, emitted>>
    /\ Continue(c, IF Len(call[c].asks) = 1 THEN Writing(call[c].tx, call[c].to)
                   ELSE [call[c] EXCEPT !.asks = Tail(@)])
    /\ UNCHANGED <<config, listing, tx>>

(* patchTransaction: a stub agrees to anything; Escrow.com may also do what it is asked     *)
(* and its answer be lost.                                                                  *)
Ask(c) ==
    /\ At(c, "asking")
    /\ LET r == tx[call[c].tx].ref
           a == Head(call[c].asks)
       IN  \/ /\ IF provider = "stub" THEN UNCHANGED <<account, emitted>> ELSE Perform(r, a)
              /\ Continue(c, IF Len(call[c].asks) = 1 THEN Writing(call[c].tx, call[c].to)
                             ELSE [call[c] EXCEPT !.asks = Tail(@)])
           \/ provider = "escrow" /\ Perform(r, a) /\ Throws(c)
           \/ provider = "escrow" /\ Throws(c) /\ UNCHANGED <<account, emitted>>
    /\ UNCHANGED <<config, listing, tx>>

(* handleEscrowWebhook: what an event starts from and leads to. *)
From(e) ==
    CASE e = "payment_approved" -> {"INITIATED"}
      [] e = "ship" -> {"FUNDED"}
      [] e = "receive" -> {"SHIPPED"}
      [] e = "accept" -> Status \ {"COMPLETE"}
      [] e \in {"cancel", "payment_refunded"} -> Status \ {"REFUNDED"}

To(e) ==
    CASE e = "payment_approved" -> "FUNDED"
      [] e = "ship" -> "SHIPPED"
      [] e = "receive" -> "RECEIVED"
      [] e = "accept" -> "COMPLETE"
      [] e \in {"cancel", "payment_refunded"} -> "REFUNDED"

EscrowWebhook(c, r) ==
    /\ provider = "escrow"
    /\ \E e \in Event, t \in Named(r) :
        /\ <<r, e>> \in emitted
        /\ Request(c, t, From(e), <<>>, To(e))

(* The status is written over whatever it has become.  COMPLETE takes the listing with it. *)
Write(c) ==
    /\ At(c, "writing")
    /\ tx' = [tx EXCEPT ![call[c].tx].status = call[c].to]
    /\ listing' = [listing EXCEPT !.status = IF call[c].to = "COMPLETE" THEN "COMPLETED" ELSE @]
    /\ Return(c)
    /\ UNCHANGED <<config, account, emitted>>

WriteFails(c) ==
    /\ \/ call[c].pc \in {"looking", "creating", "writing"} /\ UNCHANGED account
       \/ At(c, "recording") /\ Forgotten(call[c].ref)
    /\ Throws(c)
    /\ UNCHANGED <<config, listing, tx, emitted>>

-----------------------------------------------------------------------------
Proceed(c) ==
    \/ Look(c) \/ Create(c) \/ Initialize(c) \/ Record(c) \/ OpenEscrow(c) \/ Insert(c)
    \/ Check(c) \/ Ask(c) \/ Write(c)
    \/ CheckFails(c) \/ WriteFails(c)

Next ==
    \/ \E p \in Price : Reprice(p)
    \/ \E c \in Call, b \in Buyer : Order(c, b)
    \/ \E c \in Call, r \in Ref : Verify(c, r) \/ PaystackWebhook(c, r) \/ EscrowWebhook(c, r)
    \/ \E c \in Call, t \in Tx :
        \/ MarkShipped(c, t) \/ ConfirmReceipt(c, t) \/ DisputeTransaction(c, t)
        \/ RefundTransaction(c, t) \/ FundStubTransaction(c, t)
    \/ \E c \in Call : Proceed(c)
    \/ \E r \in Ref : Pay(r) \/ ActDirectly(r)

Spec == Init /\ [][Next]_vars

-----------------------------------------------------------------------------
Paid == {"secured", "shipped", "received", "accepted", "refunded"}

(* Whatever calls cross each other, an order counts as paid, shipped, complete or disputed  *)
(* only if a payment made for it, of its own amount, has reached the provider                *)
(* (transactions.service.ts:281, 760).                                                        *)
FundedWasPaid ==
    provider # "stub" =>
        \A t \in Row : tx[t].status \notin {"INITIATED", "REFUNDED"} =>
            \E r \in Ref : /\ account[r].for = t
                           /\ account[r].held \in Paid
                           /\ account[r].amount = tx[t].amount

(* With Escrow.com, an order is COMPLETE only if the goods were accepted there, REFUNDED    *)
(* only if it was cancelled or refunded there: stale writes reorder statuses, but never      *)
(* invent an outcome (transactions.service.ts:610, 738, 752).                                 *)
OutcomesAreTheProviders ==
    provider = "escrow" =>
        \A t \in Row : /\ tx[t].status = "COMPLETE" => account[tx[t].ref].held = "accepted"
                       /\ tx[t].status = "REFUNDED"
                            => account[tx[t].ref].held \in {"cancelled", "refunded"}

(* A payment is found through the reference its order names.  Of the checkouts made for an  *)
(* order, all but the one recorded last are unfindable, though their buyers were sent there;  *)
(* calls that run at the same time may leave such payments behind, one after another may not   *)
(* (transactions.service.ts:233, 262).                                                          *)
Unfindable(t) ==
    {r \in Ref : account[r].for = t /\ account[r].held \in Paid /\ tx[t].ref # r}

LostPaymentsBoundedByCalls ==
    \A t \in Row : Cardinality(Unfindable(t)) < Cardinality(Call)

=============================================================================
