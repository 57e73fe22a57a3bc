\* One buyer, two requests at a time, one payment more than they can have lost together;
\* each provider.
CONSTANTS
    Tx = {t1, t2}
    Buyer = {b1}
    Ref = {r1, r2, r3}
    Price = {p1, p2}
    Call = {c1, c2}
    Provider = {"paystack", "escrow", "stub"}
    NoRef = NoRef
    NoTx = NoTx
    NoPrice = NoPrice
SPECIFICATION Spec
SYMMETRY MCSymmetry
\* When the orders are used up, nothing is left to do.
CHECK_DEADLOCK FALSE
INVARIANTS
    FundedWasPaid
    OutcomesAreTheProviders
    LostPaymentsBoundedByCalls
