---------------------------- MODULE MCTransactions ----------------------------
EXTENDS Transactions, TLC

MCSymmetry == Permutations(Tx) \cup Permutations(Ref) \cup Permutations(Call)
    \cup Permutations(Price)

=============================================================================
