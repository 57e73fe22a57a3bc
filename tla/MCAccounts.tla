------------------------------ MODULE MCAccounts ------------------------------
EXTENDS Accounts, TLC

OneAddress == CHOOSE a \in Address : TRUE

MCFirstAddress ==
    [i \in Identity |-> IF i \in Google THEN CHOOSE a \in Address : a # OneAddress ELSE OneAddress]
\* An address is changed for another one, and not back.
MCMove == {m \in Address \X Address : m[1] # OneAddress /\ m[2] = OneAddress}
MCSymmetry == Permutations(Call)

=============================================================================
