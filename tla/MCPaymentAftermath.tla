-------------------------- MODULE MCPaymentAftermath --------------------------
EXTENDS PaymentAftermath, TLC

CONSTANTS p1, p2, c1, c2, w1, j1, j2

OneTwo == p1 :> 1 @@ p2 :> 2
Symmetry == Permutations(Client) \cup Permutations(Job)
=============================================================================
