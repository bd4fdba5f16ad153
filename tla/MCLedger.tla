------------------------------ MODULE MCLedger ------------------------------
(* Ledger with every project owned by one user. *)
EXTENDS Ledger, TLC

CONSTANTS u1, p1, q1, q2, r1, b1, f1, f2, g1, k1, rt1, rt2

OneOwner == [p \in Projects |-> u1]

FinisherSymmetry == Permutations(Finishers)

=============================================================================
