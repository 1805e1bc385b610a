------------------------------ MODULE MCCredit ------------------------------
(* A small instance of Cr3dXCredit: three deals shared by two borrowers.     *)
EXTENDS Cr3dXCredit, TLC

MCAmounts == {3, 6}

\* The spec treats deals and borrowers alike, so both sets are symmetric.
MCSymmetry == Permutations(DealIds) \cup Permutations(Borrowers)
=============================================================================
