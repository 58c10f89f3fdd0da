----------------------------- MODULE MCAccounts -----------------------------
(* Instances of Accounts for TLC: one user exists, another may be made.      *)
EXTENDS Accounts, TLC
CONSTANTS a1, a2, h1, h2, p1, p2, c1, s1, s2, s3
MCValue == [c \in Codes |-> 5]
MCSymmetry == Permutations(Sessions)
=============================================================================
