--------------------------- MODULE MCProofOfWork ---------------------------
(* Bytes of two bits, postfixes and hashes of two bytes.  "late" is solved   *)
(* by the last postfix <<3, 3>> only, "hard" by none, and the hashes of      *)
(* "easy" have zeros behind their first bits.                                *)
EXTENDS ProofOfWork
MCDifficulty == [c \in Challenges |->
  CASE c = "easy" -> 3 [] c = "late" -> 4 [] c = "hard" -> 5]
MCHash == [c \in Challenges |-> [p \in Postfix |->
  LET n    == 4 * p[1] + p[2]
      hash == IF c = "easy" THEN (n * 7 + 1) % 16 ELSE (n + 1) % 16
  IN <<hash \div 4, hash % 4>>]]
=============================================================================
