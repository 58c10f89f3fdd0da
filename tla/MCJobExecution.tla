--------------------------- MODULE MCJobExecution ---------------------------
(* A small instance of JobExecution: the balance lasts two seconds, the      *)
(* allowance three.                                                          *)
EXTENDS JobExecution
=============================================================================
