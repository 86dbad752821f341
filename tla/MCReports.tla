------------------------------ MODULE MCReports ------------------------------
(* A small instance of Reports: a bill of 2 paid by two transactions of 1   *)
(* or 2, over three days of the laboratory and two of the server's clock.   *)
EXTENDS Reports, TLC

Symmetric == Permutations(Trx)
=============================================================================
