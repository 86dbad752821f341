---------------------------- MODULE MCReception -----------------------------
(* A small instance of Reception: two financial years, two clerks of whom  *)
(* one may register customers, and a width that holds two numbers.         *)
EXTENDS Reception, TLC

Symmetric == Permutations(Rows) \cup Permutations(Requests)
=============================================================================
