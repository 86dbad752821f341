---------------------------- MODULE MCSettlement ----------------------------
(* A small instance of Settlement: tier c1 costs 1 and c2 has no price, t1 *)
(* pays 1 and t2 pays 3, so that a bill of one or two stones is paid in    *)
(* parts, at once, and more than once.                                     *)
EXTENDS Settlement, FiniteSetsExt, TLC

CONSTANTS s1, s2, c1, c2, t1, t2

MCStones == {s1, s2}
MCCategories == {c1, c2}

Price(c) == IF c = c1 THEN 1 ELSE 0
MCCharge == [l \in Lines |-> MapThenSumSet(LAMBDA s : Price(l[s]), Stones)]

Worth(t) == IF t = t2 THEN 3 ELSE 1
MCPaidAmount == [S \in SUBSET Trx |-> MapThenSumSet(Worth, S)]

Symmetric == Permutations(Stones) \cup Permutations(Requests)
=============================================================================
