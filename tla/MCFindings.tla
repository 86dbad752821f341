----------------------------- MODULE MCFindings -----------------------------
(* Findings with two report rows, one to discard and one to report again,  *)
(* and one or two certificate rows.                                        *)
EXTENDS Findings, TLC

Symmetric == Permutations(Reports) \cup Permutations(Certs) \cup Permutations(Requests)

\* Where Blank is not one of the texts, they are alike, too.
AlikeTexts == Symmetric \cup Permutations(Texts)
=============================================================================
