----------------------------- MODULE MCSessions -----------------------------
(* Sessions with one account signed in twice and two requests at once.     *)
EXTENDS Sessions, TLC

Symmetric ==
  Permutations(SessionIds) \cup Permutations(Tokens) \cup Permutations(Requests)
=============================================================================
