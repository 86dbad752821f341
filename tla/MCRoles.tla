------------------------------- MODULE MCRoles -------------------------------
(* Roles with a superuser, who holds no role, and an account with up to two, *)
(* three roles of three ranks and one permission, which the screens do not   *)
(* ask for: everyone is let through to them.  Two requests overlap.          *)
EXTENDS Roles, TLC

CONSTANTS root, alice, sell

Accounts == {root, alice}
Rank == [superadmin |-> 3, manager |-> 2, clerk |-> 1]
Declares == [superadmin |-> {sell}, manager |-> {}]

Symmetric == Permutations(Groups) \cup Permutations(Requests)
=============================================================================
