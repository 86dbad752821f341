------------------------------- MODULE Ledger -------------------------------
(***************************************************************************)
(* What billing promises about money, with no requests, races or gateway:  *)
(* an order is unbilled, then owing a fixed amount, then settled.  Each    *)
(* transaction is received once; the account is settled by the receipt     *)
(* that makes the sum reach the amount due, by nothing else, and for good. *)
(***************************************************************************)
EXTENDS Naturals

CONSTANTS
  Trx,        \* transaction ids
  PaidAmount  \* the sum a set of transactions comes to

VARIABLES
  account,    \* "unbilled", "owing" or "settled"
  due,        \* the amount of the bill, 0 while there is none
  received    \* transactions received for the bill

ledgerVars == <<account, due, received>>

Init ==
  /\ account = "unbilled"
  /\ due = 0
  /\ received = {}

Raise ==
  /\ account = "unbilled"
  /\ account' = "owing"
  /\ due' \in Nat
  /\ UNCHANGED received

Receive(t) ==
  /\ account # "unbilled"
  /\ t \notin received
  /\ received' = received \cup {t}
  /\ account' = IF account = "settled" \/ PaidAmount[received'] >= due
                  THEN "settled" ELSE "owing"
  /\ UNCHANGED due

Next == Raise \/ \E t \in Trx : Receive(t)

Spec == Init /\ [][Next]_ledgerVars
=============================================================================
