---------------------------- MODULE MCGepgInbox -----------------------------
(* A notification of two transactions of two bills, and a reconciliation   *)
(* that brings one of them again together with a third.                    *)
EXTENDS GepgInbox

CONSTANTS payment, reconciliation, t1, t2, t3, b1, b2

MCKind == [e \in Events |-> IF e = payment THEN "payment" ELSE "reconciliation"]
MCCarries == [e \in Events |-> IF e = payment THEN {t1, t2} ELSE {t2, t3}]
MCBillOf == [i \in Items |-> IF i = t2 THEN b2 ELSE b1]
=============================================================================
