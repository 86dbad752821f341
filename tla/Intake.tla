------------------------------- MODULE Intake --------------------------------
(***************************************************************************)
(* One order from reception to collection as the work queues see it: the   *)
(* stones registered against it, their labels, and the two derivations of  *)
(* where the order stands.  order_stage computes the stage from the live   *)
(* stones; orders_at_stage selects orders in SQL and counts every stone    *)
(* row, deleted or not (Count("stones")).                                  *)
(*                                                                         *)
(* The bill is reduced to what a stage depends on; Settlement has the rest.*)
(***************************************************************************)
EXTENDS Naturals, FiniteSets

CONSTANTS
  Stones,    \* the rows that may ever be registered for the order
  Counts,    \* the stone counts reception may record
  Manual,    \* statuses staff reach by POST /stones/{id}/transition/
  Requests   \* overlapping POST /orders/{id}/stones/ requests

StoneStatus == {"received", "under_identification", "billed", "paid",
                "certified", "ready_for_collection", "collected",
                "on_hold", "cancelled"}
Retypeable  == {"received", "on_hold", "cancelled"}
OrderStages == {"empty", "identifying", "ready_to_bill", "billing_attention",
                "awaiting_payment", "part_paid", "in_findings", "certified",
                "ready_for_collection", "collected", "on_hold", "cancelled"}

ASSUME ConstantsAssumption ==
  /\ IsFiniteSet(Stones)
  /\ Counts \subseteq Nat
  /\ Manual \subseteq StoneStatus

VARIABLES
  auto,        \* AUTO_BILL_AFTER_IDENTIFICATION, fixed by the deployment
  stoneCount,  \* Order.stone_count
  hold,        \* Order.hold_status
  live,        \* registered stones that are not soft-deleted
  status,      \* Stone.status, "unregistered" before add_stone
  label,       \* Stone.label: 0 is A, 1 is B, ...
  bill,        \* Bill.status, and how its submission to GePG stands
  adds,        \* add_stone requests in progress
  patching     \* the hold a PATCH of the order has read, "no" if there is none

vars == <<auto, stoneCount, hold, live, status, label, bill, adds, patching>>

\* A submission is accepted once there is a control number or a success code;
\* before that it is queued while a request of its outbox may still be sent.
Submissions == {"failed", "queued", "accepted"}
Bill        == [status : {"pending", "partially_paid", "paid", "cancelled"},
                submission : Submissions]
NoBill      == [status |-> "none", submission |-> "none"]

\* An add request holds the order as it read it; label is what it will write.
Idle == [pc |-> "idle", count |-> 0, held |-> FALSE, label |-> 0]

TypeOK ==
  /\ auto \in BOOLEAN
  /\ stoneCount \in Counts
  /\ hold \in {"active", "on_hold", "cancelled"}
  /\ live \subseteq Stones
  /\ status \in [Stones -> StoneStatus \cup {"unregistered"}]
  /\ \A s \in live : status[s] # "unregistered"
  /\ label \in [Stones -> Nat]
  /\ bill \in Bill \cup {NoBill}
  /\ adds \in [Requests -> [pc : {"idle", "checked", "labelled"}, count : Nat,
                            held : BOOLEAN, label : Nat]]
  /\ patching \in {"no", "active", "on_hold", "cancelled"}

Init ==
  /\ auto \in BOOLEAN
  /\ stoneCount \in Counts
  /\ hold = "active"
  /\ live = {}
  /\ status = [s \in Stones |-> "unregistered"]
  /\ label = [s \in Stones |-> 0]
  /\ bill = NoBill
  /\ adds = [r \in Requests |-> Idle]
  /\ patching = "no"

Rows       == {s \in Stones : status[s] # "unregistered"}
Trashed    == Rows \ live
Identified == Cardinality(Rows)

-----------------------------------------------------------------------------
(* Where the order stands: the Python derivation over live stones.         *)

Statuses == {status[s] : s \in live}

AtOrBeyond(g) ==
  CASE g = "collected"            -> {"collected"}
    [] g = "ready_for_collection" -> {"collected", "ready_for_collection"}
    [] g = "certified"            -> {"collected", "ready_for_collection", "certified"}

NeedsAttention == auto /\ bill.status = "pending" /\ bill.submission # "accepted"

\* Once every stone is registered, the bill decides; once it is paid, the
\* stone that is furthest behind.
BilledStage ==
  IF bill.status = "none"
    THEN IF auto THEN "billing_attention" ELSE "ready_to_bill"
  ELSE IF NeedsAttention                        THEN "billing_attention"
  ELSE IF bill.status = "partially_paid"        THEN "part_paid"
  ELSE IF bill.status # "paid"                  THEN "awaiting_payment"
  ELSE IF Statuses \subseteq AtOrBeyond("collected") THEN "collected"
  ELSE IF Statuses \subseteq AtOrBeyond("ready_for_collection")
    THEN "ready_for_collection"
  ELSE IF Statuses \subseteq AtOrBeyond("certified") THEN "certified"
  ELSE "in_findings"

\* Defect: the count is looked at before the stones somebody parked.
OrderStageCountsFirst ==
  IF hold # "active"                            THEN hold
  ELSE IF live = {}                             THEN "empty"
  ELSE IF Cardinality(live) < stoneCount        THEN "identifying"
  ELSE IF "cancelled" \in Statuses              THEN "cancelled"
  ELSE IF "on_hold" \in Statuses                THEN "on_hold"
  ELSE BilledStage

OrderStage ==
  IF hold # "active"                            THEN hold
  ELSE IF live = {}                             THEN "empty"
  ELSE IF "cancelled" \in Statuses              THEN "cancelled"
  ELSE IF "on_hold" \in Statuses                THEN "on_hold"
  ELSE IF Cardinality(live) < stoneCount        THEN "identifying"
  ELSE BilledStage

-----------------------------------------------------------------------------
(* The same question in SQL.                                               *)

HasStoneAt(st)     == \E s \in live : status[s] = st
EveryStoneIn(some) == \A s \in live : status[s] \in some

Running == hold = "active" /\ ~ HasStoneAt("cancelled") /\ ~ HasStoneAt("on_hold")
Full    == Running /\ Identified > 0 /\ Identified >= stoneCount
Billed  == Full /\ bill.status # "none" /\ ~ NeedsAttention
Paid    == Billed /\ bill.status = "paid"

\* orders_at_stage: whether the filter for stage g selects the order.
AtStage(g) ==
  CASE g = "cancelled" -> hold = "cancelled" \/ (hold # "on_hold" /\ HasStoneAt("cancelled"))
    [] g = "on_hold" -> \/ hold = "on_hold"
                        \/ /\ hold # "cancelled"
                           /\ ~ HasStoneAt("cancelled")
                           /\ HasStoneAt("on_hold")
    [] g = "empty"             -> Running /\ Identified = 0
    [] g = "identifying"       -> Running /\ Identified > 0 /\ Identified < stoneCount
    [] g = "ready_to_bill"     -> Full /\ ~ auto /\ bill.status = "none"
    [] g = "billing_attention" -> Full /\ auto /\ (bill.status = "none" \/ NeedsAttention)
    [] g = "part_paid"         -> Billed /\ bill.status = "partially_paid"
    [] g = "awaiting_payment"  -> Billed /\ bill.status \notin {"partially_paid", "paid"}
    [] g = "in_findings"       -> Paid /\ ~ EveryStoneIn(AtOrBeyond("certified"))
    [] g = "certified"         -> /\ Paid
                                  /\ EveryStoneIn(AtOrBeyond("certified"))
                                  /\ ~ EveryStoneIn(AtOrBeyond("ready_for_collection"))
    [] g = "ready_for_collection" -> /\ Paid
                                     /\ EveryStoneIn(AtOrBeyond("ready_for_collection"))
                                     /\ ~ EveryStoneIn(AtOrBeyond("collected"))
    [] g = "collected"         -> Paid /\ EveryStoneIn(AtOrBeyond("collected"))

-----------------------------------------------------------------------------
(* Reception: correcting the order, holding it.  PATCH /orders/{id}/ saves *)
(* every column of the row it read, the hold among them.                   *)

BeginPatch ==
  /\ patching = "no"
  /\ patching' = hold
  /\ UNCHANGED <<auto, stoneCount, hold, live, status, label, bill, adds>>

EndPatch(n) ==
  /\ patching # "no"
  /\ stoneCount' = n
  /\ hold' = patching
  /\ patching' = "no"
  /\ UNCHANGED <<auto, live, status, label, bill, adds>>

HoldOrder(h) ==
  /\ h = "cancelled" => bill.status # "paid"
  /\ hold' = h
  /\ UNCHANGED <<auto, stoneCount, live, status, label, bill, adds, patching>>

\* Defect: a release blanks the column, as it blanks the reason.
ReleaseOrderBlanks ==
  /\ hold # "active"
  /\ hold' = ""
  /\ UNCHANGED <<auto, stoneCount, live, status, label, bill, adds, patching>>

ReleaseOrder ==
  /\ hold # "active"
  /\ hold' = "active"
  /\ UNCHANGED <<auto, stoneCount, live, status, label, bill, adds, patching>>

-----------------------------------------------------------------------------
(* The bench: registering stones.                                          *)

\* add_stone counts the live stones against the order it was given.
AddCheck(r) ==
  /\ adds[r].pc = "idle"
  /\ Cardinality(live) < stoneCount
  /\ adds' = [adds EXCEPT ![r] = [pc |-> "checked", count |-> stoneCount,
                                  held |-> hold # "active", label |-> 0]]
  /\ UNCHANGED <<auto, stoneCount, hold, live, status, label, bill, patching>>

\* next_stone_label counts them again.
AddLabel(r) ==
  /\ adds[r].pc = "checked"
  /\ adds' = [adds EXCEPT ![r].pc = "labelled", ![r].label = Cardinality(live)]
  /\ UNCHANGED <<auto, stoneCount, hold, live, status, label, bill, patching>>

\* GePG answers a submission, or it fails: the bill stands either way.
Generated(stones) ==
  /\ \E result \in Submissions : bill' = [status |-> "pending", submission |-> result]
  /\ status' = [s \in Stones |-> IF s \in stones THEN "billed" ELSE status[s]]

\* identify_stone: with this stone the order is complete, and may be billed.
Completes(r, stones) ==
  /\ auto
  /\ Cardinality(stones) = adds[r].count
  /\ ~ adds[r].held
  /\ bill.status = "none"

\* The insert, and in automatic mode the bill of the order it completes;
\* without a price for some stone the stone stays and no bill is made.
AddInsert(r, s) ==
  LET stones == live \cup {s} IN
  /\ adds[r].pc = "labelled"
  /\ status[s] = "unregistered"
  /\ live' = stones
  /\ label' = [label EXCEPT ![s] = adds[r].label]
  /\ adds' = [adds EXCEPT ![r] = Idle]
  /\ \/ status' = [status EXCEPT ![s] = "received"] /\ UNCHANGED bill
     \/ Completes(r, stones) /\ Generated(stones)
  /\ UNCHANGED <<auto, stoneCount, hold, patching>>

\* Where bills are raised automatically nobody deletes a stone.
DeleteStone(s) ==
  /\ ~ auto
  /\ s \in live
  /\ status[s] \in Retypeable
  /\ live' = live \ {s}
  /\ UNCHANGED <<auto, stoneCount, hold, status, label, bill, adds, patching>>

RestoreStone(s) ==
  /\ s \in Trashed
  /\ live' = live \cup {s}
  /\ UNCHANGED <<auto, stoneCount, hold, status, label, bill, adds, patching>>

Transition(s, to) ==
  /\ s \in Rows
  /\ status' = [status EXCEPT ![s] = to]
  /\ UNCHANGED <<auto, stoneCount, hold, live, label, bill, adds, patching>>

-----------------------------------------------------------------------------
(* Billing, as far as the stage is concerned.                              *)

MayBill == ~ auto /\ bill.status = "none" /\ live # {}

GenerateBill ==
  /\ MayBill
  /\ Generated(live)
  /\ UNCHANGED <<auto, stoneCount, hold, live, label, adds, patching>>

\* The outcome of a submission, or a control number, is recorded: GepgOutbox
\* says which may follow which.
Recorded ==
  /\ \E result \in Submissions : bill' = [bill EXCEPT !.submission = result]
  /\ UNCHANGED status

\* bill_needs_attention: not while the outbox is still trying.
Resubmittable == bill.status = "pending" /\ bill.submission = "failed"

\* retry_bill_for_order: the missing bill of a complete order, or another
\* submission of the one that failed.
Completable == bill.status = "none" /\ live # {} /\ Cardinality(live) = stoneCount
MayRetry    == auto /\ hold = "active" /\ (Completable \/ Resubmittable)

RetryBill ==
  /\ MayRetry
  /\ IF Resubmittable THEN Recorded ELSE Generated(live)
  /\ UNCHANGED <<auto, stoneCount, hold, live, label, adds, patching>>

BillAnswered ==
  /\ bill.status # "none"
  /\ Recorded
  /\ UNCHANGED <<auto, stoneCount, hold, live, label, adds, patching>>

\* _apply_payment, for a new transaction.
Pay(settles) ==
  /\ bill.status # "none"
  /\ bill.status = "paid" => settles
  /\ bill' = [bill EXCEPT !.status = IF settles THEN "paid" ELSE "partially_paid"]
  /\ status' = [s \in Stones |-> IF settles /\ s \in live THEN "paid" ELSE status[s]]
  /\ UNCHANGED <<auto, stoneCount, hold, live, label, adds, patching>>

CancelBill ==
  /\ bill.status \in {"pending", "partially_paid"}
  /\ bill' = [bill EXCEPT !.status = "cancelled"]
  /\ UNCHANGED <<auto, stoneCount, hold, live, status, label, adds, patching>>

-----------------------------------------------------------------------------
Reception ==
  \/ BeginPatch
  \/ \E n \in Counts : EndPatch(n)
  \/ \E h \in {"on_hold", "cancelled"} : HoldOrder(h)
  \/ ReleaseOrder

Bench ==
  \/ \E r \in Requests : AddCheck(r)
  \/ \E r \in Requests : AddLabel(r)
  \/ \E r \in Requests, s \in Stones : AddInsert(r, s)
  \/ \E s \in Stones : DeleteStone(s)
  \/ \E s \in Stones : RestoreStone(s)
  \/ \E s \in Stones, to \in Manual : Transition(s, to)

Billing ==
  \/ GenerateBill
  \/ RetryBill
  \/ BillAnswered
  \/ \E settles \in BOOLEAN : Pay(settles)
  \/ CancelBill

Next == Reception \/ Bench \/ Billing

Spec == Init /\ [][Next]_vars

-----------------------------------------------------------------------------
(* The work queues: whether the order is on each of them.                  *)

IdentificationWorklist == Identified < stoneCount
IdentificationFeed     == bill.status = "none" /\ stoneCount > 0
IdentificationWaiting  == IdentificationFeed /\ Identified < stoneCount

AllIdentified == stoneCount > 0 /\ Identified = stoneCount

\* The screens and the actions of the other mode answer 404.
BillingWorklist == ~ auto /\ bill.status = "none" /\ AllIdentified

\* Defect: the queue does not leave out the orders that are held.
AttentionWorklistUnheld ==
  auto /\ AllIdentified /\ (bill.status = "none" \/ NeedsAttention)

BillingAttentionWorklist ==
  auto /\ hold = "active" /\ AllIdentified /\ (bill.status = "none" \/ NeedsAttention)

BillingFeed ==
  bill.status \notin {"none", "paid"} \/ BillingWorklist \/ BillingAttentionWorklist

-----------------------------------------------------------------------------
(* Properties.                                                             *)

\* The stage filters divide the orders among them, deleted stones or not.
OneStagePerOrder == Cardinality({g \in OrderStages : AtStage(g)}) = 1

\* orders_at_stage and order_stage are two expressions of one rule: no order
\* drops out of every list or appears in two, and it is listed where its own
\* stage says, except that one with deleted rows may be listed further on while
\* its own stage still asks for stones.
StageFilterAgrees ==
  /\ OneStagePerOrder
  /\ \/ \A g \in OrderStages : AtStage(g) <=> OrderStage = g
     \/ Trashed # {} /\ OrderStage \in {"empty", "identifying"}

\* What a queue offers can be done: there is room for a stone in an order that
\* waits for one, and a bill that needs attention may be retried unless the
\* outbox is at it.  As long as no stone row is deleted, and reception does not
\* set the count below the stones registered, every order whose stage asks for
\* work is on the list of those who do it.
QueuesMatchStages ==
  /\ IdentificationWaiting => Cardinality(live) < stoneCount
  /\ BillingAttentionWorklist => MayRetry \/ bill.submission = "queued"
  /\ Trashed = {} =>
       /\ BillingWorklist => MayBill
       /\ OrderStage = "identifying" => IdentificationWorklist
       /\ Identified <= stoneCount =>
            /\ OrderStage = "ready_to_bill" => BillingWorklist
            /\ OrderStage = "billing_attention" => BillingAttentionWorklist
            /\ OrderStage \in {"ready_to_bill", "billing_attention",
                               "awaiting_payment", "part_paid"} => BillingFeed

\* reference_number_for_order: "findings and certificates add the stone label
\* so each per-stone record remains distinguishable."
LabelsDistinct == \A s, t \in live : s # t => label[s] # label[t]
=============================================================================
