---------------------------- MODULE IntakeProofs ----------------------------
(***************************************************************************)
(* Theorems about Intake for any stones, stone counts, statuses set by     *)
(* hand and number of overlapping requests.                                *)
(***************************************************************************)
EXTENDS Intake, FiniteSetTheorems, TLAPS

-----------------------------------------------------------------------------
(* Type correctness.                                                       *)

\* Counting live stones gives a number.
LEMMA CountsAreNatural ==
  ASSUME TypeOK
  PROVE  Cardinality(live) \in Nat /\ stoneCount \in Nat
<1>1. IsFiniteSet(live)
  BY ConstantsAssumption, FS_Subset DEF TypeOK
<1> QED
  BY <1>1, ConstantsAssumption, FS_CardinalityType DEF TypeOK

LEMMA InitTypeOK == Init => TypeOK
BY ConstantsAssumption DEF Init, TypeOK, Idle, NoBill, Submissions

LEMMA ReceptionStep ==
  ASSUME TypeOK, Reception
  PROVE  TypeOK'
BY DEF Reception, BeginPatch, EndPatch, HoldOrder, ReleaseOrder, TypeOK

\* Submitting a bill keeps the types.
LEMMA GeneratedType ==
  ASSUME TypeOK, NEW stones \in SUBSET Stones, Generated(stones)
  PROVE  /\ bill' \in Bill
         /\ status' \in [Stones -> StoneStatus \cup {"unregistered"}]
         /\ \A s \in Stones : status'[s] = "unregistered" => status[s] = "unregistered"
         /\ \A s \in stones : status'[s] # "unregistered"
<1>1. \A s \in Stones : status'[s] = IF s \in stones THEN "billed" ELSE status[s]
  BY DEF Generated
<1> QED
  BY <1>1 DEF Generated, TypeOK, StoneStatus, Bill

LEMMA InsertStep ==
  ASSUME TypeOK, NEW r \in Requests, NEW s \in Stones, AddInsert(r, s)
  PROVE  TypeOK'
<1>1. /\ live' = live \cup {s}
      /\ label' = [label EXCEPT ![s] = adds[r].label]
      /\ adds' = [adds EXCEPT ![r] = Idle]
      /\ UNCHANGED <<auto, stoneCount, hold, patching>>
  BY DEF AddInsert
<1>2. label' \in [Stones -> Nat] /\ live' \subseteq Stones
  BY <1>1 DEF TypeOK
<1>3. adds' \in [Requests -> [pc : {"idle", "checked", "labelled"}, count : Nat,
                             held : BOOLEAN, label : Nat]]
  BY <1>1 DEF TypeOK, Idle
<1>4. CASE status' = [status EXCEPT ![s] = "received"] /\ UNCHANGED bill
  BY <1>1, <1>2, <1>3, <1>4 DEF TypeOK, StoneStatus
<1>5. CASE Generated(live \cup {s})
  <2>1. live \cup {s} \in SUBSET Stones
    BY DEF TypeOK
  <2> QED
    BY <1>1, <1>2, <1>3, <1>5, <2>1, GeneratedType DEF TypeOK
<1> QED
  BY <1>4, <1>5 DEF AddInsert

LEMMA BenchStep ==
  ASSUME TypeOK, Bench
  PROVE  TypeOK'
<1>1. ASSUME NEW r \in Requests, AddCheck(r) PROVE TypeOK'
  BY <1>1, CountsAreNatural DEF AddCheck, TypeOK
<1>2. ASSUME NEW r \in Requests, AddLabel(r) PROVE TypeOK'
  BY <1>2, CountsAreNatural DEF AddLabel, TypeOK
<1>3. ASSUME NEW s \in Stones, DeleteStone(s) PROVE TypeOK'
  BY <1>3 DEF DeleteStone, TypeOK
<1>4. ASSUME NEW s \in Stones, RestoreStone(s) PROVE TypeOK'
  BY <1>4 DEF RestoreStone, TypeOK, Trashed, Rows
<1>5. ASSUME NEW s \in Stones, NEW to \in Manual, Transition(s, to) PROVE TypeOK'
  BY <1>5, ConstantsAssumption DEF Transition, TypeOK, Rows, StoneStatus
<1> QED
  BY <1>1, <1>2, <1>3, <1>4, <1>5, InsertStep DEF Bench

LEMMA BillingStep ==
  ASSUME TypeOK, Billing
  PROVE  TypeOK'
<1>1. CASE GenerateBill
  <2>1. live \in SUBSET Stones
    BY DEF TypeOK
  <2> QED
    BY <1>1, <2>1, GeneratedType DEF GenerateBill, TypeOK
<1>2. CASE RetryBill
  <2>1. live \in SUBSET Stones
    BY DEF TypeOK
  <2>2. CASE ~ Resubmittable
    BY <1>2, <2>1, <2>2, GeneratedType DEF RetryBill, TypeOK
  <2>3. CASE Resubmittable
    BY <1>2, <2>3 DEF RetryBill, Resubmittable, Recorded, TypeOK, Bill, NoBill
  <2> QED
    BY <2>2, <2>3
<1>3. CASE BillAnswered
  BY <1>3 DEF BillAnswered, Recorded, TypeOK, Bill, NoBill
<1>4. ASSUME NEW settles \in BOOLEAN, Pay(settles) PROVE TypeOK'
  <2>1. \A s \in Stones : status'[s] = IF settles /\ s \in live THEN "paid" ELSE status[s]
    BY <1>4 DEF Pay
  <2>2. status' \in [Stones -> StoneStatus \cup {"unregistered"}]
    BY <1>4, <2>1 DEF Pay, TypeOK, StoneStatus
  <2> QED
    BY <1>4, <2>1, <2>2 DEF Pay, TypeOK, Bill, NoBill
<1>5. CASE CancelBill
  BY <1>5 DEF CancelBill, TypeOK, Bill, NoBill
<1> QED
  BY <1>1, <1>2, <1>3, <1>4, <1>5 DEF Billing

\* Every reachable state is well typed; TypeOK is inductive as it stands.
THEOREM IntakeTypeCorrect == Spec => []TypeOK
<1>1. TypeOK /\ [Next]_vars => TypeOK'
  <2> SUFFICES ASSUME TypeOK, [Next]_vars PROVE TypeOK'
    OBVIOUS
  <2>1. CASE UNCHANGED vars
    BY <2>1 DEF vars, TypeOK
  <2> QED
    BY <2>1, ReceptionStep, BenchStep, BillingStep DEF Next
<1> QED
  BY <1>1, InitTypeOK, PTL DEF Spec

-----------------------------------------------------------------------------
(* The two derivations.                                                    *)

\* The SQL filters, read as one derivation: order_stage with every stone row
\* counted in place of the live ones.
FilterStage ==
  IF hold # "active"                  THEN hold
  ELSE IF "cancelled" \in Statuses    THEN "cancelled"
  ELSE IF "on_hold" \in Statuses      THEN "on_hold"
  ELSE IF Identified = 0              THEN "empty"
  ELSE IF Identified < stoneCount     THEN "identifying"
  ELSE BilledStage

\* Counting every row gives a number, too, and no live stone is left out.
LEMMA RowsAreCounted ==
  ASSUME TypeOK
  PROVE  /\ Identified \in Nat /\ stoneCount \in Nat
         /\ Cardinality(live) = 0 <=> live = {}
         /\ Trashed = {} => Identified = Cardinality(live)
<1>1. IsFiniteSet(live) /\ IsFiniteSet(Rows)
  BY ConstantsAssumption, FS_Subset DEF TypeOK, Rows
<1>2. live \subseteq Rows
  BY DEF TypeOK, Rows
<1>3. Trashed = {} => Rows = live
  BY <1>2 DEF Trashed
<1> QED
  BY <1>1, <1>3, ConstantsAssumption, FS_CardinalityType, FS_EmptySet
     DEF TypeOK, Identified

\* The sets of statuses that tell the last stages apart.
LEMMA StonesInSet ==
  ASSUME NEW g
  PROVE  /\ HasStoneAt(g) <=> g \in Statuses
         /\ EveryStoneIn(AtOrBeyond(g)) <=> Statuses \subseteq AtOrBeyond(g)
BY DEF HasStoneAt, EveryStoneIn, Statuses

LEMMA Nested ==
  /\ Statuses \subseteq AtOrBeyond("collected")
       => Statuses \subseteq AtOrBeyond("ready_for_collection")
  /\ Statuses \subseteq AtOrBeyond("ready_for_collection")
       => Statuses \subseteq AtOrBeyond("certified")
BY DEF AtOrBeyond

\* The filters of an order that nobody has stopped.
LEMMA FilterClauses ==
  ASSUME hold = "active", ~ HasStoneAt("cancelled"), ~ HasStoneAt("on_hold")
  PROVE  /\ Running
         /\ ~ AtStage("cancelled")
         /\ ~ AtStage("on_hold")
         /\ AtStage("empty") <=> Identified = 0
         /\ AtStage("identifying") <=> Identified > 0 /\ Identified < stoneCount
         /\ AtStage("ready_to_bill") <=> Full /\ ~ auto /\ bill.status = "none"
         /\ AtStage("billing_attention")
              <=> Full /\ auto /\ (bill.status = "none" \/ NeedsAttention)
         /\ AtStage("part_paid") <=> Billed /\ bill.status = "partially_paid"
         /\ AtStage("awaiting_payment")
              <=> Billed /\ bill.status \notin {"partially_paid", "paid"}
         /\ AtStage("in_findings") <=> Paid /\ ~ EveryStoneIn(AtOrBeyond("certified"))
         /\ AtStage("certified")
              <=> /\ Paid
                  /\ EveryStoneIn(AtOrBeyond("certified"))
                  /\ ~ EveryStoneIn(AtOrBeyond("ready_for_collection"))
         /\ AtStage("ready_for_collection")
              <=> /\ Paid
                  /\ EveryStoneIn(AtOrBeyond("ready_for_collection"))
                  /\ ~ EveryStoneIn(AtOrBeyond("collected"))
         /\ AtStage("collected") <=> Paid /\ EveryStoneIn(AtOrBeyond("collected"))
<1>1. Running
  BY DEF Running
<1> QED
  BY <1>1 DEF AtStage

\* An order somebody stopped, or with a parked stone, is at one of two stages.
LEMMA StoppedClauses ==
  ASSUME TypeOK, ~ Running
  PROVE  /\ AtStage("cancelled") <=> FilterStage = "cancelled"
         /\ AtStage("on_hold") <=> FilterStage = "on_hold"
         /\ \A g \in OrderStages \ {"cancelled", "on_hold"} : ~ AtStage(g)
         /\ FilterStage \in {"cancelled", "on_hold"}
<1>1. HasStoneAt("cancelled") <=> "cancelled" \in Statuses
  BY StonesInSet
<1>2. HasStoneAt("on_hold") <=> "on_hold" \in Statuses
  BY StonesInSet
<1>3. hold \in {"active", "on_hold", "cancelled"}
  BY DEF TypeOK
<1>4. AtStage("cancelled")
        <=> hold = "cancelled" \/ (hold # "on_hold" /\ HasStoneAt("cancelled"))
  BY DEF AtStage
<1>5. AtStage("on_hold")
        <=> \/ hold = "on_hold"
            \/ hold # "cancelled" /\ ~ HasStoneAt("cancelled") /\ HasStoneAt("on_hold")
  BY DEF AtStage
<1>6. ~ Full /\ ~ Billed /\ ~ Paid
  BY DEF Full, Billed, Paid
<1>7. ASSUME NEW g \in OrderStages \ {"cancelled", "on_hold"} PROVE ~ AtStage(g)
  BY <1>6, <1>7 DEF AtStage, OrderStages
<1>8. hold # "active" \/ "cancelled" \in Statuses \/ "on_hold" \in Statuses
  BY <1>1, <1>2 DEF Running
<1> QED
  BY <1>1, <1>2, <1>3, <1>4, <1>5, <1>7, <1>8 DEF FilterStage

\* Once every stone is registered the filters follow the bill.
LEMMA FullClauses ==
  ASSUME TypeOK, Full
  PROVE  \A g \in OrderStages : AtStage(g) <=> BilledStage = g
<1> DEFINE c1 == Statuses \subseteq AtOrBeyond("collected")
           c2 == Statuses \subseteq AtOrBeyond("ready_for_collection")
           c3 == Statuses \subseteq AtOrBeyond("certified")
<1>1. /\ EveryStoneIn(AtOrBeyond("collected")) <=> c1
      /\ EveryStoneIn(AtOrBeyond("ready_for_collection")) <=> c2
      /\ EveryStoneIn(AtOrBeyond("certified")) <=> c3
      /\ c1 => c2
      /\ c2 => c3
  BY StonesInSet, Nested
<1>2. /\ auto \in BOOLEAN
      /\ bill.status \in {"none", "pending", "partially_paid", "paid", "cancelled"}
  BY DEF TypeOK, Bill, NoBill
<1>3. BilledStage =
        IF bill.status = "none"
          THEN IF auto THEN "billing_attention" ELSE "ready_to_bill"
        ELSE IF NeedsAttention                 THEN "billing_attention"
        ELSE IF bill.status = "partially_paid" THEN "part_paid"
        ELSE IF bill.status # "paid"           THEN "awaiting_payment"
        ELSE IF c1 THEN "collected"
        ELSE IF c2 THEN "ready_for_collection"
        ELSE IF c3 THEN "certified" ELSE "in_findings"
  BY DEF BilledStage
<1>4. NeedsAttention => auto /\ bill.status = "pending"
  BY DEF NeedsAttention
<1>5. /\ Billed <=> bill.status # "none" /\ ~ NeedsAttention
      /\ Paid <=> Billed /\ bill.status = "paid"
  BY DEF Billed, Paid
<1>6. hold = "active" /\ ~ HasStoneAt("cancelled") /\ ~ HasStoneAt("on_hold")
  BY DEF Full, Running
<1>7. Identified > 0 /\ Identified >= stoneCount
  BY DEF Full
<1>8. /\ Identified \in Nat /\ stoneCount \in Nat
      /\ Identified # 0 /\ ~ (Identified < stoneCount)
  BY <1>7, RowsAreCounted
<1> HIDE DEF c1, c2, c3
<1>9. \A g \in {"cancelled", "on_hold", "empty", "identifying"} :
        ~ AtStage(g) /\ BilledStage # g
  BY <1>3, <1>6, <1>8, FilterClauses
<1>10. \A g \in {"ready_to_bill", "billing_attention", "part_paid", "awaiting_payment"} :
         AtStage(g) <=> BilledStage = g
  BY <1>2, <1>3, <1>4, <1>5, <1>6, FilterClauses
<1>11. \A g \in {"in_findings", "certified", "ready_for_collection", "collected"} :
         AtStage(g) <=> BilledStage = g
  BY <1>1, <1>2, <1>3, <1>4, <1>5, <1>6, FilterClauses
<1> QED
  BY <1>9, <1>10, <1>11 DEF OrderStages

\* Each filter selects the order exactly at the stage FilterStage gives it.
LEMMA FilterIsFunction ==
  ASSUME TypeOK
  PROVE  /\ FilterStage \in OrderStages
         /\ \A g \in OrderStages : AtStage(g) <=> FilterStage = g
<1>1. FilterStage \in OrderStages
  BY DEF TypeOK, FilterStage, BilledStage, OrderStages
<1>2. CASE ~ Running
  BY <1>1, <1>2, StoppedClauses
<1>3. CASE Running
  <2>1. hold = "active" /\ ~ HasStoneAt("cancelled") /\ ~ HasStoneAt("on_hold")
    BY <1>3 DEF Running
  <2>2. "cancelled" \notin Statuses /\ "on_hold" \notin Statuses
    BY <2>1, StonesInSet
  <2>3. CASE Full
    <3>1. FilterStage = BilledStage
      BY <2>1, <2>2, <2>3, RowsAreCounted DEF FilterStage, Full
    <3> QED
      BY <1>1, <2>3, <3>1, FullClauses
  <2>4. CASE ~ Full
    <3>1. FilterStage = IF Identified = 0 THEN "empty" ELSE "identifying"
      BY <1>3, <2>1, <2>2, <2>4, RowsAreCounted DEF FilterStage, Full
    <3>2. Identified = 0 \/ (Identified > 0 /\ Identified < stoneCount)
      BY <1>3, <2>4, RowsAreCounted DEF Full
    <3>3. ~ Billed /\ ~ Paid
      BY <2>4 DEF Billed, Paid
    <3>4. AtStage("empty") <=> Identified = 0
      BY <2>1, FilterClauses
    <3>5. AtStage("identifying") <=> Identified # 0
      BY <2>1, <3>2, RowsAreCounted, FilterClauses
    <3>6. \A g \in OrderStages \ {"empty", "identifying"} : ~ AtStage(g)
      BY <2>1, <2>4, <3>3, FilterClauses DEF OrderStages
    <3> QED
      BY <3>1, <3>4, <3>5, <3>6, <1>1
  <2> QED
    BY <2>3, <2>4
<1> QED
  BY <1>2, <1>3

\* Deleted or not, at least the live stones are counted.
LEMMA LiveAreCounted ==
  ASSUME TypeOK
  PROVE  /\ Cardinality(live) \in Nat /\ Identified \in Nat /\ stoneCount \in Nat
         /\ Cardinality(live) <= Identified
<1>1. IsFiniteSet(Rows) /\ live \subseteq Rows
  BY ConstantsAssumption, FS_Subset DEF TypeOK, Rows
<1> QED
  BY <1>1, CountsAreNatural, FS_Subset, FS_CardinalityType DEF Identified

\* The stage filters divide the orders among them, and list every order where its
\* own stage says, whatever the counts, the bill and the billing mode; with a
\* deleted row they may be ahead of a stage that still asks for stones.
THEOREM FilterMatchesDerivation == Spec => []StageFilterAgrees
<1>1. TypeOK => OneStagePerOrder
  <2> SUFFICES ASSUME TypeOK PROVE OneStagePerOrder
    OBVIOUS
  <2>1. {g \in OrderStages : AtStage(g)} = {FilterStage}
    BY FilterIsFunction
  <2> QED
    BY <2>1, FS_Singleton DEF OneStagePerOrder
<1>2. ASSUME TypeOK, Trashed = {} \/ OrderStage \notin {"empty", "identifying"},
             NEW g \in OrderStages
      PROVE  AtStage(g) <=> OrderStage = g
  <2>1. live = {} => Statuses = {}
    BY DEF Statuses
  <2>2. OrderStage = FilterStage
    <3>1. CASE Trashed = {}
      BY <1>2, <2>1, <3>1, RowsAreCounted DEF OrderStage, FilterStage
    <3>2. CASE OrderStage \notin {"empty", "identifying"}
      <4>1. /\ Cardinality(live) \in Nat /\ Identified \in Nat /\ stoneCount \in Nat
            /\ Cardinality(live) <= Identified /\ (live # {} => Identified > 0)
        BY <1>2, LiveAreCounted, RowsAreCounted
      <4>2. hold = "active" => live # {}
        BY <3>2 DEF OrderStage
      <4>3. CASE hold # "active"
        BY <4>3 DEF OrderStage, FilterStage
      <4>4. CASE hold = "active" /\ ("cancelled" \in Statuses \/ "on_hold" \in Statuses)
        BY <4>2, <4>4 DEF OrderStage, FilterStage
      <4>5. CASE hold = "active" /\ "cancelled" \notin Statuses /\ "on_hold" \notin Statuses
        <5>1. ~(Cardinality(live) < stoneCount)
          BY <3>2, <4>2, <4>5 DEF OrderStage
        <5>2. ~(Identified < stoneCount) /\ Identified # 0
          BY <4>1, <4>2, <4>5, <5>1
        <5> QED
          BY <4>2, <4>5, <5>1, <5>2 DEF OrderStage, FilterStage
      <4> QED
        BY <4>3, <4>4, <4>5
    <3> QED
      BY <1>2, <3>1, <3>2
  <2> QED
    BY <1>2, <2>2, FilterIsFunction
<1>3. TypeOK => StageFilterAgrees
  BY <1>1, <1>2 DEF StageFilterAgrees
<1> QED
  BY <1>3, IntakeTypeCorrect, PTL

-----------------------------------------------------------------------------
(* The work queues.                                                        *)

\* Where bills are raised automatically no stone row is ever deleted.
NothingTrashed == auto => Trashed = {}

LEMMA TrashStaysEmpty ==
  ASSUME TypeOK, NothingTrashed, [Next]_vars
  PROVE  NothingTrashed'
<1> USE DEF NothingTrashed, Trashed, Rows
<1>1. CASE Reception
  BY <1>1 DEF Reception, BeginPatch, EndPatch, HoldOrder, ReleaseOrder
<1>2. ASSUME NEW r \in Requests, NEW s \in Stones, AddInsert(r, s)
      PROVE  NothingTrashed'
  <2>1. auto' = auto /\ live' = live \cup {s}
    BY <1>2 DEF AddInsert
  <2>2. \A t \in Stones : t # s /\ status'[t] # "unregistered"
                         => status[t] # "unregistered" \/ t \in live
    BY <1>2 DEF AddInsert, Generated, TypeOK
  <2> QED
    BY <2>1, <2>2
<1>3. ASSUME NEW s \in Stones, DeleteStone(s) \/ RestoreStone(s)
      PROVE  NothingTrashed'
  BY <1>3 DEF DeleteStone, RestoreStone
<1>4. ASSUME NEW s \in Stones, NEW to \in Manual, Transition(s, to)
      PROVE  NothingTrashed'
  BY <1>4 DEF Transition, TypeOK
<1>5. ASSUME NEW r \in Requests, AddCheck(r) \/ AddLabel(r)
      PROVE  NothingTrashed'
  BY <1>5 DEF AddCheck, AddLabel
<1>6. CASE Billing
  <2>1. auto' = auto /\ live' = live
    BY <1>6 DEF Billing, GenerateBill, RetryBill, BillAnswered, Pay, CancelBill
  <2>2. \A t \in Stones : status'[t] # "unregistered"
                         => status[t] # "unregistered" \/ t \in live
    BY <1>6 DEF Billing, GenerateBill, RetryBill, BillAnswered, Pay, CancelBill,
                Generated, Recorded, TypeOK
  <2> QED
    BY <2>1, <2>2
<1>7. CASE UNCHANGED vars
  BY <1>7 DEF vars
<1> QED
  BY <1>1, <1>2, <1>3, <1>4, <1>5, <1>6, <1>7 DEF Next, Bench

\* Every list shows the orders its people can and should work on
\* (identification_worklist, billing_worklist, billing_attention_worklist and
\* the workflow feeds, against order_stage and retry_bill_for_order).
THEOREM QueuesAreRight == Spec => []QueuesMatchStages
<1>1. TypeOK /\ NothingTrashed => QueuesMatchStages
  <2> SUFFICES ASSUME TypeOK, NothingTrashed PROVE QueuesMatchStages
    OBVIOUS
  <2>1. IdentificationWaiting => Cardinality(live) < stoneCount
    BY LiveAreCounted DEF IdentificationWaiting
  <2>2. ASSUME Trashed = {}, AllIdentified
        PROVE  live # {} /\ Cardinality(live) = stoneCount
    BY <2>2, RowsAreCounted DEF AllIdentified
  <2>3. ASSUME BillingAttentionWorklist
        PROVE  MayRetry \/ bill.submission = "queued"
    <3>1. auto /\ hold = "active" /\ live # {} /\ Cardinality(live) = stoneCount
      BY <2>2, <2>3 DEF BillingAttentionWorklist, NothingTrashed
    <3>2. CASE bill.status = "none"
      BY <3>1, <3>2 DEF MayRetry, Completable
    <3>3. CASE NeedsAttention
      <4>1. bill.submission \in {"failed", "queued"} /\ bill.status = "pending"
        BY <3>3 DEF NeedsAttention, TypeOK, Bill, NoBill, Submissions
      <4> QED
        BY <3>1, <4>1 DEF MayRetry, Resubmittable
    <3> QED
      BY <2>3, <3>2, <3>3 DEF BillingAttentionWorklist
  <2>4. ASSUME Trashed = {}, BillingWorklist PROVE MayBill
    BY <2>2, <2>4 DEF BillingWorklist, MayBill
  <2>5. ASSUME Trashed = {}, OrderStage = "identifying" PROVE IdentificationWorklist
    BY <2>5, RowsAreCounted
       DEF OrderStage, BilledStage, IdentificationWorklist, TypeOK
  <2>6. ASSUME Trashed = {}, Identified <= stoneCount,
               OrderStage \in {"ready_to_bill", "billing_attention",
                              "awaiting_payment", "part_paid"}
        PROVE  /\ OrderStage = "ready_to_bill" => BillingWorklist
               /\ OrderStage = "billing_attention" => BillingAttentionWorklist
               /\ BillingFeed
    <3>1. hold = "active" /\ live # {} /\ ~ (Cardinality(live) < stoneCount)
          /\ OrderStage = BilledStage
      BY <2>6 DEF OrderStage, TypeOK
    <3>2. AllIdentified
      BY <2>6, <3>1, RowsAreCounted DEF AllIdentified
    <3>3. OrderStage = "ready_to_bill" => ~ auto /\ bill.status = "none"
      BY <3>1 DEF BilledStage
    <3>4. OrderStage = "billing_attention"
            => auto /\ (bill.status = "none" \/ NeedsAttention)
      BY <3>1 DEF BilledStage, NeedsAttention
    <3>5. OrderStage \in {"awaiting_payment", "part_paid"}
            => bill.status \notin {"none", "paid"}
      BY <3>1 DEF BilledStage
    <3> QED
      BY <2>6, <3>1, <3>2, <3>3, <3>4, <3>5
         DEF BillingWorklist, BillingAttentionWorklist, BillingFeed
  <2> QED
    BY <2>1, <2>3, <2>4, <2>5, <2>6 DEF QueuesMatchStages
<1>2. Init => NothingTrashed
  BY DEF Init, NothingTrashed, Trashed, Rows
<1>3. TypeOK /\ NothingTrashed /\ [Next]_vars => NothingTrashed'
  BY TrashStaysEmpty
<1> QED
  BY <1>1, <1>2, <1>3, IntakeTypeCorrect, PTL DEF Spec
=============================================================================
