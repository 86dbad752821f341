--------------------------- MODULE SettlementProofs -------------------------
(***************************************************************************)
(* Theorems about Settlement, for every order size, set of transactions,   *)
(* prices, number of overlapping requests and choice of hand-set statuses. *)
(***************************************************************************)
EXTENDS Settlement, TLAPS

\* At most one generation holds the order's bill slot, and only while no bill
\* is committed.
OneInsert ==
  \A r \in Requests : gen[r].pc = "sent" =>
     /\ ~ BillExists
     /\ \A q \in Requests : gen[q].pc = "sent" => q = r

\* Nothing is recorded against, or cancelled for, a bill that does not exist.
NothingBeforeBill == ~ BillExists => recorded = {} /\ gw # "closed" /\ ~ cancelling

\* Only money the gateway took is recorded.
RecordedWasMade == recorded \subseteq made

\* The gateway never closes a bill it has been paid for, and only its answer
\* makes the bill cancelled here.
ClosedIsUncovered == gw = "closed" => ~ Covers(made)
CancelledIsClosed == billStatus = "cancelled" => gw = "closed"

\* The inductive invariant.
IInv ==
  /\ TypeOK
  /\ OneInsert
  /\ NothingBeforeBill
  /\ RecordedWasMade
  /\ ClosedIsUncovered
  /\ CancelledIsClosed
  /\ PaidExactlyWhenCovered
  /\ PaidStonesAreSettled

-----------------------------------------------------------------------------
\* What has been paid never stops covering the bill as payments are added.
LEMMA CoversGrows ==
  ASSUME line \in Lines, NEW S \in SUBSET Trx, NEW T \in SUBSET Trx, S \subseteq T,
         Covers(S)
  PROVE  Covers(T)
<1>1. Charge[line] \in Nat /\ PaidAmount[S] \in Nat /\ PaidAmount[T] \in Nat
  BY AmountsAssumption
<1>2. PaidAmount[S] <= PaidAmount[T]
  BY AmountsAssumption
<1> QED
  BY <1>1, <1>2 DEF Covers

LEMMA InitIInv == Init => IInv
<1> SUFFICES ASSUME Init PROVE IInv
  OBVIOUS
<1>1. TypeOK
  <2>1. Idle \in [pc : {"idle", "read", "sent"}, lines : Lines]
    BY DEF Idle, Lines
  <2> QED
    BY <2>1 DEF Init, TypeOK, OrderHold, Lines
<1>2. OneInsert
  BY DEF Init, OneInsert, Idle
<1>3. /\ NothingBeforeBill /\ RecordedWasMade /\ ClosedIsUncovered
      /\ CancelledIsClosed /\ PaidExactlyWhenCovered /\ PaidStonesAreSettled
  BY DEF Init, NothingBeforeBill, RecordedWasMade, ClosedIsUncovered,
         CancelledIsClosed, PaidExactlyWhenCovered, PaidStonesAreSettled, BillExists
<1> QED
  BY <1>1, <1>2, <1>3 DEF IInv

-----------------------------------------------------------------------------
(* Type correctness, one lemma per group of actions.                       *)

LEMMA StoneTypes == TypeOK /\ StoneRequest => TypeOK'
<1> SUFFICES ASSUME TypeOK, StoneRequest PROVE TypeOK'
  OBVIOUS
<1> USE ConstantsAssumption DEF TypeOK, stoneVars, billVars, gwVars
<1>1. ASSUME NEW s \in Stones, NEW c \in Categories, AddStone(s, c) PROVE TypeOK'
  BY <1>1 DEF AddStone, StoneStatus
<1>2. ASSUME NEW e \in Edits, BeginEdit(e) PROVE TypeOK'
  BY <1>2 DEF BeginEdit
<1>3. ASSUME NEW e \in edits, CommitEdit(e) PROVE TypeOK'
  <2>1. e \in Edits
    OBVIOUS
  <2>2. e.stone \in Stones /\ e.category \in Categories \cup {NoCategory}
    BY <2>1 DEF Edits
  <2>3. CASE e.kind = "update"
    BY <1>3, <2>2, <2>3 DEF CommitEdit
  <2>4. CASE e.kind # "update"
    BY <1>3, <2>2, <2>4 DEF CommitEdit
  <2> QED
    BY <2>3, <2>4
<1>4. ASSUME NEW s \in Stones, RestoreStone(s) PROVE TypeOK'
  BY <1>4 DEF RestoreStone
<1>5. ASSUME NEW s \in Stones, NEW to \in Manual, Transition(s, to) PROVE TypeOK'
  BY <1>5 DEF Transition
<1> QED
  BY <1>1, <1>2, <1>3, <1>4, <1>5 DEF StoneRequest

LEMMA HoldTypes == TypeOK /\ HoldRequest => TypeOK'
  BY DEF HoldRequest, HoldOrder, ReleaseOrder, TypeOK, OrderHold, stoneVars,
         billVars, gwVars

LEMMA BillTypes == TypeOK /\ BillRequest => TypeOK'
<1> SUFFICES ASSUME TypeOK, BillRequest PROVE TypeOK'
  OBVIOUS
<1> USE DEF TypeOK, stoneVars, billVars, gwVars
<1>1. Idle \in [pc : {"idle", "read", "sent"}, lines : Lines]
  BY DEF Idle, Lines
<1>2. ASSUME NEW r \in Requests, GenerateRead(r) PROVE TypeOK'
  <2>1. [s \in Stones |-> IF s \in live THEN category[s] ELSE NoCategory] \in Lines
    BY DEF Lines
  <2> QED
    BY <1>2, <2>1 DEF GenerateRead
<1>3. ASSUME NEW r \in Requests, GenerateInsert(r) PROVE TypeOK'
  BY <1>3 DEF GenerateInsert
<1>4. ASSUME NEW r \in Requests, GenerateRefused(r) PROVE TypeOK'
  BY <1>1, <1>4 DEF GenerateRefused
<1>5. ASSUME NEW r \in Requests, GenerateCommit(r) PROVE TypeOK'
  <2>1. gen[r].lines \in Lines
    OBVIOUS
  <2> QED
    BY <1>1, <1>5, <2>1 DEF GenerateCommit, StoneStatus, BillStatus
<1>6. ASSUME NEW r \in Requests, GenerateLost(r) PROVE TypeOK'
  BY <1>1, <1>6 DEF GenerateLost
<1>7. CASE CancelRequest
  BY <1>7 DEF CancelRequest
<1>8. CASE CancelReply
  BY <1>8 DEF CancelReply, BillStatus
<1>9. CASE CancelFailed
  BY <1>9 DEF CancelFailed
<1> QED
  BY <1>2, <1>3, <1>4, <1>5, <1>6, <1>7, <1>8, <1>9 DEF BillRequest

LEMMA GatewayTypes == TypeOK /\ Gateway => TypeOK'
<1> SUFFICES ASSUME TypeOK, Gateway PROVE TypeOK'
  OBVIOUS
<1> USE DEF TypeOK, stoneVars, billVars, gwVars
<1>1. CASE GatewayAccepts
  BY <1>1 DEF GatewayAccepts
<1>2. ASSUME NEW t \in Trx, GatewayTakesPayment(t) PROVE TypeOK'
  BY <1>2 DEF GatewayTakesPayment
<1>3. CASE GatewayCancels
  BY <1>3 DEF GatewayCancels
<1>4. ASSUME NEW t \in Trx, ApplyPayment(t) PROVE TypeOK'
  BY <1>4 DEF ApplyPayment, Settle, BillStatus, StoneStatus
<1>5. CASE CancelCallback
  BY <1>5 DEF CancelCallback, BillStatus
<1> QED
  BY <1>1, <1>2, <1>3, <1>4, <1>5 DEF Gateway

LEMMA TypeStep == TypeOK /\ [Next]_vars => TypeOK'
<1>1. TypeOK /\ UNCHANGED vars => TypeOK'
  BY DEF TypeOK, vars, stoneVars, billVars, gwVars
<1> QED
  BY <1>1, StoneTypes, HoldTypes, BillTypes, GatewayTypes DEF Next

-----------------------------------------------------------------------------
(* The invariant, one lemma per group of actions.                          *)

LEMMA StoneStep == IInv /\ StoneRequest => IInv'
<1> SUFFICES ASSUME IInv, StoneRequest PROVE IInv'
  OBVIOUS
<1>1. TypeOK'
  BY StoneTypes DEF IInv
<1>2. UNCHANGED <<hold, billVars, gen, cancelling, gwVars>> => 
        /\ OneInsert' /\ NothingBeforeBill' /\ RecordedWasMade' /\ ClosedIsUncovered'
        /\ CancelledIsClosed' /\ PaidExactlyWhenCovered'
  BY DEF IInv, billVars, gwVars, OneInsert, NothingBeforeBill, RecordedWasMade,
         ClosedIsUncovered, CancelledIsClosed, PaidExactlyWhenCovered, BillExists,
         Covers
<1>3. UNCHANGED <<hold, billVars, gen, cancelling, gwVars>>
  BY DEF StoneRequest, AddStone, BeginEdit, CommitEdit, RestoreStone, Transition
<1>4. \A s \in Stones : status'[s] = "paid" => status[s] = "paid"
  BY ConstantsAssumption
     DEF IInv, TypeOK, StoneRequest, AddStone, BeginEdit, CommitEdit, RestoreStone,
         Transition, stoneVars
<1>5. PaidStonesAreSettled'
  BY <1>3, <1>4 DEF IInv, PaidStonesAreSettled, billVars
<1> QED
  BY <1>1, <1>2, <1>3, <1>5 DEF IInv

LEMMA HoldStep == IInv /\ HoldRequest => IInv'
<1> SUFFICES ASSUME IInv, HoldRequest PROVE IInv'
  OBVIOUS
<1>1. TypeOK'
  BY HoldTypes DEF IInv
<1>2. UNCHANGED <<stoneVars, billVars, gen, edits, cancelling, gwVars>>
  BY DEF HoldRequest, HoldOrder, ReleaseOrder
<1> QED
  BY <1>1, <1>2 DEF IInv, stoneVars, billVars, gwVars, OneInsert, NothingBeforeBill,
     RecordedWasMade, ClosedIsUncovered, CancelledIsClosed, PaidExactlyWhenCovered,
     PaidStonesAreSettled, BillExists, Covers

\* The gateway's answer "cancelled" can only reach a bill that is not paid:
\* it closed the bill while its payments fell short, and takes none since.
LEMMA ClosedBillIsNotPaid ==
  ASSUME IInv, gw = "closed"
  PROVE  BillExists /\ ~ Covers(recorded) /\ billStatus # "paid"
<1>1. BillExists
  BY DEF IInv, NothingBeforeBill
<1>2. ~ Covers(recorded)
  BY CoversGrows DEF IInv, TypeOK, RecordedWasMade, ClosedIsUncovered
<1> QED
  BY <1>1, <1>2 DEF IInv, PaidExactlyWhenCovered

\* Marking the bill cancelled once the gateway has closed it.
LEMMA CancelledStep ==
  ASSUME IInv, gw = "closed", billStatus' = "cancelled", TypeOK',
         cancelling' \in BOOLEAN,
         UNCHANGED <<hold, stoneVars, line, recorded, gen, edits, gwVars>>
  PROVE  IInv'
<1> USE DEF IInv, stoneVars, gwVars
<1>1. BillExists /\ ~ Covers(recorded) /\ billStatus # "paid"
  BY ClosedBillIsNotPaid
<1>2. OneInsert' /\ NothingBeforeBill'
  BY <1>1 DEF OneInsert, NothingBeforeBill, BillExists
<1>3. RecordedWasMade' /\ ClosedIsUncovered' /\ CancelledIsClosed'
  BY DEF RecordedWasMade, ClosedIsUncovered, CancelledIsClosed, Covers
<1>4. PaidExactlyWhenCovered'
  BY <1>1 DEF PaidExactlyWhenCovered, BillExists, Covers
<1>5. PaidStonesAreSettled'
  BY <1>1 DEF PaidStonesAreSettled
<1> QED
  BY <1>2, <1>3, <1>4, <1>5

LEMMA BillStep == IInv /\ BillRequest => IInv'
<1> SUFFICES ASSUME IInv, BillRequest PROVE IInv'
  OBVIOUS
<1>1. TypeOK /\ TypeOK'
  BY BillTypes DEF IInv
<1>2. ASSUME NEW r \in Requests, UNCHANGED <<hold, stoneVars, billVars, edits, cancelling, gwVars>>,
             \E g \in [pc : {"idle", "read", "sent"}, lines : Lines] :
                 /\ gen' = [gen EXCEPT ![r] = g]
                 /\ g.pc = "sent" => ~ InsertBlocked /\ ~ BillExists
      PROVE  IInv'
  <2>1. OneInsert'
    BY <1>1, <1>2 DEF IInv, TypeOK, OneInsert, InsertBlocked, BillExists, billVars
  <2> QED
    BY <1>1, <1>2, <2>1 DEF IInv, stoneVars, billVars, gwVars, NothingBeforeBill,
       RecordedWasMade, ClosedIsUncovered, CancelledIsClosed, PaidExactlyWhenCovered,
       PaidStonesAreSettled, BillExists, Covers
<1>3. Idle \in [pc : {"idle", "read", "sent"}, lines : Lines] /\ Idle.pc = "idle"
  BY DEF Idle, Lines
<1>4. ASSUME NEW r \in Requests, GenerateRead(r) PROVE IInv'
  <2> DEFINE read == [pc |-> "read",
                      lines |-> [s \in Stones |-> IF s \in live THEN category[s]
                                                                ELSE NoCategory]]
  <2>1. read \in [pc : {"idle", "read", "sent"}, lines : Lines] /\ read.pc = "read"
    BY <1>1 DEF TypeOK, Lines
  <2> QED
    BY <1>2, <1>4, <2>1 DEF GenerateRead
<1>5. ASSUME NEW r \in Requests, GenerateInsert(r) PROVE IInv'
  <2>1. /\ [gen[r] EXCEPT !.pc = "sent"] \in [pc : {"idle", "read", "sent"}, lines : Lines]
        /\ gen' = [gen EXCEPT ![r] = [gen[r] EXCEPT !.pc = "sent"]]
    BY <1>1, <1>5 DEF TypeOK, GenerateInsert
  <2> QED
    BY <1>2, <1>5, <2>1 DEF GenerateInsert
<1>6. ASSUME NEW r \in Requests, GenerateRefused(r) \/ GenerateLost(r) PROVE IInv'
  BY <1>2, <1>3, <1>6 DEF GenerateRefused, GenerateLost
<1>7. ASSUME NEW r \in Requests, GenerateCommit(r) PROVE IInv'
  <2>1. ~ BillExists /\ recorded = {} /\ gw # "closed" /\ ~ cancelling
    BY <1>7 DEF GenerateCommit, IInv, OneInsert, NothingBeforeBill
  <2>2. OneInsert'
    BY <1>1, <1>3, <1>7 DEF GenerateCommit, IInv, TypeOK, OneInsert
  <2>3. PaidStonesAreSettled'
    BY <1>1, <1>7, <2>1 DEF GenerateCommit, IInv, TypeOK, PaidStonesAreSettled, BillExists
  <2> QED
    BY <1>1, <1>7, <2>1, <2>2, <2>3
       DEF GenerateCommit, IInv, gwVars, NothingBeforeBill, RecordedWasMade,
           ClosedIsUncovered, CancelledIsClosed, PaidExactlyWhenCovered, BillExists
<1>8. CASE CancelRequest \/ CancelFailed
  BY <1>1, <1>8 DEF CancelRequest, CancelFailed, IInv, stoneVars, billVars, gwVars,
     OneInsert, NothingBeforeBill, RecordedWasMade, ClosedIsUncovered,
     CancelledIsClosed, PaidExactlyWhenCovered, PaidStonesAreSettled, BillExists, Covers
<1>9. CASE CancelReply
  BY <1>1, <1>9, CancelledStep DEF CancelReply
<1> QED
  BY <1>4, <1>5, <1>6, <1>7, <1>8, <1>9 DEF BillRequest

LEMMA GatewayStep == IInv /\ Gateway => IInv'
<1> SUFFICES ASSUME IInv, Gateway PROVE IInv'
  OBVIOUS
<1>1. TypeOK /\ TypeOK'
  BY GatewayTypes DEF IInv
<1> USE DEF IInv, stoneVars, billVars, gwVars
<1>2. CASE GatewayAccepts \/ GatewayCancels \/ \E t \in Trx : GatewayTakesPayment(t)
  <2>1. UNCHANGED <<hold, stoneVars, billVars, gen, edits, cancelling>>
    BY <1>2 DEF GatewayAccepts, GatewayCancels, GatewayTakesPayment
  <2>2. OneInsert' /\ PaidExactlyWhenCovered' /\ PaidStonesAreSettled'
    BY <2>1 DEF OneInsert, PaidExactlyWhenCovered, PaidStonesAreSettled, BillExists, Covers
  <2>3. NothingBeforeBill' /\ RecordedWasMade' /\ ClosedIsUncovered' /\ CancelledIsClosed'
    BY <1>2, <2>1 DEF GatewayAccepts, GatewayCancels, GatewayTakesPayment,
       NothingBeforeBill, RecordedWasMade, ClosedIsUncovered, CancelledIsClosed,
       BillExists, Covers
  <2> QED
    BY <1>1, <2>2, <2>3
<1>3. ASSUME NEW t \in Trx, ApplyPayment(t) PROVE IInv'
  <2>1. CASE t \in recorded
    <3>1. UNCHANGED vars
      BY <1>3, <2>1 DEF ApplyPayment, vars
    <3> QED
      BY <1>1, <3>1 DEF vars, OneInsert, NothingBeforeBill, RecordedWasMade,
         ClosedIsUncovered, CancelledIsClosed, PaidExactlyWhenCovered,
         PaidStonesAreSettled, BillExists, Covers
  <2>2. CASE t \notin recorded
    <3>1. /\ recorded' = recorded \cup {t} /\ BillExists /\ t \in made
          /\ Settle(Covers(recorded'), live)
          /\ UNCHANGED <<hold, live, category, line, gen, edits, cancelling, gwVars>>
      BY <1>3, <2>2 DEF ApplyPayment
    <3>2. billStatus' = IF Covers(recorded') THEN "paid" ELSE "partially_paid"
      BY <3>1 DEF Settle
    <3>3. OneInsert' /\ NothingBeforeBill' /\ RecordedWasMade' /\ ClosedIsUncovered'
      BY <3>1, <3>2 DEF OneInsert, NothingBeforeBill, RecordedWasMade,
         ClosedIsUncovered, BillExists, Covers
    <3>4. PaidExactlyWhenCovered' /\ CancelledIsClosed'
      BY <3>1, <3>2 DEF PaidExactlyWhenCovered, CancelledIsClosed, Covers
    <3>5. PaidStonesAreSettled'
      <4>1. CASE Covers(recorded')
        BY <3>2, <4>1 DEF PaidStonesAreSettled
      <4>2. CASE ~ Covers(recorded')
        <5>1. ~ Covers(recorded)
          BY <1>1, <3>1, <4>2, CoversGrows DEF TypeOK, Covers
        <5>2. billStatus # "paid"
          BY <3>1, <5>1 DEF PaidExactlyWhenCovered
        <5> QED
          BY <3>1, <4>2, <5>2 DEF Settle, PaidStonesAreSettled
      <4> QED
        BY <4>1, <4>2
    <3> QED
      BY <1>1, <3>3, <3>4, <3>5
  <2> QED
    BY <2>1, <2>2
<1>4. CASE CancelCallback
  BY <1>1, <1>4, CancelledStep DEF CancelCallback, TypeOK
<1> QED
  BY <1>2, <1>3, <1>4 DEF Gateway

LEMMA Step == IInv /\ [Next]_vars => IInv'
<1>1. IInv /\ UNCHANGED vars => IInv'
  BY DEF vars, IInv, TypeOK, stoneVars, billVars, gwVars, OneInsert,
     NothingBeforeBill, RecordedWasMade, ClosedIsUncovered, CancelledIsClosed,
     PaidExactlyWhenCovered, PaidStonesAreSettled, BillExists, Covers
<1> QED
  BY <1>1, StoneStep, HoldStep, BillStep, GatewayStep DEF Next

LEMMA Invariance == Spec => []IInv
  BY InitIInv, Step, PTL DEF Spec

-----------------------------------------------------------------------------
(* What follows from the invariant.                                        *)

\* Every reachable state is well typed: the bill, the stones, the requests in
\* progress and the gateway's view only ever hold values the code writes.
THEOREM TypeCorrect == Spec => []TypeOK
<1>1. IInv => TypeOK
  BY DEF IInv
<1> QED
  BY <1>1, Invariance, PTL

\* In every reachable state the bill is paid exactly when the payments
\* recorded against it reach its total (_apply_payment).
THEOREM SettlementIsExact == Spec => []PaidExactlyWhenCovered
<1>1. IInv => PaidExactlyWhenCovered
  BY DEF IInv
<1> QED
  BY <1>1, Invariance, PTL

\* No stone is paid under an unpaid bill, whatever else staff set by hand.
THEOREM PaidStonesHavePaidBills == Spec => []PaidStonesAreSettled
<1>1. IInv => PaidStonesAreSettled
  BY DEF IInv
<1> QED
  BY <1>1, Invariance, PTL

\* The steps that do not touch the bill.
LEMMA BillUntouched ==
  ASSUME StoneRequest \/ HoldRequest
  PROVE  UNCHANGED <<billStatus, line, recorded>>
BY DEF StoneRequest, AddStone, BeginEdit, CommitEdit, RestoreStone, Transition,
       HoldRequest, HoldOrder, ReleaseOrder, billVars

\* The steps of the gateway that do not touch the bill.
LEMMA GatewayOnly ==
  ASSUME GatewayAccepts \/ GatewayCancels \/ \E t \in Trx : GatewayTakesPayment(t)
  PROVE  UNCHANGED <<billStatus, line, recorded, status>>
BY DEF GatewayAccepts, GatewayCancels, GatewayTakesPayment, billVars, stoneVars

\* A step either leaves the bill alone, or commits the order's one bill, or
\* marks it cancelled once the gateway closed it, or records a payment.
LEMMA BillEvolution ==
  ASSUME IInv, [Next]_vars
  PROVE  \/ UNCHANGED <<billStatus, line, recorded>>
         \/ /\ ~ BillExists
            /\ billStatus' = "pending"
            /\ line' \in Lines
            /\ UNCHANGED recorded
         \/ /\ gw = "closed"
            /\ billStatus' = "cancelled"
            /\ UNCHANGED <<line, recorded>>
         \/ \E t \in Trx \ recorded :
              /\ BillExists
              /\ recorded' = recorded \cup {t}
              /\ billStatus' = IF Covers(recorded') THEN "paid" ELSE "partially_paid"
              /\ UNCHANGED line
<1>1. CASE StoneRequest \/ HoldRequest
  BY <1>1, BillUntouched
<1>2. ASSUME NEW r \in Requests,
             GenerateRead(r) \/ GenerateInsert(r) \/ GenerateRefused(r) \/ GenerateLost(r)
      PROVE  UNCHANGED <<billStatus, line, recorded>>
  BY <1>2 DEF GenerateRead, GenerateInsert, GenerateRefused, GenerateLost, billVars
<1>3. ASSUME NEW r \in Requests, GenerateCommit(r)
      PROVE  /\ ~ BillExists
             /\ billStatus' = "pending"
             /\ line' \in Lines
             /\ UNCHANGED recorded
  BY <1>3 DEF GenerateCommit, IInv, TypeOK, OneInsert
<1>4. CASE CancelRequest \/ CancelFailed
  BY <1>4 DEF CancelRequest, CancelFailed, billVars
<1>5. CASE CancelReply \/ CancelCallback
  BY <1>5 DEF CancelReply, CancelCallback
<1>6. CASE GatewayAccepts \/ GatewayCancels \/ \E t \in Trx : GatewayTakesPayment(t)
  BY <1>6, GatewayOnly
<1>7. ASSUME NEW t \in Trx, ApplyPayment(t)
      PROVE  \/ UNCHANGED <<billStatus, line, recorded>>
             \/ /\ t \notin recorded
                /\ BillExists
                /\ recorded' = recorded \cup {t}
                /\ billStatus' = IF Covers(recorded') THEN "paid" ELSE "partially_paid"
                /\ UNCHANGED line
  BY <1>7 DEF ApplyPayment, Settle, billVars
<1>8. CASE UNCHANGED vars
  BY <1>8 DEF vars, billVars
<1> QED
  BY <1>1, <1>2, <1>3, <1>4, <1>5, <1>6, <1>7, <1>8 DEF Next, BillRequest, Gateway

\* Once paid, a bill is never anything else.
THEOREM PaidForGood == Spec => PaidIsFinal
<1>1. ASSUME IInv, [Next]_vars, billStatus = "paid"
      PROVE  billStatus' = "paid"
  <2>1. BillExists /\ Covers(recorded) /\ gw # "closed"
    BY <1>1, ClosedBillIsNotPaid DEF IInv, PaidExactlyWhenCovered, BillExists
  <2>2. ASSUME NEW t \in Trx \ recorded,
               recorded' = recorded \cup {t},
               billStatus' = IF Covers(recorded') THEN "paid" ELSE "partially_paid",
               UNCHANGED line
        PROVE  billStatus' = "paid"
    <3>1. Covers(recorded \cup {t})
      BY <1>1, <2>1, CoversGrows DEF IInv, TypeOK
    <3> QED
      BY <2>2, <3>1 DEF Covers
  <2> QED
    BY <1>1, <2>1, <2>2, BillEvolution DEF BillExists
<1> QED
  BY <1>1, Invariance, PTL DEF Spec, PaidIsFinal

\* Overlapping generate requests commit one bill; its lines and the payments
\* recorded against it are never lost.
THEOREM OneBillOnly == Spec => OneBillPerOrder
<1>1. ASSUME IInv, [Next]_vars, BillExists
      PROVE  /\ billStatus' # "none" /\ line' = line /\ recorded \subseteq recorded'
             /\ billStatus' = "pending" => billStatus = "pending"
  BY <1>1, BillEvolution DEF BillExists
<1> QED
  BY <1>1, Invariance, PTL DEF Spec, OneBillPerOrder

\* A stone that is not paid becomes paid only together with a transaction
\* that had not been recorded before.
THEOREM RedeliveryChangesNoStone == Spec => RedeliveryIsSilent
<1>1. ASSUME IInv, [Next]_vars, recorded' = recorded, NEW s \in Stones,
             status'[s] = "paid"
      PROVE  status[s] = "paid"
  <2> USE <1>1 DEF IInv, TypeOK, stoneVars, billVars
  <2>1. CASE StoneRequest
    BY <2>1, ConstantsAssumption
       DEF StoneRequest, AddStone, BeginEdit, CommitEdit, RestoreStone, Transition
  <2>2. CASE HoldRequest
    BY <2>2 DEF HoldRequest, HoldOrder, ReleaseOrder
  <2>3. CASE BillRequest
    BY <2>3 DEF BillRequest, GenerateRead, GenerateInsert, GenerateRefused,
       GenerateCommit, GenerateLost, CancelRequest, CancelReply, CancelFailed
  <2>4. CASE Gateway
    BY <2>4, GatewayOnly DEF Gateway, ApplyPayment, CancelCallback
  <2>5. CASE UNCHANGED vars
    BY <2>5 DEF vars
  <2> QED
    BY <2>1, <2>2, <2>3, <2>4, <2>5 DEF Next
<1>2. IInv /\ [Next]_vars =>
        [(\E s \in Stones : status[s] # "paid" /\ status'[s] = "paid")
           => recorded' # recorded]_vars
  BY <1>1
<1> QED
  BY <1>2, Invariance, PTL DEF Spec, RedeliveryIsSilent

-----------------------------------------------------------------------------
(* Refinement of the abstract ledger.                                      *)

LEMMA LedgerInit == Init => LedgerView!Init
BY DEF Init, LedgerView!Init, BillExists

LEMMA LedgerStep ==
  ASSUME IInv, [Next]_vars
  PROVE  [LedgerView!Next]_(LedgerView!ledgerVars)
<1>1. CASE UNCHANGED <<billStatus, line, recorded>>
  BY <1>1 DEF LedgerView!ledgerVars, BillExists
<1>2. CASE /\ ~ BillExists
           /\ billStatus' = "pending"
           /\ line' \in Lines
           /\ UNCHANGED recorded
  <2>1. Charge[line'] \in Nat
    BY <1>2, AmountsAssumption
  <2>2. LedgerView!Raise
    BY <1>2, <2>1 DEF LedgerView!Raise, BillExists
  <2> QED
    BY <2>2 DEF LedgerView!Next
<1>3. CASE /\ gw = "closed"
           /\ billStatus' = "cancelled"
           /\ UNCHANGED <<line, recorded>>
  BY <1>3, ClosedBillIsNotPaid DEF LedgerView!ledgerVars, BillExists
<1>4. ASSUME NEW t \in Trx \ recorded,
             BillExists,
             recorded' = recorded \cup {t},
             billStatus' = IF Covers(recorded') THEN "paid" ELSE "partially_paid",
             UNCHANGED line
      PROVE  LedgerView!Receive(t)
  <2>1. billStatus = "paid" => Covers(recorded \cup {t})
    BY <1>4, CoversGrows DEF IInv, TypeOK, PaidExactlyWhenCovered
  <2>2. BillExists' /\ (billStatus' = "paid" <=> Covers(recorded'))
    BY <1>4 DEF BillExists
  <2>3. Covers(recorded') <=> PaidAmount[recorded'] >= Charge[line]
    BY <1>4 DEF Covers
  <2> QED
    BY <1>4, <2>1, <2>2, <2>3 DEF LedgerView!Receive, BillExists, Covers
<1> QED
  BY <1>1, <1>2, <1>3, <1>4, BillEvolution DEF LedgerView!Next

\* Every behaviour of Settlement is a behaviour of the ledger: requests,
\* races and redeliveries are invisible in the order's account.
THEOREM SettlementImplementsLedger == Spec => ImplementsLedger
<1>1. IInv /\ [Next]_vars => [LedgerView!Next]_(LedgerView!ledgerVars)
  BY LedgerStep
<1> QED
  BY <1>1, LedgerInit, Invariance, PTL DEF Spec, ImplementsLedger, LedgerView!Spec

-----------------------------------------------------------------------------
(* The ledger alone already promises it.                                   *)

Account == IF ~ BillExists THEN "unbilled"
           ELSE IF billStatus = "paid" THEN "settled" ELSE "owing"
AmountDue == IF BillExists THEN Charge[line] ELSE 0

\* An account is settled exactly when something was received and it suffices.
SettledExactlyWhenCovered ==
  /\ recorded \in SUBSET Trx
  /\ AmountDue \in Nat
  /\ Account = "unbilled" => recorded = {}
  /\ Account = "settled" <=> /\ Account # "unbilled"
                             /\ recorded # {}
                             /\ PaidAmount[recorded] >= AmountDue

LEMMA LedgerSettles ==
  ASSUME SettledExactlyWhenCovered, [LedgerView!Next]_(LedgerView!ledgerVars)
  PROVE  SettledExactlyWhenCovered'
<1> USE DEF SettledExactlyWhenCovered
<1>0. /\ Account \in {"unbilled", "settled", "owing"}
      /\ Account' \in {"unbilled", "settled", "owing"}
  BY DEF Account
<1>1. CASE LedgerView!Raise
  <2>1. Account = "unbilled" /\ Account' = "owing" /\ AmountDue' \in Nat /\ recorded' = recorded
    BY <1>1 DEF LedgerView!Raise, Account, AmountDue
  <2> QED
    BY <2>1
<1>2. ASSUME NEW t \in Trx, LedgerView!Receive(t)
      PROVE  SettledExactlyWhenCovered'
  <2>1. /\ Account # "unbilled"
        /\ recorded' = recorded \cup {t}
        /\ AmountDue' = AmountDue
        /\ Account' = IF Account = "settled" \/ PaidAmount[recorded'] >= AmountDue
                        THEN "settled" ELSE "owing"
    BY <1>2 DEF LedgerView!Receive, Account, AmountDue
  <2>2. PaidAmount[recorded] \in Nat /\ PaidAmount[recorded'] \in Nat
        /\ PaidAmount[recorded] <= PaidAmount[recorded']
    BY <2>1, AmountsAssumption
  <2>3. Account = "settled" => PaidAmount[recorded'] >= AmountDue
    BY <2>2
  <2> QED
    BY <2>1, <2>3
<1>3. CASE UNCHANGED LedgerView!ledgerVars
  <2>1. Account' = Account /\ AmountDue' = AmountDue /\ recorded' = recorded
    BY <1>3 DEF LedgerView!ledgerVars, Account, AmountDue
  <2> QED
    BY <2>1
<1> QED
  BY <1>1, <1>2, <1>3 DEF LedgerView!Next

\* What Ledger says is enough: a bill that evolves as the ledger allows, by
\* whatever requests, is paid exactly when the payments recorded reach its
\* total.  With SettlementImplementsLedger this is a second way to
\* SettlementIsExact, through the promise instead of the code.
THEOREM LedgerIsExact == LedgerView!Spec => []PaidExactlyWhenCovered
<1>1. LedgerView!Init => SettledExactlyWhenCovered
  BY DEF LedgerView!Init, SettledExactlyWhenCovered, Account, AmountDue
<1>2. SettledExactlyWhenCovered => PaidExactlyWhenCovered
  BY DEF SettledExactlyWhenCovered, PaidExactlyWhenCovered, Account, AmountDue, Covers
<1> QED
  BY <1>1, <1>2, LedgerSettles, PTL DEF LedgerView!Spec
=============================================================================
