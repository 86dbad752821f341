----------------------------- MODULE Settlement -----------------------------
(***************************************************************************)
(* One order from the moment its first stone is registered until its bill  *)
(* is paid or withdrawn: the stones, the order-level hold, the single bill *)
(* and its lines, the payments recorded against it, and a cancellation.    *)
(*                                                                         *)
(* Every web request runs in one READ COMMITTED transaction                *)
(* (config/settings/base.py: ATOMIC_REQUESTS).  A request whose checks and *)
(* writes are separated by something other requests can overtake is split  *)
(* into steps and leaves a record in gen, edits or cancelling meanwhile:   *)
(*   - generating a bill keeps its rows locked and invisible for the whole *)
(*     HTTP exchange with the payment gateway (GePG);                      *)
(*   - editing or deleting a stone checks the stone, then waits for its    *)
(*     row lock, then writes;                                              *)
(*   - cancelling a bill checks it, asks the gateway, then writes.         *)
(* All other requests, and the processing of one payment, are single steps.*)
(* The gateway (gw, made) is external: only what src/ relies on is stated. *)
(***************************************************************************)
EXTENDS Naturals, FiniteSets

CONSTANTS
  Stones,      \* the rows that may ever be registered for the order
  Categories,  \* gems.StoneCategory rows: the pricing tiers
  Priced,      \* the tiers whose price is set
  NoCategory,  \* no tier: an unregistered stone, or no bill line
  StoneCount,  \* Order.stone_count: what the customer says they brought
  Manual,      \* statuses staff reach by POST /stones/{id}/transition/
  Requests,    \* overlapping POST /bills/generate/ requests
  MaxEdits,    \* bound: stone edits and deletions in progress at once
  Trx,         \* gateway transaction ids
  Charge,      \* the sum a set of bill lines comes to
  PaidAmount   \* the sum a set of transactions comes to

StoneStatus == {"received", "under_identification", "billed", "paid",
                "certified", "ready_for_collection", "collected",
                "on_hold", "cancelled"}
BillStatus  == {"pending", "partially_paid", "paid", "cancelled"}
OrderHold   == {"active", "on_hold", "cancelled"}
Retypeable  == {"received", "on_hold", "cancelled"}

Lines == [Stones -> Categories \cup {NoCategory}]

\* The two statuses billing itself writes are never set by hand.
ASSUME ConstantsAssumption ==
  /\ IsFiniteSet(Stones)
  /\ Priced \subseteq Categories
  /\ NoCategory \notin Categories
  /\ StoneCount \in Nat
  /\ MaxEdits \in Nat
  /\ Manual \subseteq StoneStatus \ {"billed", "paid"}

\* Prices and paid amounts are never negative, so recording one more
\* transaction never lowers what has been paid.
ASSUME AmountsAssumption ==
  /\ Charge \in [Lines -> Nat]
  /\ PaidAmount \in [SUBSET Trx -> Nat]
  /\ \A S, T \in SUBSET Trx : S \subseteq T => PaidAmount[S] <= PaidAmount[T]

VARIABLES
  hold,        \* Order.hold_status
  live,        \* registered stones that are not soft-deleted
  status,      \* Stone.status, "unregistered" before add_stone
  category,    \* Stone.stone_category
  billStatus,  \* Bill.status, "none" while no bill row is committed
  line,        \* BillItem per stone: the category it was priced from
  recorded,    \* Payment rows of the bill, by trx_id
  gen,         \* bill generation requests in progress
  edits,       \* stone edits and deletions that have passed their checks
  cancelling,  \* a cancellation request is waiting for the gateway
  gw,          \* the gateway's own view of the bill
  made         \* transactions the gateway has taken for the bill

stoneVars == <<live, status, category>>
billVars  == <<billStatus, line, recorded>>
gwVars    == <<gw, made>>
vars == <<hold, stoneVars, billVars, gen, edits, cancelling, gwVars>>

Idle  == [pc |-> "idle", lines |-> [s \in Stones |-> NoCategory]]
Edits == [kind : {"update", "delete"}, stone : Stones,
          category : Categories \cup {NoCategory}]

TypeOK ==
  /\ hold \in OrderHold
  /\ live \subseteq Stones
  /\ status \in [Stones -> StoneStatus \cup {"unregistered"}]
  /\ category \in [Stones -> Categories \cup {NoCategory}]
  /\ billStatus \in BillStatus \cup {"none"}
  /\ line \in Lines
  /\ recorded \subseteq Trx
  /\ gen \in [Requests -> [pc : {"idle", "read", "sent"}, lines : Lines]]
  /\ edits \subseteq Edits
  /\ cancelling \in BOOLEAN
  /\ gw \in {"none", "open", "closed"}
  /\ made \subseteq Trx

Init ==
  /\ hold = "active"
  /\ live = {}
  /\ status = [s \in Stones |-> "unregistered"]
  /\ category = [s \in Stones |-> NoCategory]
  /\ billStatus = "none"
  /\ line = [s \in Stones |-> NoCategory]
  /\ recorded = {}
  /\ gen = [r \in Requests |-> Idle]
  /\ edits = {}
  /\ cancelling = FALSE
  /\ gw = "none"
  /\ made = {}

Billed(lines) == {s \in Stones : lines[s] # NoCategory}
BillExists == billStatus # "none"

\* Stones whose rows an uncommitted bill generation has updated.
Locked == {s \in Stones : \E r \in Requests :
                            gen[r].pc = "sent" /\ s \in Billed(gen[r].lines)}

\* The payments of S reach the total of the bill.
Covers(S) == PaidAmount[S] >= Charge[line]

-----------------------------------------------------------------------------
(* Registration and correction of stones.  A request with ?with_trashed=1  *)
(* reaches a deleted stone too, so only restoring looks at live.          *)

AddStone(s, c) ==
  /\ status[s] = "unregistered"
  /\ Cardinality(live) < StoneCount
  /\ live' = live \cup {s}
  /\ status' = [status EXCEPT ![s] = "received"]
  /\ category' = [category EXCEPT ![s] = c]
  /\ UNCHANGED <<hold, billVars, gen, edits, cancelling, gwVars>>

\* A PATCH, or a DELETE, has read the stone and passed its checks: a DELETE and
\* a PATCH of the category need a stone that assert_stone_retypeable admits, a
\* PATCH of the weight or the photo carries the category it read.
BeginEdit(e) ==
  /\ Cardinality(edits) < MaxEdits
  /\ status[e.stone] # "unregistered"
  /\ \/ /\ e.kind = "update"
        /\ e.category \in Categories
        /\ e.category = category[e.stone] \/ status[e.stone] \in Retypeable
     \/ /\ e.kind = "delete"
        /\ e.category = NoCategory
        /\ status[e.stone] \in Retypeable
  /\ edits' = edits \cup {e}
  /\ UNCHANGED <<hold, stoneVars, billVars, gen, cancelling, gwVars>>

\* The write lands once the row is unlocked: update_stone saves the category
\* whether or not the request changed it, and nothing is checked again.
CommitEdit(e) ==
  /\ e \in edits
  /\ e.stone \notin Locked
  /\ edits' = edits \ {e}
  /\ IF e.kind = "update"
       THEN /\ category' = [category EXCEPT ![e.stone] = e.category]
            /\ UNCHANGED live
       ELSE /\ live' = live \ {e.stone}
            /\ UNCHANGED category
  /\ UNCHANGED <<hold, status, billVars, gen, cancelling, gwVars>>

RestoreStone(s) ==
  /\ status[s] # "unregistered"
  /\ s \notin live \cup Locked
  /\ live' = live \cup {s}
  /\ UNCHANGED <<hold, status, category, billVars, gen, edits, cancelling, gwVars>>

\* The transition endpoint takes any target and checks only the permission.
Transition(s, to) ==
  /\ status[s] \notin {"unregistered", to}
  /\ s \notin Locked
  /\ status' = [status EXCEPT ![s] = to]
  /\ UNCHANGED <<hold, live, category, billVars, gen, edits, cancelling, gwVars>>

-----------------------------------------------------------------------------
(* Holding and releasing the order.                                        *)

HoldOrder(h) ==
  /\ h = "cancelled" => billStatus # "paid"
  /\ hold' = h
  /\ UNCHANGED <<stoneVars, billVars, gen, edits, cancelling, gwVars>>

ReleaseOrder ==
  /\ hold # "active"
  /\ hold' = "active"
  /\ UNCHANGED <<stoneVars, billVars, gen, edits, cancelling, gwVars>>

-----------------------------------------------------------------------------
(* Bill generation: read, insert and send, commit.                         *)

\* _create_local_bill has seen no committed bill and read the live stones.
GenerateRead(r) ==
  /\ gen[r].pc = "idle"
  /\ ~ BillExists
  /\ live # {}
  /\ gen' = [gen EXCEPT ![r] =
               [pc |-> "read",
                lines |-> [s \in Stones |-> IF s \in live THEN category[s]
                                                          ELSE NoCategory]]]
  /\ UNCHANGED <<hold, stoneVars, billVars, edits, cancelling, gwVars>>

\* The order's one-to-one bill: a second insert waits for the first.
InsertBlocked == \E r \in Requests : gen[r].pc = "sent"

AllPriced(lines) == \A s \in Billed(lines) : lines[s] \in Priced

\* Defect: no unique index on the order's bill stops the second insert.
GenerateInsertNotUnique(r) ==
  /\ gen[r].pc = "read"
  /\ ~ InsertBlocked
  /\ AllPriced(gen[r].lines)
  /\ gen' = [gen EXCEPT ![r].pc = "sent"]
  /\ UNCHANGED <<hold, stoneVars, billVars, edits, cancelling, gwVars>>

GenerateInsert(r) ==
  /\ gen[r].pc = "read"
  /\ ~ InsertBlocked
  /\ ~ BillExists
  /\ AllPriced(gen[r].lines)
  /\ gen' = [gen EXCEPT ![r].pc = "sent"]
  /\ UNCHANGED <<hold, stoneVars, billVars, edits, cancelling, gwVars>>

\* The unique index or a missing price rolls the request back.
GenerateRefused(r) ==
  /\ gen[r].pc = "read"
  /\ ~ InsertBlocked
  /\ BillExists \/ ~ AllPriced(gen[r].lines)
  /\ gen' = [gen EXCEPT ![r] = Idle]
  /\ UNCHANGED <<hold, stoneVars, billVars, edits, cancelling, gwVars>>

\* Defect: the stone's new status is written to the bill as well.
GenerateCommitWrongStatus(r) ==
  /\ gen[r].pc = "sent"
  /\ billStatus' = "billed"
  /\ line' = gen[r].lines
  /\ status' = [s \in Stones |->
                  IF s \in Billed(gen[r].lines) THEN "billed" ELSE status[s]]
  /\ gen' = [gen EXCEPT ![r] = Idle]
  /\ UNCHANGED <<hold, live, category, recorded, edits, cancelling, gwVars>>

\* Whatever the gateway answered, and also when submitting raised an
\* unexpected error, the request commits: the bill and the stones it moved.
GenerateCommit(r) ==
  /\ gen[r].pc = "sent"
  /\ billStatus' = "pending"
  /\ line' = gen[r].lines
  /\ status' = [s \in Stones |->
                  IF s \in Billed(gen[r].lines) THEN "billed" ELSE status[s]]
  /\ gen' = [gen EXCEPT ![r] = Idle]
  /\ UNCHANGED <<hold, live, category, recorded, edits, cancelling, gwVars>>

\* The process dies during the exchange: everything it wrote is undone.
GenerateLost(r) ==
  /\ gen[r].pc = "sent"
  /\ gen' = [gen EXCEPT ![r] = Idle]
  /\ UNCHANGED <<hold, stoneVars, billVars, edits, cancelling, gwVars>>

-----------------------------------------------------------------------------
(* The gateway: it accepts the bill it is sent, takes payments while the   *)
(* bill is open, and cancels it on request unless it is covered.           *)

GatewayAccepts ==
  /\ gw = "none"
  /\ BillExists \/ InsertBlocked
  /\ gw' = "open"
  /\ UNCHANGED <<hold, stoneVars, billVars, gen, edits, cancelling, made>>

GatewayTakesPayment(t) ==
  /\ gw = "open"
  /\ made' = made \cup {t}
  /\ UNCHANGED <<hold, stoneVars, billVars, gen, edits, cancelling, gw>>

GatewayCancels ==
  /\ cancelling
  /\ gw = "open"
  /\ ~ Covers(made)
  /\ gw' = "closed"
  /\ UNCHANGED <<hold, stoneVars, billVars, gen, edits, cancelling, made>>

-----------------------------------------------------------------------------
(* Payments: a notification is delivered at any later time, in any order   *)
(* and any number of times.                                                *)

\* What the sum of the payments decides: the bill's status, and on settlement
\* the move of every live stone to paid.
Settle(paid, stones) ==
  IF paid THEN /\ billStatus' = "paid"
               /\ status' = [s \in Stones |->
                               IF s \in stones THEN "paid" ELSE status[s]]
          ELSE /\ billStatus' = "partially_paid"
               /\ UNCHANGED status

\* Defect: the sum is taken before the new row is inserted.
ApplyPaymentSumsTooEarly(t) ==
  /\ t \in made
  /\ BillExists
  /\ IF t \in recorded
       THEN UNCHANGED <<billVars, status>>
       ELSE /\ recorded' = recorded \cup {t}
            /\ Settle(Covers(recorded), live)
            /\ UNCHANGED line
  /\ UNCHANGED <<hold, live, category, gen, edits, cancelling, gwVars>>

\* Defect: the stones move on any payment, not on settlement.
ApplyPaymentMovesStonesEarly(t) ==
  /\ t \in made
  /\ BillExists
  /\ IF t \in recorded
       THEN UNCHANGED <<billVars, status>>
       ELSE /\ recorded' = recorded \cup {t}
            /\ billStatus' = IF Covers(recorded') THEN "paid" ELSE "partially_paid"
            /\ status' = [s \in Stones |-> IF s \in live THEN "paid" ELSE status[s]]
            /\ UNCHANGED line
  /\ UNCHANGED <<hold, live, category, gen, edits, cancelling, gwVars>>

\* Defect: no early return for a transaction already recorded.
ApplyPaymentNoEarlyReturn(t) ==
  /\ t \in made
  /\ BillExists
  /\ recorded' = recorded \cup {t}
  /\ Settle(Covers(recorded'), live)
  /\ UNCHANGED <<hold, live, category, line, gen, edits, cancelling, gwVars>>

\* A transaction already recorded updates its row and returns; a new one is
\* added up with the others and may settle the bill.
ApplyPayment(t) ==
  /\ t \in made
  /\ BillExists
  /\ IF t \in recorded
       THEN UNCHANGED <<billVars, status>>
       ELSE /\ recorded' = recorded \cup {t}
            /\ Settle(Covers(recorded'), live)
            /\ UNCHANGED line
  /\ UNCHANGED <<hold, live, category, gen, edits, cancelling, gwVars>>

-----------------------------------------------------------------------------
(* Cancelling the bill.                                                    *)

CancelRequest ==
  /\ ~ cancelling
  /\ billStatus \notin {"none", "paid", "cancelled"}
  /\ cancelling' = TRUE
  /\ UNCHANGED <<hold, stoneVars, billVars, gen, edits, gwVars>>

\* The gateway's answer 7283 in the same HTTP exchange: the bill row read
\* before the exchange is written without another look at it.
CancelReply ==
  /\ cancelling
  /\ gw = "closed"
  /\ cancelling' = FALSE
  /\ billStatus' = "cancelled"
  /\ UNCHANGED <<hold, stoneVars, line, recorded, gen, edits, gwVars>>

\* A refusal, or no answer: the bill keeps its status.
CancelFailed ==
  /\ cancelling
  /\ cancelling' = FALSE
  /\ UNCHANGED <<hold, stoneVars, billVars, gen, edits, gwVars>>

\* The separate billCanclRes callback, delivered late or more than once.
CancelCallback ==
  /\ gw = "closed"
  /\ billStatus' = "cancelled"
  /\ UNCHANGED <<hold, stoneVars, line, recorded, gen, edits, cancelling, gwVars>>

-----------------------------------------------------------------------------
StoneRequest ==
  \/ \E s \in Stones, c \in Categories : AddStone(s, c)
  \/ \E e \in Edits : BeginEdit(e)
  \/ \E e \in edits : CommitEdit(e)
  \/ \E s \in Stones : RestoreStone(s)
  \/ \E s \in Stones, to \in Manual : Transition(s, to)

HoldRequest ==
  \/ \E h \in {"on_hold", "cancelled"} : HoldOrder(h)
  \/ ReleaseOrder

BillRequest ==
  \/ \E r \in Requests : GenerateRead(r)
  \/ \E r \in Requests : GenerateInsert(r)
  \/ \E r \in Requests : GenerateRefused(r)
  \/ \E r \in Requests : GenerateCommit(r)
  \/ \E r \in Requests : GenerateLost(r)
  \/ CancelRequest
  \/ CancelReply
  \/ CancelFailed

Gateway ==
  \/ GatewayAccepts
  \/ \E t \in Trx : GatewayTakesPayment(t)
  \/ GatewayCancels
  \/ \E t \in Trx : ApplyPayment(t)
  \/ CancelCallback

Next == StoneRequest \/ HoldRequest \/ BillRequest \/ Gateway

Spec == Init /\ [][Next]_vars

-----------------------------------------------------------------------------
(* Properties.                                                             *)

\* A committed bill is paid exactly when the payments recorded against it
\* reach its total: no interleaving of partial payments, redeliveries and a
\* cancellation loses a settlement or invents one (_apply_payment,
\* _apply_cancellation_response and handle_cancel_response all write status).
PaidExactlyWhenCovered ==
  BillExists => (billStatus = "paid" <=> recorded # {} /\ Covers(recorded))

\* A paid bill stays paid: neither a late payment nor a cancellation reply
\* that was asked for before the settlement takes it back.
PaidIsFinal == [][billStatus = "paid" => billStatus' = "paid"]_vars

\* As long as nobody sets "paid" by hand, a stone is paid only when its
\* order's bill is: what findings and certificates rely on.
PaidStonesAreSettled == \A s \in Stones : status[s] = "paid" => billStatus = "paid"

\* "A redelivery would re-transition every stone" without the early return of
\* _apply_payment: a stone returns to paid only with a transaction not seen
\* before.
RedeliveryIsSilent ==
  [][(\E s \in Stones : status[s] # "paid" /\ status'[s] = "paid")
       => recorded' # recorded]_vars

\* However many generate requests overlap, one bill is ever committed for the
\* order and its lines never change.
OneBillPerOrder == [][BillExists => billStatus' # "none" /\ line' = line
                                    /\ recorded \subseteq recorded'
                                    /\ (billStatus' = "pending"
                                          => billStatus = "pending")]_vars

\* The order's account as the abstract ledger sees it.
LedgerView == INSTANCE Ledger WITH
  account  <- IF ~ BillExists THEN "unbilled"
              ELSE IF billStatus = "paid" THEN "settled" ELSE "owing",
  due      <- IF BillExists THEN Charge[line] ELSE 0,
  received <- recorded

\* Settlement implements Ledger.
ImplementsLedger == LedgerView!Spec
=============================================================================
