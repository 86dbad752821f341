------------------------------ MODULE GepgInbox ------------------------------
(***************************************************************************)
(* The durable inbox between the payment gateway and the ledger.  A        *)
(* webhook commits the callback, then acknowledges it; the timer's worker  *)
(* claims the oldest callback that is due, hands it to the handler of its  *)
(* kind, and saves what came of it.  Each of these is a transaction of its *)
(* own, and the worker may die between any two of them.                    *)
(*                                                                         *)
(* There is one worker: the service is a systemd oneshot that is killed    *)
(* after 45 seconds, well before a claim counts as stale after 5 minutes.  *)
(***************************************************************************)
EXTENDS Naturals, Sequences

CONSTANTS
  Events,     \* callbacks, by kind and correlation id
  Items,      \* transactions and control numbers
  Bills,      \* bills the items are about
  Kind,       \* "payment", "reconciliation" or "bill" per event
  Carries,    \* the items an event asks to record
  BillOf,     \* the bill an item is about
  NoEvent,    \* no callback is being processed
  MaxCrashes  \* bound: how often the worker dies

ASSUME ConstantsAssumption ==
  /\ Kind \in [Events -> {"payment", "reconciliation", "bill"}]
  /\ Carries \in [Events -> SUBSET Items]
  /\ BillOf \in [Items -> Bills]
  /\ NoEvent \notin Events
  /\ MaxCrashes \in Nat

VARIABLES
  inbox,     \* GePGCallback.status; a pending one may wait for its next
             \* attempt, a processing one may have been claimed long ago
  arrival,   \* GePGCallback rows in the order of created_at
  expired,   \* callbacks older than GEPG_RETRY_MAX_AGE_SECONDS
  acked,     \* callbacks the gateway has seen acknowledged with 7101
  bills,     \* bills committed, which a callback can be matched with
  recorded,  \* items committed: Payment rows, control numbers stored
  cur,       \* the callback the worker is at
  phase,     \* how far the worker is with it
  left,      \* its items not yet handled
  batch,     \* items written in the handler's open transaction
  crashes    \* times the worker died

rowVars    == <<inbox, arrival>>
workerVars == <<cur, phase, left, batch>>
vars == <<rowVars, expired, acked, bills, recorded, workerVars, crashes>>

Closed == {"processed", "failed"}

TypeOK ==
  /\ inbox \in [Events -> {"absent", "pending", "waiting", "processing", "stale"}
                            \cup Closed]
  /\ arrival \in Seq(Events)
  /\ expired \subseteq Events
  /\ acked \subseteq Events
  /\ bills \subseteq Bills
  /\ recorded \subseteq Items
  /\ cur \in Events \cup {NoEvent}
  /\ phase \in {"idle", "working", "accepted", "rejected", "error"}
  /\ left \subseteq Items
  /\ batch \subseteq Items
  /\ crashes \in 0..MaxCrashes

Init ==
  /\ inbox = [e \in Events |-> "absent"]
  /\ arrival = <<>>
  /\ expired = {}
  /\ acked = {}
  /\ bills = {}
  /\ recorded = {}
  /\ cur = NoEvent
  /\ phase = "idle"
  /\ left = {}
  /\ batch = {}
  /\ crashes = 0

-----------------------------------------------------------------------------
(* The webhook.  The gateway delivers a callback until it has seen the     *)
(* acknowledgement, and sometimes after that.                              *)

\* get_or_create: a callback that is there already is left as it is.
Receive(e) ==
  /\ inbox[e] = "absent"
  /\ inbox' = [inbox EXCEPT ![e] = "pending"]
  /\ arrival' = Append(arrival, e)
  /\ UNCHANGED <<expired, acked, bills, recorded, workerVars, crashes>>

\* Defect: the callback is acknowledged when it is read, not when it is kept.
AcknowledgeEarly(e) ==
  /\ acked' = acked \cup {e}
  /\ UNCHANGED <<rowVars, expired, bills, recorded, workerVars, crashes>>

Acknowledge(e) ==
  /\ inbox[e] # "absent"
  /\ acked' = acked \cup {e}
  /\ UNCHANGED <<rowVars, expired, bills, recorded, workerVars, crashes>>

-----------------------------------------------------------------------------
(* The worker.                                                             *)

\* Defect: a callback abandoned while processing is never due again.
DuePendingOnly(e) == inbox[e] = "pending"

\* _callback_is_due.
Due(e) == inbox[e] \in {"pending", "stale"}

\* _next_due_callback_id and the claim of process_gepg_callback.
Claim ==
  /\ cur = NoEvent
  /\ \E k \in DOMAIN arrival :
       /\ Due(arrival[k])
       /\ \A j \in 1..(k - 1) : ~ Due(arrival[j])
       /\ inbox' = [inbox EXCEPT ![arrival[k]] = "processing"]
       /\ cur' = arrival[k]
       /\ left' = Carries[arrival[k]]
  /\ phase' = "working"
  /\ batch' = {}
  /\ UNCHANGED <<arrival, expired, acked, bills, recorded, crashes>>

Working == phase = "working"
Known(i) == BillOf[i] \in bills

\* One item: a payment notification commits each on its own, the other two
\* handlers commit with the whole callback.
ApplyItem(i) ==
  /\ Working
  /\ i \in left
  /\ Known(i)
  /\ left' = left \ {i}
  /\ IF Kind[cur] = "payment"
       THEN recorded' = recorded \cup {i} /\ UNCHANGED batch
       ELSE batch' = batch \cup {i} /\ UNCHANGED recorded
  /\ UNCHANGED <<rowVars, expired, acked, bills, cur, phase, crashes>>

\* The handler returns with a verdict: its transaction commits.
Answer(verdict) ==
  /\ phase' = verdict
  /\ recorded' = recorded \cup batch
  /\ left' = {}
  /\ batch' = {}
  /\ UNCHANGED <<rowVars, expired, acked, bills, cur, crashes>>

\* Its transaction is rolled back.
RollBack(verdict) ==
  /\ phase' = verdict
  /\ left' = {}
  /\ batch' = {}
  /\ UNCHANGED <<rowVars, expired, acked, bills, recorded, cur, crashes>>

\* It raises instead of answering.
Raise == RollBack("error")

\* Defect: a reconciliation goes on after an item it cannot place.
RefuseSkipsItem ==
  /\ Working
  /\ \E i \in left : ~ Known(i)
  /\ \/ Answer(IF Kind[cur] = "reconciliation" THEN "accepted" ELSE "rejected")
     \/ Raise

\* An item of an unknown bill ends the callback: 7204, or 7321 for a
\* reconciliation, whose earlier items are committed.  Signing that answer
\* may raise.
Refuse ==
  /\ Working
  /\ \E i \in left : ~ Known(i)
  /\ Answer("rejected") \/ Raise

\* The data does not parse: 7242.  A reconciliation finds out item by item, the
\* other two handlers before they write anything.
Malformed ==
  /\ Working
  /\ Kind[cur] # "reconciliation" => left = Carries[cur]
  /\ Answer("rejected") \/ Raise

\* A database error: the payment and reconciliation handlers turn it into 7321
\* (after a failed statement the commit of the latter is a rollback), the
\* bill response handler lets it through.
InternalError ==
  /\ Working
  /\ \/ Kind[cur] \in {"payment", "reconciliation"} /\ Answer("rejected")
     \/ Kind[cur] = "reconciliation" /\ RollBack("rejected")
     \/ Raise

\* Every item is handled; signing the answer may raise.
Finish ==
  /\ Working
  /\ left = {}
  /\ Answer("accepted") \/ Raise

\* Defect: the handler's verdict is saved as the callback's status.
SaveVerdict ==
  /\ phase \in {"accepted", "rejected", "error"}
  /\ inbox' = [inbox EXCEPT ![cur] = phase]
  /\ cur' = NoEvent
  /\ phase' = "idle"
  /\ UNCHANGED <<arrival, expired, acked, bills, recorded, left, batch, crashes>>

\* What came of it is saved: an error is retried until the callback is a day
\* old.
Save ==
  /\ phase \in {"accepted", "rejected", "error"}
  /\ inbox' = [inbox EXCEPT ![cur] =
                 CASE phase = "accepted"                      -> "processed"
                   [] phase = "error" /\ cur \notin expired   -> "waiting"
                   [] OTHER                                   -> "failed"]
  /\ cur' = NoEvent
  /\ phase' = "idle"
  /\ UNCHANGED <<arrival, expired, acked, bills, recorded, left, batch, crashes>>

\* The process is killed, or the database goes away under it: an open
\* transaction is lost and the row stays claimed.
Crash ==
  /\ cur # NoEvent
  /\ crashes < MaxCrashes
  /\ crashes' = crashes + 1
  /\ cur' = NoEvent
  /\ phase' = "idle"
  /\ left' = {}
  /\ batch' = {}
  /\ UNCHANGED <<rowVars, expired, acked, bills, recorded>>

-----------------------------------------------------------------------------
(* Time, and the bills the rest of the system commits.                     *)

BackOffEnds(e) ==
  /\ inbox[e] = "waiting"
  /\ inbox' = [inbox EXCEPT ![e] = "pending"]
  /\ UNCHANGED <<arrival, expired, acked, bills, recorded, workerVars, crashes>>

GrowStale(e) ==
  /\ inbox[e] = "processing"
  /\ cur # e
  /\ inbox' = [inbox EXCEPT ![e] = "stale"]
  /\ UNCHANGED <<arrival, expired, acked, bills, recorded, workerVars, crashes>>

Expire(e) ==
  /\ inbox[e] # "absent"
  /\ e \notin expired
  /\ expired' = expired \cup {e}
  /\ UNCHANGED <<rowVars, acked, bills, recorded, workerVars, crashes>>

CommitBill(b) ==
  /\ b \notin bills
  /\ bills' = bills \cup {b}
  /\ UNCHANGED <<rowVars, expired, acked, recorded, workerVars, crashes>>

-----------------------------------------------------------------------------
Webhook == \E e \in Events : Receive(e) \/ Acknowledge(e)

Worker ==
  \/ Claim
  \/ \E i \in Items : ApplyItem(i)
  \/ Refuse
  \/ Malformed
  \/ InternalError
  \/ Finish
  \/ Save

Clock == \E e \in Events : BackOffEnds(e) \/ GrowStale(e) \/ Expire(e)

Next ==
  \/ Webhook
  \/ Worker
  \/ Crash
  \/ Clock
  \/ \E b \in Bills : CommitBill(b)

Spec == Init /\ [][Next]_vars

\* The timer starts the worker every minute, and time passes.  Nothing is
\* asked of the gateway, of the web processes or of crashes.
FairSpec ==
  /\ Spec
  /\ WF_vars(Worker)
  /\ \A e \in Events : /\ WF_vars(BackOffEnds(e))
                       /\ WF_vars(GrowStale(e))
                       /\ WF_vars(Expire(e))

-----------------------------------------------------------------------------
(* Properties.                                                             *)

\* A callback is marked processed only when everything it carries has been
\* committed, although the handler's commit, its signed answer and the mark
\* are three steps and a crash may separate them.
ProcessedIsRecorded ==
  \A e \in Events : inbox[e] = "processed" => Carries[e] \subseteq recorded

\* A redelivery, a stale claim or a late error never reopens a callback that
\* was closed.
ClosedForGood ==
  [][\A e \in Events : inbox[e] \in Closed => inbox'[e] = inbox[e]]_vars

\* Where EventFeed sees a callback.
Progress(e) == CASE inbox[e] = "absent"    -> "unknown"
                 [] inbox[e] = "processed" -> "done"
                 [] inbox[e] = "failed"    -> "review"
                 [] OTHER                  -> "kept"

FeedView == INSTANCE EventFeed WITH
  progress <- [e \in Events |-> Progress(e)],
  promised <- acked

\* The inbox implements EventFeed: what was acknowledged is kept, and what is
\* recorded comes from a callback that is kept and not closed.
ImplementsFeed == FeedView!Spec

\* Every acknowledged callback is closed in the end, whatever crashes, errors
\* and back-off come between: nothing stays in processing, and no callback is
\* starved by older ones.
EveryCallbackCloses ==
  \A e \in Events : e \in acked ~> inbox[e] \in Closed
=============================================================================
