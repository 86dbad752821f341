--------------------------- MODULE GepgInboxProofs ---------------------------
(***************************************************************************)
(* Theorems about GepgInbox for any callbacks, items, bills and number of  *)
(* crashes.  EveryCallbackCloses needs fairness and is left to TLC.        *)
(***************************************************************************)
EXTENDS GepgInbox, TLAPS

\* The worker is at a callback exactly while it is not idle, and that callback
\* is claimed.
WorkerHasClaim ==
  /\ cur = NoEvent <=> phase = "idle"
  /\ cur # NoEvent => inbox[cur] = "processing"

\* What the handler has written and not committed comes from its callback.
BatchIsCarried == batch # {} => phase = "working" /\ batch \subseteq Carries[cur]

\* While the handler works every item of the callback is committed, about to
\* be, or still to come.
NothingSkipped ==
  phase = "working" => /\ left \subseteq Carries[cur]
                       /\ Carries[cur] \subseteq recorded \cup batch \cup left

AcceptedIsRecorded == phase = "accepted" => Carries[cur] \subseteq recorded

AcknowledgedIsKept == \A e \in acked : inbox[e] # "absent"

\* The inductive invariant.
IInv ==
  /\ TypeOK
  /\ WorkerHasClaim
  /\ BatchIsCarried
  /\ NothingSkipped
  /\ AcceptedIsRecorded
  /\ AcknowledgedIsKept
  /\ ProcessedIsRecorded

-----------------------------------------------------------------------------
LEMMA InitIInv == Init => IInv
BY ConstantsAssumption DEF Init, IInv, TypeOK, Closed, WorkerHasClaim,
   BatchIsCarried, NothingSkipped, AcceptedIsRecorded, AcknowledgedIsKept,
   ProcessedIsRecorded

\* A step that touches neither the worker nor what is recorded, and moves one
\* callback the worker is not at between statuses that are not closed.
LEMMA RowStep ==
  ASSUME IInv, NEW e \in Events, NEW st \in {"pending", "stale"},
         e # cur, inbox[e] \notin Closed,
         inbox' = [inbox EXCEPT ![e] = st], arrival' \in Seq(Events),
         UNCHANGED <<expired, acked, bills, recorded, workerVars, crashes>>
  PROVE  IInv'
<1> USE DEF IInv
<1>1. \A f \in Events : inbox'[f] = IF f = e THEN st ELSE inbox[f]
  BY DEF TypeOK
<1>2. TypeOK'
  BY DEF TypeOK, workerVars
<1>3. WorkerHasClaim'
  BY <1>1 DEF WorkerHasClaim, TypeOK, workerVars
<1>4. BatchIsCarried' /\ NothingSkipped' /\ AcceptedIsRecorded'
  BY DEF BatchIsCarried, NothingSkipped, AcceptedIsRecorded, workerVars
<1>5. AcknowledgedIsKept'
  BY <1>1 DEF AcknowledgedIsKept, TypeOK
<1>6. ProcessedIsRecorded'
  BY <1>1 DEF ProcessedIsRecorded
<1> QED
  BY <1>2, <1>3, <1>4, <1>5, <1>6

LEMMA WebhookStep ==
  ASSUME IInv, NEW e \in Events, Receive(e) \/ Acknowledge(e)
  PROVE  IInv'
<1>1. CASE Receive(e)
  <2>1. e # cur /\ inbox[e] \notin Closed
    BY <1>1, ConstantsAssumption DEF Receive, IInv, WorkerHasClaim, Closed, TypeOK
  <2>2. Append(arrival, e) \in Seq(Events)
    BY DEF IInv, TypeOK
  <2> QED
    BY <1>1, <2>1, <2>2, RowStep DEF Receive
<1>2. CASE Acknowledge(e)
  BY <1>2 DEF Acknowledge, IInv, TypeOK, WorkerHasClaim, BatchIsCarried, NothingSkipped,
     AcceptedIsRecorded, AcknowledgedIsKept, ProcessedIsRecorded, workerVars, rowVars
<1> QED
  BY <1>1, <1>2

LEMMA ClockStep ==
  ASSUME IInv, NEW e \in Events, BackOffEnds(e) \/ GrowStale(e) \/ Expire(e)
  PROVE  IInv'
<1>1. CASE BackOffEnds(e)
  <2>1. e # cur /\ inbox[e] \notin Closed
    BY <1>1, ConstantsAssumption DEF BackOffEnds, IInv, WorkerHasClaim, Closed, TypeOK
  <2> QED
    BY <1>1, <2>1, RowStep DEF BackOffEnds, IInv, TypeOK
<1>2. CASE GrowStale(e)
  <2>1. e # cur /\ inbox[e] \notin Closed
    BY <1>2 DEF GrowStale, Closed
  <2> QED
    BY <1>2, <2>1, RowStep DEF GrowStale, IInv, TypeOK
<1>3. CASE Expire(e)
  BY <1>3 DEF Expire, IInv, TypeOK, WorkerHasClaim, BatchIsCarried, NothingSkipped,
     AcceptedIsRecorded, AcknowledgedIsKept, ProcessedIsRecorded, workerVars, rowVars
<1> QED
  BY <1>1, <1>2, <1>3

LEMMA CommitBillStep ==
  ASSUME IInv, NEW b \in Bills, CommitBill(b)
  PROVE  IInv'
BY DEF CommitBill, IInv, TypeOK, WorkerHasClaim, BatchIsCarried, NothingSkipped,
   AcceptedIsRecorded, AcknowledgedIsKept, ProcessedIsRecorded, workerVars, rowVars

\* The oldest callback that is due: what a claim takes.
LEMMA ClaimTakes ==
  ASSUME IInv, Claim
  PROVE  \E e \in Events :
           /\ Due(e)
           /\ inbox' = [inbox EXCEPT ![e] = "processing"]
           /\ cur' = e
           /\ left' = Carries[e]
<1>1. PICK k \in DOMAIN arrival :
        /\ Due(arrival[k])
        /\ inbox' = [inbox EXCEPT ![arrival[k]] = "processing"]
        /\ cur' = arrival[k]
        /\ left' = Carries[arrival[k]]
  BY DEF Claim
<1>2. arrival[k] \in Events
  BY DEF IInv, TypeOK
<1> QED
  BY <1>1, <1>2

LEMMA ClaimStep ==
  ASSUME IInv, Claim
  PROVE  IInv'
<1> USE DEF IInv
<1>1. PICK e \in Events : /\ Due(e)
                          /\ inbox' = [inbox EXCEPT ![e] = "processing"]
                          /\ cur' = e
                          /\ left' = Carries[e]
  BY ClaimTakes
<1>2. \A f \in Events : inbox'[f] = IF f = e THEN "processing" ELSE inbox[f]
  BY <1>1 DEF TypeOK
<1>3. phase' = "working" /\ batch' = {}
      /\ UNCHANGED <<arrival, expired, acked, bills, recorded, crashes>>
  BY DEF Claim
<1>4. left' \subseteq Items
  BY <1>1, ConstantsAssumption
<1>5. TypeOK'
  BY <1>1, <1>3, <1>4 DEF TypeOK
<1>6. WorkerHasClaim'
  BY <1>1, <1>2, <1>3, ConstantsAssumption DEF WorkerHasClaim
<1>7. BatchIsCarried' /\ NothingSkipped' /\ AcceptedIsRecorded'
  BY <1>1, <1>3 DEF BatchIsCarried, NothingSkipped, AcceptedIsRecorded
<1>8. AcknowledgedIsKept' /\ ProcessedIsRecorded'
  BY <1>2, <1>3 DEF AcknowledgedIsKept, ProcessedIsRecorded, TypeOK
<1> QED
  BY <1>5, <1>6, <1>7, <1>8

\* The rows and the queue stay as they are while the handler runs.
LEMMA HandlerKeepsRows ==
  ASSUME IInv, UNCHANGED <<rowVars, acked>>, recorded \subseteq recorded'
  PROVE  AcknowledgedIsKept' /\ ProcessedIsRecorded'
BY DEF IInv, AcknowledgedIsKept, ProcessedIsRecorded, rowVars

LEMMA ApplyStep ==
  ASSUME IInv, NEW i \in Items, ApplyItem(i)
  PROVE  IInv'
<1> USE DEF IInv
<1>0. phase = "working" /\ cur # NoEvent /\ i \in Carries[cur]
  BY DEF ApplyItem, Working, WorkerHasClaim, NothingSkipped
<1>1. recorded \subseteq recorded' /\ UNCHANGED <<rowVars, acked, cur, phase>>
      /\ left' = left \ {i}
      /\ recorded' \cup batch' = recorded \cup batch \cup {i}
      /\ batch' \subseteq batch \cup {i}
  BY DEF ApplyItem
<1>2. TypeOK'
  BY <1>1 DEF ApplyItem, TypeOK, rowVars
<1>3. WorkerHasClaim'
  BY <1>1 DEF WorkerHasClaim, rowVars
<1>4. BatchIsCarried'
  BY <1>0, <1>1 DEF BatchIsCarried
<1>5. NothingSkipped'
  BY <1>0, <1>1 DEF NothingSkipped
<1>6. AcceptedIsRecorded'
  BY <1>0, <1>1 DEF AcceptedIsRecorded
<1> QED
  BY <1>1, <1>2, <1>3, <1>4, <1>5, <1>6, HandlerKeepsRows

\* The handler ends: its transaction commits or not, and an acceptance means
\* that nothing is missing.
LEMMA EndStep ==
  ASSUME IInv, phase = "working",
         NEW verdict \in {"accepted", "rejected", "error"},
         phase' = verdict, left' = {}, batch' = {},
         recorded' = recorded \cup batch \/ recorded' = recorded,
         verdict = "accepted" => Carries[cur] \subseteq recorded',
         UNCHANGED <<rowVars, expired, acked, bills, cur, crashes>>
  PROVE  IInv'
<1> USE DEF IInv
<1>1. TypeOK'
  BY DEF TypeOK, rowVars
<1>2. WorkerHasClaim'
  BY DEF WorkerHasClaim, rowVars
<1>3. BatchIsCarried' /\ NothingSkipped' /\ AcceptedIsRecorded'
  BY DEF BatchIsCarried, NothingSkipped, AcceptedIsRecorded
<1> QED
  BY <1>1, <1>2, <1>3, HandlerKeepsRows

LEMMA AnswerStep ==
  ASSUME IInv, phase = "working", Refuse \/ Malformed \/ InternalError \/ Finish
  PROVE  IInv'
<1>1. ASSUME NEW verdict \in {"rejected"}, Answer(verdict) PROVE IInv'
  BY <1>1, EndStep DEF Answer
<1>2. ASSUME NEW verdict \in {"rejected", "error"}, RollBack(verdict) PROVE IInv'
  BY <1>2, EndStep DEF RollBack
<1>3. ASSUME left = {}, Answer("accepted") PROVE IInv'
  <2>1. Carries[cur] \subseteq recorded \cup batch
    BY <1>3 DEF IInv, NothingSkipped
  <2> QED
    BY <1>3, <2>1, EndStep DEF Answer
<1> QED
  BY <1>1, <1>2, <1>3 DEF Refuse, Malformed, InternalError, Finish, Raise

LEMMA SaveStep ==
  ASSUME IInv, Save
  PROVE  IInv'
<1> USE DEF IInv
<1>0. cur \in Events /\ phase # "idle" /\ phase # "working" /\ batch = {}
  BY DEF Save, WorkerHasClaim, TypeOK, BatchIsCarried
<1> DEFINE st == CASE phase = "accepted"                    -> "processed"
                   [] phase = "error" /\ cur \notin expired -> "waiting"
                   [] OTHER                                 -> "failed"
<1>1. /\ inbox' = [inbox EXCEPT ![cur] = st]
      /\ cur' = NoEvent /\ phase' = "idle"
      /\ UNCHANGED <<arrival, expired, acked, bills, recorded, left, batch, crashes>>
  BY DEF Save
<1>2. st \in {"processed", "waiting", "failed"}
      /\ (st = "processed" => phase = "accepted")
  OBVIOUS
<1> HIDE DEF st
<1>3. \A f \in Events : inbox'[f] = IF f = cur THEN st ELSE inbox[f]
  BY <1>0, <1>1 DEF TypeOK
<1>4. TypeOK'
  BY <1>0, <1>1, <1>2 DEF TypeOK, Closed
<1>5. WorkerHasClaim' /\ BatchIsCarried' /\ NothingSkipped' /\ AcceptedIsRecorded'
  BY <1>0, <1>1 DEF WorkerHasClaim, BatchIsCarried, NothingSkipped, AcceptedIsRecorded
<1>6. AcknowledgedIsKept'
  BY <1>1, <1>2, <1>3 DEF AcknowledgedIsKept, TypeOK
<1>7. ProcessedIsRecorded'
  BY <1>0, <1>1, <1>2, <1>3 DEF ProcessedIsRecorded, AcceptedIsRecorded
<1> QED
  BY <1>4, <1>5, <1>6, <1>7

LEMMA CrashStep ==
  ASSUME IInv, Crash
  PROVE  IInv'
<1> USE DEF IInv, Crash, rowVars
<1>1. crashes' \in 0..MaxCrashes
  BY ConstantsAssumption DEF TypeOK
<1>2. TypeOK'
  BY <1>1 DEF TypeOK
<1>3. WorkerHasClaim' /\ BatchIsCarried' /\ NothingSkipped' /\ AcceptedIsRecorded'
  BY DEF WorkerHasClaim, BatchIsCarried, NothingSkipped, AcceptedIsRecorded
<1>4. AcknowledgedIsKept' /\ ProcessedIsRecorded'
  BY DEF AcknowledgedIsKept, ProcessedIsRecorded
<1> QED
  BY <1>2, <1>3, <1>4

LEMMA NextIInv == IInv /\ [Next]_vars => IInv'
<1> SUFFICES ASSUME IInv, [Next]_vars PROVE IInv'
  OBVIOUS
<1>1. CASE Webhook
  BY <1>1, WebhookStep DEF Webhook
<1>2. CASE Worker
  <2>1. CASE Claim
    BY <2>1, ClaimStep
  <2>2. CASE \E i \in Items : ApplyItem(i)
    BY <2>2, ApplyStep
  <2>3. CASE Refuse \/ Malformed \/ InternalError \/ Finish
    BY <2>3, AnswerStep DEF Refuse, Malformed, InternalError, Finish, Working
  <2>4. CASE Save
    BY <2>4, SaveStep
  <2> QED
    BY <1>2, <2>1, <2>2, <2>3, <2>4 DEF Worker
<1>3. CASE Crash
  BY <1>3, CrashStep
<1>4. CASE Clock
  BY <1>4, ClockStep DEF Clock
<1>5. CASE \E b \in Bills : CommitBill(b)
  BY <1>5, CommitBillStep
<1>6. CASE UNCHANGED vars
  BY <1>6 DEF vars, IInv, TypeOK, WorkerHasClaim, BatchIsCarried, NothingSkipped,
     AcceptedIsRecorded, AcknowledgedIsKept, ProcessedIsRecorded, workerVars, rowVars
<1> QED
  BY <1>1, <1>2, <1>3, <1>4, <1>5, <1>6 DEF Next

LEMMA Invariance == Spec => []IInv
BY InitIInv, NextIInv, PTL DEF Spec

-----------------------------------------------------------------------------
(* What a step does to the rows.                                           *)

\* A step leaves the rows alone, or moves one callback that is not closed; the
\* callback becomes processed only from an accepted answer.
LEMMA RowMoves ==
  ASSUME IInv, Next, ~ UNCHANGED inbox
  PROVE  \E e \in Events, st \in {"pending", "waiting", "processing", "stale"} \cup Closed :
           /\ inbox[e] \notin Closed
           /\ inbox' = [inbox EXCEPT ![e] = st]
           /\ inbox[e] = "absent" => st = "pending"
           /\ st = "processed" => Carries[e] \subseteq recorded
           /\ UNCHANGED <<acked, recorded>>
<1>1. ASSUME NEW e \in Events, Receive(e) \/ BackOffEnds(e) \/ GrowStale(e)
      PROVE  /\ inbox[e] \notin Closed
             /\ UNCHANGED <<acked, recorded>>
             /\ \/ inbox' = [inbox EXCEPT ![e] = "pending"]
                \/ inbox[e] # "absent" /\ inbox' = [inbox EXCEPT ![e] = "stale"]
  BY <1>1 DEF Receive, BackOffEnds, GrowStale, Closed
<1>2. CASE Claim
  <2>1. PICK e \in Events : Due(e) /\ inbox' = [inbox EXCEPT ![e] = "processing"]
    BY <1>2, ClaimTakes
  <2>2. inbox[e] \notin Closed /\ inbox[e] # "absent"
    BY <2>1 DEF Due, Closed
  <2>3. UNCHANGED <<acked, recorded>>
    BY <1>2 DEF Claim
  <2> QED
    BY <2>1, <2>2, <2>3
<1>3. CASE Save
  <2>1. cur \in Events /\ inbox[cur] = "processing"
    BY <1>3 DEF Save, IInv, TypeOK, WorkerHasClaim
  <2>2. \E st \in {"processed", "waiting", "failed"} :
          /\ inbox' = [inbox EXCEPT ![cur] = st]
          /\ st = "processed" => phase = "accepted"
    BY <1>3 DEF Save
  <2>3. UNCHANGED <<acked, recorded>>
    BY <1>3 DEF Save
  <2> QED
    BY <2>1, <2>2, <2>3 DEF IInv, AcceptedIsRecorded, Closed
<1>4. (\E e \in Events : Receive(e) \/ BackOffEnds(e) \/ GrowStale(e)) \/ Claim \/ Save
  BY DEF Next, Webhook, Worker, Clock, Acknowledge, ApplyItem, Refuse, Malformed, InternalError,
     Finish, Answer, Raise, RollBack, Crash, Expire, CommitBill, rowVars
<1>5. CASE \E e \in Events : Receive(e) \/ BackOffEnds(e) \/ GrowStale(e)
  BY <1>1, <1>5 DEF Closed
<1> QED
  BY <1>2, <1>3, <1>4, <1>5

-----------------------------------------------------------------------------
(* The theorems.                                                           *)

\* Every reachable state is well typed.
THEOREM InboxTypeCorrect == Spec => []TypeOK
BY Invariance, PTL DEF IInv

\* A callback marked processed has been recorded in full: no crash between the
\* handler's commit and the mark, and no refused item, makes the mark a lie.
THEOREM ProcessedCallbacksAreRecorded == Spec => []ProcessedIsRecorded
BY Invariance, PTL DEF IInv

\* No step reopens a callback that is processed or failed.
THEOREM CallbacksCloseForGood == Spec => ClosedForGood
<1>1. IInv /\ [Next]_vars =>
        [\A e \in Events : inbox[e] \in Closed => inbox'[e] = inbox[e]]_vars
  <2> SUFFICES ASSUME IInv, Next, NEW f \in Events, inbox[f] \in Closed
               PROVE  inbox'[f] = inbox[f]
    OBVIOUS
  <2>1. CASE UNCHANGED inbox
    BY <2>1
  <2>2. CASE ~ UNCHANGED inbox
    <3>1. PICK e \in Events : \E st : /\ inbox[e] \notin Closed
                                     /\ inbox' = [inbox EXCEPT ![e] = st]
      BY <2>2, RowMoves
    <3> QED
      BY <3>1 DEF IInv, TypeOK
  <2> QED
    BY <2>1, <2>2
<1> QED
  BY <1>1, Invariance, PTL DEF Spec, ClosedForGood

-----------------------------------------------------------------------------
(* The inbox implements EventFeed.                                         *)

LEMMA FeedInit == Init => FeedView!Init
BY DEF Init, FeedView!Init, Progress

\* A step that keeps the rows keeps the progress.
LEMMA SameProgress ==
  ASSUME UNCHANGED inbox
  PROVE  [e \in Events |-> Progress(e)]' = [e \in Events |-> Progress(e)]
BY DEF Progress

\* A step that moves a row is a step of the feed.
LEMMA MoveStep ==
  ASSUME IInv, Next, ~ UNCHANGED inbox
  PROVE  [FeedView!Next]_(FeedView!vars)
<1>1. PICK e \in Events, st \in {"pending", "waiting", "processing", "stale"} \cup Closed :
        /\ inbox[e] \notin Closed
        /\ inbox' = [inbox EXCEPT ![e] = st]
        /\ inbox[e] = "absent" => st = "pending"
        /\ st = "processed" => Carries[e] \subseteq recorded
        /\ UNCHANGED <<acked, recorded>>
  BY RowMoves
<1> DEFINE p  == [f \in Events |-> Progress(f)]
           pn == CASE st = "processed" -> "done"
                   [] st = "failed"    -> "review"
                   [] OTHER            -> "kept"
<1>2. \A f \in Events : inbox'[f] = IF f = e THEN st ELSE inbox[f]
  BY <1>1 DEF IInv, TypeOK
<1>3. p' = [p EXCEPT ![e] = pn]
  <2>1. \A f \in Events : Progress(f)' = IF f = e THEN pn ELSE Progress(f)
    BY <1>1, <1>2 DEF Progress, Closed
  <2> QED
    BY <2>1
<1>4. CASE inbox[e] = "absent"
  <2>1. FeedView!Keep(e)
    BY <1>1, <1>3, <1>4 DEF FeedView!Keep, Progress
  <2> QED
    BY <2>1 DEF FeedView!Next
<1>5. CASE inbox[e] # "absent"
  <2>1. p[e] = "kept"
    BY <1>1, <1>5 DEF Progress, Closed
  <2>2. CASE st \in Closed
    <3>1. FeedView!Close(e)
      BY <1>1, <1>3, <2>1, <2>2 DEF FeedView!Close, Closed
    <3> QED
      BY <3>1 DEF FeedView!Next
  <2>3. CASE st \notin Closed
    <3>1. p' = p
      BY <1>3, <2>1, <2>3 DEF Closed
    <3> QED
      BY <1>1, <3>1 DEF FeedView!vars
  <2> QED
    BY <2>2, <2>3
<1> QED
  BY <1>4, <1>5

\* What the handler commits is carried by the callback it is at.
LEMMA CommitStep ==
  ASSUME IInv, phase = "working", NEW items \in SUBSET Carries[cur],
         recorded' = recorded \cup items, UNCHANGED <<inbox, acked>>
  PROVE  [FeedView!Next]_(FeedView!vars)
<1>1. cur \in Events /\ inbox[cur] = "processing"
  BY DEF IInv, TypeOK, WorkerHasClaim
<1>2. FeedView!Record(cur)
  BY <1>1, SameProgress DEF FeedView!Record, Progress
<1> QED
  BY <1>1, <1>2 DEF FeedView!Next

LEMMA FeedStep == IInv /\ [Next]_vars => [FeedView!Next]_(FeedView!vars)
<1> SUFFICES ASSUME IInv, [Next]_vars PROVE [FeedView!Next]_(FeedView!vars)
  OBVIOUS
<1>0. CASE UNCHANGED <<inbox, acked, recorded>>
  BY <1>0, SameProgress DEF FeedView!vars
<1>1. CASE Next /\ ~ UNCHANGED inbox
  BY <1>1, MoveStep
<1>2. CASE \E e \in Events : Acknowledge(e)
  <2>1. PICK e \in Events : Acknowledge(e)
    BY <1>2
  <2>2. FeedView!Promise(e)
    BY <2>1, SameProgress DEF Acknowledge, rowVars, FeedView!Promise, Progress
  <2> QED
    BY <2>2 DEF FeedView!Next
<1>3. CASE \E i \in Items : ApplyItem(i)
  <2>1. PICK i \in Items : ApplyItem(i)
    BY <1>3
  <2>2. phase = "working" /\ {i} \subseteq Carries[cur] /\ UNCHANGED <<inbox, acked>>
        /\ (recorded' = recorded \cup {i} \/ recorded' = recorded)
    BY <2>1 DEF ApplyItem, Working, rowVars, IInv, NothingSkipped
  <2> QED
    BY <1>0, <2>2, CommitStep
<1>4. CASE Refuse \/ Malformed \/ InternalError \/ Finish
  <2>1. phase = "working" /\ UNCHANGED <<inbox, acked>>
        /\ (recorded' = recorded \cup batch \/ recorded' = recorded)
    BY <1>4 DEF Refuse, Malformed, InternalError, Finish, Raise, RollBack, Answer, Working, rowVars
  <2>2. batch \subseteq Carries[cur]
    BY DEF IInv, BatchIsCarried
  <2> QED
    BY <1>0, <2>1, <2>2, CommitStep
<1>5. CASE Claim \/ Save
  BY <1>1, <1>5, <1>0 DEF Claim, Save, Next, Worker
<1>6. CASE Crash \/ Clock \/ \E b \in Bills : CommitBill(b)
  BY <1>0, <1>1, <1>6 DEF Crash, Clock, BackOffEnds, GrowStale, Expire, CommitBill, Next, rowVars
<1>7. CASE \E e \in Events : Receive(e)
  BY <1>0, <1>1, <1>7 DEF Receive, Next, Webhook
<1>8. CASE UNCHANGED vars
  BY <1>0, <1>8 DEF vars, rowVars
<1> QED
  BY <1>2, <1>3, <1>4, <1>5, <1>6, <1>7, <1>8 DEF Next, Webhook, Worker

\* Whatever is redelivered, retried, abandoned or rolled back, the gateway sees
\* a feed that keeps what it acknowledged and records only from open callbacks.
THEOREM InboxImplementsFeed == Spec => ImplementsFeed
<1>1. IInv /\ [Next]_vars => [FeedView!Next]_(FeedView!vars)
  BY FeedStep
<1> QED
  BY <1>1, FeedInit, Invariance, PTL DEF Spec, ImplementsFeed, FeedView!Spec

-----------------------------------------------------------------------------
(* The feed alone already promises it.                                     *)

LEMMA ProgressIsStatus ==
  \A e \in Events : Progress(e) = "done" <=> inbox[e] = "processed"
BY DEF Progress

LEMMA FeedKeepsRecord ==
  ASSUME ProcessedIsRecorded, [FeedView!Next]_(FeedView!vars)
  PROVE  ProcessedIsRecorded'
<1> DEFINE p == [e \in Events |-> Progress(e)]
<1>0. \A e \in Events : /\ p[e] = "done" <=> inbox[e] = "processed"
                        /\ p'[e] = "done" <=> inbox'[e] = "processed"
  BY DEF Progress
<1>1. recorded \subseteq recorded'
  BY DEF FeedView!Next, FeedView!vars, FeedView!Keep, FeedView!Promise, FeedView!Record,
         FeedView!Close
<1>2. CASE UNCHANGED p
  BY <1>0, <1>1, <1>2 DEF ProcessedIsRecorded
<1>3. CASE \E e \in Events : FeedView!Keep(e) \/ FeedView!Close(e)
  <2>1. PICK e \in Events, new \in {"kept", "done", "review"} :
          /\ p' = [p EXCEPT ![e] = new]
          /\ new = "done" => Carries[e] \subseteq recorded
    BY <1>3 DEF FeedView!Keep, FeedView!Close
  <2>2. \A f \in Events : p'[f] = IF f = e THEN new ELSE p[f]
    BY <2>1
  <2> QED
    BY <1>0, <1>1, <2>1, <2>2 DEF ProcessedIsRecorded
<1> QED
  BY <1>2, <1>3 DEF FeedView!Next, FeedView!vars, FeedView!Promise, FeedView!Record

\* What EventFeed says is enough: callbacks that evolve as the feed allows, by
\* whatever worker, are marked processed only when all they carry is recorded.
THEOREM FeedIsRecorded == FeedView!Spec => []ProcessedIsRecorded
<1>1. FeedView!Init => ProcessedIsRecorded
  BY DEF FeedView!Init, ProcessedIsRecorded, Progress
<1> QED
  BY <1>1, FeedKeepsRecord, PTL DEF FeedView!Spec

-----------------------------------------------------------------------------
(* The queue, and its end.  EveryCallbackCloses rests on these two facts;  *)
(* what it adds, that a step which can be taken is taken, is TLC's.        *)

Queued(e) == \E k \in DOMAIN arrival : arrival[k] = e

\* The callbacks kept are those in the queue, each once.
QueueIsExact ==
  /\ \A e \in Events : inbox[e] # "absent" <=> Queued(e)
  /\ \A j, k \in DOMAIN arrival : arrival[j] = arrival[k] => j = k

LEMMA ReceiveQueues ==
  ASSUME IInv, QueueIsExact, NEW e \in Events, Receive(e)
  PROVE  QueueIsExact'
<1> USE DEF QueueIsExact, Queued
<1>1. arrival \in Seq(Events) /\ Len(arrival) \in Nat /\ DOMAIN arrival = 1 .. Len(arrival)
  BY DEF IInv, TypeOK
<1>2. /\ DOMAIN arrival' = 1 .. Len(arrival) + 1
      /\ arrival'[Len(arrival) + 1] = e
      /\ \A k \in DOMAIN arrival : arrival'[k] = arrival[k]
  BY <1>1 DEF Receive
<1>3. DOMAIN arrival' = DOMAIN arrival \cup {Len(arrival) + 1}
      /\ Len(arrival) + 1 \notin DOMAIN arrival
  BY <1>1, <1>2
<1>4. \A f \in Events : inbox'[f] = IF f = e THEN "pending" ELSE inbox[f]
  BY DEF Receive, IInv, TypeOK
<1>5. \A k \in DOMAIN arrival : arrival[k] # e
  BY DEF Receive
<1>6. \A f \in Events : inbox'[f] # "absent" <=> Queued(f)'
  <2> SUFFICES ASSUME NEW f \in Events PROVE inbox'[f] # "absent" <=> Queued(f)'
    OBVIOUS
  <2>1. Queued(f)' <=> Queued(f) \/ f = e
    BY <1>2, <1>3
  <2>2. inbox'[f] # "absent" <=> inbox[f] # "absent" \/ f = e
    BY <1>4
  <2> QED
    BY <2>1, <2>2
<1>7. \A j, k \in DOMAIN arrival' : arrival'[j] = arrival'[k] => j = k
  BY <1>2, <1>3, <1>5
<1> QED
  BY <1>6, <1>7

\* However often a callback is delivered and whenever the worker dies, it has
\* one row, and every row is in the queue the worker claims from.
THEOREM EachCallbackHasOneRow == Spec => []QueueIsExact
<1>1. Init => QueueIsExact
  BY DEF Init, QueueIsExact, Queued
<1>2. IInv /\ QueueIsExact /\ [Next]_vars => QueueIsExact'
  <2> SUFFICES ASSUME IInv, QueueIsExact, [Next]_vars PROVE QueueIsExact'
    OBVIOUS
  <2>1. CASE \E e \in Events : Receive(e)
    BY <2>1, ReceiveQueues
  <2>2. CASE ~ \E e \in Events : Receive(e)
    <3>1. arrival' = arrival
      BY <2>2 DEF Next, Webhook, Worker, Clock, Acknowledge, Claim, ApplyItem, Refuse, Malformed,
         InternalError, Finish, Answer, Raise, RollBack, Save, Crash, BackOffEnds, GrowStale,
         Expire, CommitBill, rowVars, vars
    <3>2. \A f \in Events : inbox'[f] # "absent" <=> inbox[f] # "absent"
      <4>1. CASE UNCHANGED inbox
        BY <4>1
      <4>2. CASE ~ UNCHANGED inbox
        <5>1. Next
          BY <4>2 DEF vars, rowVars
        <5>2. PICK e \in Events : \E st : /\ inbox' = [inbox EXCEPT ![e] = st]
                                         /\ inbox[e] # "absent" /\ st # "absent"
          <6>1. \A e \in Events : inbox[e] = "absent" =>
                  inbox' # [inbox EXCEPT ![e] = "pending"]
            BY <5>1, <2>2 DEF Next, Webhook, Worker, Clock, Acknowledge, Claim, ApplyItem,
               Refuse, Malformed, InternalError, Finish, Answer, Raise, RollBack, Save, Crash,
               BackOffEnds, GrowStale, Expire, CommitBill, rowVars, IInv, TypeOK, Due,
               WorkerHasClaim
          <6> QED
            BY <4>2, <5>1, <6>1, RowMoves DEF Closed
        <5> QED
          BY <5>2 DEF IInv, TypeOK
      <4> QED
        BY <4>1, <4>2
    <3> QED
      BY <3>1, <3>2 DEF QueueIsExact, Queued
  <2> QED
    BY <2>1, <2>2
<1> QED
  BY <1>1, <1>2, Invariance, PTL DEF Spec

\* How far an expired callback is from its end: with the worker, due, or before
\* that.
Distance(e) == CASE inbox[e] \in Closed                -> 0
                 [] inbox[e] = "processing" /\ cur = e -> 1
                 [] Due(e)                             -> 2
                 [] OTHER                              -> 3

\* The changes of status it may still see: each crash still possible costs three.
MovesLeft(e) == 3 * (MaxCrashes - crashes) + Distance(e)

\* Every change of status of an expired callback uses up one of those it has
\* left, and nothing gives any back.
ExpiredWindsDown ==
  [][\A e \in expired : /\ MovesLeft(e)' <= MovesLeft(e)
                        /\ inbox'[e] # inbox[e] => MovesLeft(e)' < MovesLeft(e)]_vars

LEMMA DistanceType == \A e \in Events : Distance(e) \in 0 .. 3
BY DEF Distance

\* A step on an expired callback, seen from that callback.
LEMMA DistanceStep ==
  ASSUME IInv, Next, NEW e \in expired, ~ Crash
  PROVE  /\ crashes' = crashes
         /\ Distance(e)' <= Distance(e)
         /\ inbox'[e] # inbox[e] => Distance(e)' < Distance(e)
<1> USE DEF IInv
<1>1. e \in Events /\ crashes' = crashes
  BY DEF TypeOK, Next, Webhook, Worker, Clock, Receive, Acknowledge, Claim, ApplyItem, Refuse,
     Malformed, InternalError, Finish, Answer, Raise, RollBack, Save, BackOffEnds, GrowStale,
     Expire, CommitBill
<1>2. Distance(e) \in 0 .. 3 /\ Distance(e)' \in 0 .. 3
  BY <1>1, DistanceType DEF Distance
<1>3. CASE UNCHANGED <<inbox, cur>>
  <2>1. Distance(e)' = Distance(e)
    BY <1>3 DEF Distance, Due
  <2> QED
    BY <1>1, <1>2, <1>3, <2>1
<1>4. ASSUME NEW f \in Events, UNCHANGED cur, f # cur, inbox[f] \notin Closed,
             \/ /\ inbox[f] \in {"absent", "waiting"}
                /\ inbox' = [inbox EXCEPT ![f] = "pending"]
             \/ inbox[f] = "processing" /\ inbox' = [inbox EXCEPT ![f] = "stale"]
      PROVE  Distance(e)' <= Distance(e) /\ (inbox'[e] # inbox[e] => Distance(e)' < Distance(e))
  <2>1. CASE e # f
    <3>1. inbox'[e] = inbox[e]
      BY <1>1, <1>4, <2>1 DEF TypeOK
    <3>2. Distance(e)' = Distance(e)
      BY <1>4, <3>1 DEF Distance, Due
    <3> QED
      BY <1>2, <3>1, <3>2
  <2>2. CASE e = f
    <3>1. Distance(e) = 3
      BY <1>4, <2>2 DEF Distance, Due, Closed
    <3>2. inbox'[e] \in {"pending", "stale"}
      BY <1>4, <2>2 DEF TypeOK
    <3>3. Distance(e)' = 2
      BY <3>2 DEF Distance, Due, Closed
    <3> QED
      BY <3>1, <3>3
  <2> QED
    BY <2>1, <2>2
<1>5. CASE Claim
  <2>1. PICK f \in Events : Due(f) /\ inbox' = [inbox EXCEPT ![f] = "processing"] /\ cur' = f
    BY <1>5, ClaimTakes
  <2>2. CASE e # f
    <3>1. inbox'[e] = inbox[e] /\ cur # e /\ cur' # e
      BY <1>1, <1>5, <2>1, <2>2, ConstantsAssumption DEF TypeOK, Claim
    <3>2. Distance(e)' = Distance(e)
      BY <3>1 DEF Distance, Due
    <3> QED
      BY <1>1, <1>2, <3>1, <3>2
  <2>3. CASE e = f
    <3>1. Distance(e) = 2
      BY <2>1, <2>3 DEF Distance, Due, Closed
    <3>2. inbox'[e] = "processing" /\ cur' = e
      BY <1>1, <2>1, <2>3 DEF TypeOK
    <3>3. Distance(e)' = 1
      BY <3>2 DEF Distance, Due, Closed
    <3> QED
      BY <1>1, <3>1, <3>3
  <2> QED
    BY <2>2, <2>3
<1>6. CASE Save
  <2>1. /\ cur \in Events /\ inbox[cur] = "processing" /\ cur' = NoEvent
        /\ \E st \in {"processed", "waiting", "failed"} :
             /\ inbox' = [inbox EXCEPT ![cur] = st]
             /\ st = "waiting" => cur \notin expired
    BY <1>6 DEF Save, TypeOK, WorkerHasClaim
  <2>2. CASE e # cur
    <3>1. inbox'[e] = inbox[e] /\ cur' # e
      BY <1>1, <2>1, <2>2, ConstantsAssumption DEF TypeOK
    <3>2. Distance(e)' = Distance(e)
      BY <2>2, <3>1 DEF Distance, Due
    <3> QED
      BY <1>1, <1>2, <3>1, <3>2
  <2>3. CASE e = cur
    <3>1. Distance(e) = 1
      BY <2>1, <2>3 DEF Distance, Due, Closed
    <3>2. inbox'[e] \in Closed
      BY <1>1, <2>1, <2>3 DEF TypeOK, Closed
    <3>3. Distance(e)' = 0
      BY <3>2 DEF Distance, Due, Closed
    <3> QED
      BY <1>1, <3>1, <3>3
  <2> QED
    BY <2>2, <2>3
<1>7. CASE \E f \in Events : Receive(f) \/ BackOffEnds(f) \/ GrowStale(f)
  <2>1. PICK f \in Events : Receive(f) \/ BackOffEnds(f) \/ GrowStale(f)
    BY <1>7
  <2>2. UNCHANGED cur /\ f # cur /\ inbox[f] \notin Closed
    BY <2>1, ConstantsAssumption
       DEF Receive, BackOffEnds, GrowStale, workerVars, TypeOK, WorkerHasClaim, Closed
  <2> QED
    BY <1>1, <1>4, <2>1, <2>2 DEF Receive, BackOffEnds, GrowStale
<1> QED
  BY <1>3, <1>5, <1>6, <1>7 DEF Next, Webhook, Worker, Clock, Acknowledge, ApplyItem, Refuse,
     Malformed, InternalError, Finish, Answer, Raise, RollBack, Expire, CommitBill, rowVars,
     workerVars

\* An expired callback does not circulate: with at most MaxCrashes crashes to
\* come its status changes a bounded number of times, and then it is closed for
\* good or waits for a step that someone has to take.
THEOREM ExpiredCallbacksWindDown ==
  Spec => /\ [](\A e \in Events : MovesLeft(e) \in Nat)
          /\ ExpiredWindsDown
<1>1. IInv => \A e \in Events : MovesLeft(e) \in Nat
  <2> SUFFICES ASSUME IInv, NEW e \in Events PROVE MovesLeft(e) \in Nat
    OBVIOUS
  <2>1. MaxCrashes - crashes \in Nat /\ Distance(e) \in Nat
    BY DistanceType, ConstantsAssumption DEF IInv, TypeOK
  <2> QED
    BY <2>1 DEF MovesLeft
<1>2. IInv /\ [Next]_vars =>
        [\A e \in expired : /\ MovesLeft(e)' <= MovesLeft(e)
                            /\ inbox'[e] # inbox[e] => MovesLeft(e)' < MovesLeft(e)]_vars
  <2> SUFFICES ASSUME IInv, Next, NEW e \in expired
               PROVE  /\ MovesLeft(e)' <= MovesLeft(e)
                      /\ inbox'[e] # inbox[e] => MovesLeft(e)' < MovesLeft(e)
    OBVIOUS
  <2>1. /\ e \in Events /\ MaxCrashes \in Nat /\ crashes \in Nat
        /\ Distance(e) \in 0 .. 3 /\ Distance(e)' \in 0 .. 3
    BY DistanceType, ConstantsAssumption DEF IInv, TypeOK, Distance
  <2>2. CASE Crash
    <3>1. crashes' = crashes + 1 /\ inbox' = inbox
      BY <2>2 DEF Crash, rowVars
    <3>2. Distance(e)' <= Distance(e) + 2
      <4>1. Distance(e) = 0 => Distance(e)' = 0
        BY <3>1 DEF Distance, Due, Closed
      <4> QED
        BY <2>1, <4>1
    <3>3. 3 * (MaxCrashes - crashes') = 3 * (MaxCrashes - crashes) - 3
      BY <2>1, <3>1
    <3> QED
      BY <2>1, <3>1, <3>2, <3>3 DEF MovesLeft
  <2>3. CASE ~ Crash
    BY <2>1, <2>3, DistanceStep DEF MovesLeft
  <2> QED
    BY <2>2, <2>3
<1> QED
  BY <1>1, <1>2, Invariance, PTL DEF Spec, ExpiredWindsDown
=============================================================================
