--------------------------- MODULE GepgOutboxProofs ---------------------------
(***************************************************************************)
(* Theorems about GepgOutbox for any number of submissions and crashes.    *)
(* EverySubmissionCloses needs fairness and is left to TLC.                *)
(***************************************************************************)
EXTENDS GepgOutbox, TLAPS

\* How far the worker is shows in the row it has claimed.
WorkerHasClaim ==
  /\ at = NoRequest <=> phase = "idle"
  /\ phase = "sending" => outbox[at] = "sending"
  /\ phase \in {"exhausted", "again"} => outbox[at] = "exhausted"
  /\ phase \in Answers => outbox[at] = Verdict(phase)

\* A submission is invisible until the web request that sends it commits.
UncommittedIsAbsent ==
  \A r \in Requests : web[r].pc # "over" => outbox[r] = "absent"

\* AcceptedIsBackedUp without the submission the worker has closed and not yet
\* recorded: recording may fail, and the row is then rejected.
BackedUpByAnother ==
  bill.code = "accepted" =>
    \E r \in Requests : \/ outbox[r] \in Acknowledged /\ r # at
                        \/ callback[r] = "spent"

\* Which answers accept is a list of codes.
USE DEF Acknowledged

\* The inductive invariant.
IInv == TypeOK /\ WorkerHasClaim /\ UncommittedIsAbsent /\ BackedUpByAnother

-----------------------------------------------------------------------------
LEMMA InitIInv == Init => IInv
<1> SUFFICES ASSUME Init PROVE IInv
  OBVIOUS
<1> USE DEF Init
<1>1. bill \in Bill /\ web \in [Requests -> Web]
  BY DEF Bill, Web
<1>2. /\ outbox \in [Requests -> {"absent"} \cup Open \cup Closed]
      /\ callback \in [Requests -> {"none", "due", "spent", "silent"}]
      /\ crashes \in 0..MaxCrashes
  BY ConstantsAssumption
<1>3. TypeOK
  BY <1>1, <1>2 DEF TypeOK
<1>4. WorkerHasClaim /\ UncommittedIsAbsent /\ BackedUpByAnother
  BY DEF WorkerHasClaim, UncommittedIsAbsent, BackedUpByAnother, Answers
<1> QED
  BY <1>3, <1>4 DEF IInv

\* What finish_gepg_request and record_bill_submission_result write.
LEMMA AnswerTypes ==
  ASSUME NEW answer \in Answers, NEW numbered \in BOOLEAN
  PROVE  /\ Verdict(answer) \in Acknowledged \cup {"rejected"}
         /\ Recorded(numbered, answer) \in Bill
BY DEF Verdict, Recorded, Bill, Answers

\* A step that moves one row the worker is not at, none of them accepted.
LEMMA RowStep ==
  ASSUME IInv, NEW r \in Requests, r # at, outbox[r] \in Open,
         outbox' = [outbox EXCEPT ![r] = "retry"],
         UNCHANGED <<bill, old, web, workerVars, gwVars, crashes>>
  PROVE  IInv'
<1> USE DEF IInv
<1>1. \A q \in Requests : outbox'[q] = IF q = r THEN "retry" ELSE outbox[q]
  BY DEF TypeOK
<1>2. TypeOK'
  BY DEF TypeOK, workerVars, gwVars, Open, Closed
<1>3. WorkerHasClaim'
  BY <1>1 DEF WorkerHasClaim, TypeOK, workerVars, Answers, Verdict
<1>4. UncommittedIsAbsent'
  BY <1>1 DEF UncommittedIsAbsent, Open
<1>5. BackedUpByAnother'
  BY <1>1 DEF BackedUpByAnother, Open, workerVars, gwVars
<1> QED
  BY <1>2, <1>3, <1>4, <1>5

-----------------------------------------------------------------------------
(* One lemma per actor.                                                    *)

LEMMA GatewayStep ==
  ASSUME IInv, NEW r \in Requests, Take(r) \/ SendNumber(r)
  PROVE  IInv'
<1> USE DEF IInv
<1>1. TypeOK'
  BY DEF TypeOK, Take, SendNumber, workerVars
<1>2. WorkerHasClaim' /\ UncommittedIsAbsent'
  BY DEF WorkerHasClaim, UncommittedIsAbsent, Take, SendNumber, workerVars
<1>3. BackedUpByAnother'
  BY DEF BackedUpByAnother, TypeOK, Take, SendNumber, workerVars
<1> QED
  BY <1>1, <1>2, <1>3

LEMMA CommitStep ==
  ASSUME IInv, NEW r \in Requests, NEW answer \in Answers,
         NEW status \in Acknowledged \cup {"rejected", "waiting"},
         status = Verdict(answer) \/ answer = "failed",
         Commit(r, status, answer)
  PROVE  IInv'
<1> USE DEF IInv, Commit
<1>1. outbox[r] = "absent" /\ r # at
  <2>1. outbox[r] = "absent"
    BY DEF UncommittedIsAbsent
  <2>2. at # NoRequest => outbox[at] # "absent"
    BY DEF WorkerHasClaim, TypeOK, Verdict, Answers
  <2> QED
    BY <2>1, <2>2, ConstantsAssumption
<1>2. \A q \in Requests : outbox'[q] = IF q = r THEN status ELSE outbox[q]
  BY DEF TypeOK
<1>3. TypeOK'
  <2>1. web[r].numbered \in BOOLEAN /\ web' \in [Requests -> Web]
    BY DEF TypeOK, Web
  <2>2. bill' \in Bill
    BY <2>1, AnswerTypes
  <2> QED
    BY <2>1, <2>2 DEF TypeOK, Open, Closed, workerVars, gwVars
<1>4. WorkerHasClaim'
  BY <1>1, <1>2, ConstantsAssumption DEF WorkerHasClaim, TypeOK, workerVars, Answers, Verdict
<1>5. UncommittedIsAbsent'
  BY <1>2 DEF UncommittedIsAbsent, TypeOK, Web
<1>6. BackedUpByAnother'
  <2>1. bill'.code = "accepted" => answer # "failed"
    BY DEF Recorded
  <2>2. answer # "failed" => outbox'[r] \in Acknowledged /\ r # at'
    BY <1>1, <1>2 DEF Verdict, Answers, workerVars
  <2> QED
    BY <2>1, <2>2 DEF BackedUpByAnother
<1> QED
  BY <1>3, <1>4, <1>5, <1>6

LEMMA SubmitStep ==
  ASSUME IInv, NEW r \in Requests, Submit(r)
  PROVE  IInv'
<1>1. CASE BeginSubmit(r) \/ WebLost(r)
  <2> USE <1>1 DEF IInv, BeginSubmit, WebLost
  <2>1. TypeOK'
    <3>1. bill.numbered \in BOOLEAN
      BY DEF TypeOK, Bill
    <3>2. web' \in [Requests -> Web]
      BY <3>1 DEF TypeOK, Web
    <3> QED
      BY <3>2 DEF TypeOK, workerVars, gwVars
  <2>2. WorkerHasClaim' /\ BackedUpByAnother'
    BY DEF WorkerHasClaim, BackedUpByAnother, workerVars, gwVars
  <2>3. UncommittedIsAbsent'
    BY DEF UncommittedIsAbsent, TypeOK, Web
  <2> QED
    BY <2>1, <2>2, <2>3
<1>2. CASE \E answer \in Answers : Answered(r, answer)
  <2> PICK answer \in Answers : Answered(r, answer)
    BY <1>2
  <2>1. Verdict(answer) \in Acknowledged \cup {"rejected", "waiting"}
    BY DEF Verdict, Answers
  <2> QED
    BY <2>1, CommitStep DEF Answered
<1>3. CASE Undelivered(r)
  <2>1. "failed" \in Answers
    BY DEF Answers
  <2> QED
    BY <1>3, <2>1, CommitStep DEF Undelivered
<1> QED
  BY <1>1, <1>2, <1>3 DEF Submit

LEMMA ClaimStep ==
  ASSUME IInv, NEW r \in Requests, Claim(r)
  PROVE  IInv'
<1> USE DEF IInv, Claim, Idle
<1>1. \A q \in Requests : outbox'[q] = IF q = r THEN "sending" ELSE outbox[q]
  BY DEF TypeOK
<1>2. TypeOK'
  BY DEF TypeOK, Open, Closed, gwVars
<1>3. WorkerHasClaim'
  BY <1>1, ConstantsAssumption DEF WorkerHasClaim, Answers
<1>4. UncommittedIsAbsent'
  BY <1>1 DEF UncommittedIsAbsent
<1>5. BackedUpByAnother'
  BY <1>1 DEF BackedUpByAnother, gwVars
<1> QED
  BY <1>2, <1>3, <1>4, <1>5

\* The worker saves its row, whatever it then goes on to do: unless the row is
\* now accepted, nothing that backs an accepted bill has changed.
LEMMA SaveRowStep ==
  ASSUME IInv, at # NoRequest,
         NEW status \in {"waiting"} \cup Closed,
         outbox' = [outbox EXCEPT ![at] = status],
         \/ Release
         \/ /\ at' = at
            /\ phase' \in {"exhausted"} \cup Answers
            /\ seen' \in BOOLEAN
            /\ status = IF phase' = "exhausted" THEN "exhausted" ELSE Verdict(phase'),
         UNCHANGED <<bill, old, web, gwVars, crashes>>
  PROVE  IInv'
<1> USE DEF IInv
<1>1. at \in Requests
  BY DEF TypeOK
<1>2. \A q \in Requests : outbox'[q] = IF q = at THEN status ELSE outbox[q]
  BY DEF TypeOK
<1>3. outbox[at] # "absent"
  BY DEF WorkerHasClaim, TypeOK, Answers, Verdict
<1>4. TypeOK'
  BY <1>1 DEF TypeOK, Release, Open, Closed, Answers, gwVars
<1>5. WorkerHasClaim'
  BY <1>1, <1>2, ConstantsAssumption DEF WorkerHasClaim, Release, Answers
<1>6. UncommittedIsAbsent'
  BY <1>2, <1>3 DEF UncommittedIsAbsent
<1>7. BackedUpByAnother'
  BY <1>1, <1>2, ConstantsAssumption DEF BackedUpByAnother, Release, gwVars, TypeOK
<1> QED
  BY <1>4, <1>5, <1>6, <1>7

\* The worker lets go of its row and has, or has not, written to the bill.
LEMMA ReleaseStep ==
  ASSUME IInv, Release, bill' \in Bill,
         bill'.code = "accepted" =>
           bill.code = "accepted" \/ (at # NoRequest /\ outbox[at] \in Acknowledged),
         crashes' \in 0..MaxCrashes,
         UNCHANGED <<outbox, old, web, gwVars>>
  PROVE  IInv'
<1> USE DEF IInv, Release
<1>1. TypeOK'
  BY DEF TypeOK, gwVars
<1>2. WorkerHasClaim' /\ UncommittedIsAbsent'
  BY DEF WorkerHasClaim, UncommittedIsAbsent, Answers
<1>3. BackedUpByAnother'
  BY ConstantsAssumption DEF BackedUpByAnother, TypeOK, gwVars
<1> QED
  BY <1>1, <1>2, <1>3

LEMMA WorkerStep ==
  ASSUME IInv, Worker
  PROVE  IInv'
<1>0. phase # "idle" => at # NoRequest
  BY DEF IInv, WorkerHasClaim
<1>1. CASE \E r \in Requests : Claim(r)
  BY <1>1, ClaimStep
<1>2. CASE Fail
  BY <1>0, <1>2, SaveRowStep DEF Fail, Closed
<1>3. CASE GiveUp
  <2>1. seen \in BOOLEAN
    BY DEF IInv, TypeOK
  <2> QED
    BY <1>0, <1>3, <2>1, SaveRowStep DEF GiveUp, Closed
<1>4. CASE MarkExhausted
  <2> USE <1>4 DEF MarkExhausted
  <2>1. bill' \in Bill /\ bill'.code = "failed" /\ crashes' \in 0..MaxCrashes
    BY DEF IInv, TypeOK, Bill
  <2>2. CASE Release
    BY <2>1, <2>2, ReleaseStep
  <2>3. CASE phase = "exhausted" /\ phase' = "again" /\ UNCHANGED <<at, seen>>
    <3> USE <2>1, <2>3 DEF IInv
    <3>1. TypeOK'
      BY DEF TypeOK, gwVars
    <3>2. WorkerHasClaim'
      BY <1>0 DEF WorkerHasClaim, Answers
    <3>3. UncommittedIsAbsent' /\ BackedUpByAnother'
      BY DEF UncommittedIsAbsent, BackedUpByAnother
    <3> QED
      BY <3>1, <3>2, <3>3
  <2> QED
    BY <2>2, <2>3
<1>5. CASE \E answer \in Answers : Finish(answer)
  <2> PICK answer \in Answers : Finish(answer)
    BY <1>5
  <2>1. Verdict(answer) \in Closed /\ answer # "exhausted" /\ bill.numbered \in BOOLEAN
    BY DEF Verdict, Closed, Answers, IInv, TypeOK, Bill
  <2> QED
    BY <1>0, <2>1, SaveRowStep DEF Finish
<1>6. CASE Record
  <2>1. bill' \in Bill
    BY <1>6, AnswerTypes DEF Record, IInv, TypeOK
  <2>2. bill'.code = "accepted" => outbox[at] \in Acknowledged
    BY <1>6 DEF Record, Recorded, IInv, WorkerHasClaim, Verdict, Answers
  <2>3. at # NoRequest /\ crashes' \in 0..MaxCrashes
    BY <1>0, <1>6 DEF Record, Answers, IInv, TypeOK
  <2> QED
    BY <1>6, <2>1, <2>2, <2>3, ReleaseStep DEF Record
<1>7. CASE RecordFails
  BY <1>0, <1>7, SaveRowStep DEF RecordFails, Answers, Closed
<1>8. CASE \E r \in Requests : Recover(r)
  <2> PICK r \in Requests : Recover(r)
    BY <1>8
  <2>1. r # at /\ outbox[r] \in Open
    BY ConstantsAssumption DEF Recover, Idle, Open
  <2> QED
    BY <2>1, RowStep DEF Recover
<1> QED
  BY <1>1, <1>2, <1>3, <1>4, <1>5, <1>6, <1>7, <1>8 DEF Worker

LEMMA CallbackStep ==
  ASSUME IInv, NEW r \in Requests, ApplyCallback(r)
  PROVE  IInv'
<1> USE DEF IInv, ApplyCallback, Heard
<1>1. TypeOK'
  BY DEF TypeOK, Bill, workerVars
<1>2. WorkerHasClaim' /\ UncommittedIsAbsent'
  BY DEF WorkerHasClaim, UncommittedIsAbsent, workerVars
<1>3. BackedUpByAnother'
  <2>1. UNCHANGED <<outbox, at>>
    BY DEF workerVars
  <2>2. CASE callback' = [callback EXCEPT ![r] = "spent"]
    BY <2>2 DEF BackedUpByAnother, TypeOK
  <2>3. CASE callback' = [callback EXCEPT ![r] = "silent"] /\ UNCHANGED bill
    BY <2>1, <2>3 DEF BackedUpByAnother, TypeOK
  <2> QED
    BY <2>2, <2>3
<1> QED
  BY <1>1, <1>2, <1>3

LEMMA NextIInv == IInv /\ [Next]_vars => IInv'
<1> SUFFICES ASSUME IInv, [Next]_vars PROVE IInv'
  OBVIOUS
<1>1. CASE \E r \in Requests : Take(r) \/ SendNumber(r)
  BY <1>1, GatewayStep
<1>2. CASE \E r \in Requests : Submit(r)
  BY <1>2, SubmitStep
<1>3. CASE Worker
  BY <1>3, WorkerStep
<1>4. CASE Crash
  <2>1. bill' \in Bill /\ bill'.code = bill.code /\ crashes' \in 0..MaxCrashes
    BY <1>4, ConstantsAssumption DEF Crash, IInv, TypeOK
  <2> QED
    BY <1>4, <2>1, ReleaseStep DEF Crash
<1>5. CASE \E r \in Requests : ApplyCallback(r)
  BY <1>5, CallbackStep
<1>6. CASE \E r \in Requests : BackOffEnds(r)
  <2> PICK r \in Requests : BackOffEnds(r)
    BY <1>6
  <2>1. r # at /\ outbox[r] \in Open
    BY ConstantsAssumption
    DEF BackOffEnds, IInv, WorkerHasClaim, TypeOK, Open, Answers, Verdict
  <2> QED
    BY <2>1, RowStep DEF BackOffEnds
<1>7. CASE \E r \in Requests : GrowOld(r)
  <2> USE <1>7 DEF IInv, GrowOld
  <2>1. TypeOK'
    BY DEF TypeOK, workerVars, gwVars
  <2>2. WorkerHasClaim' /\ UncommittedIsAbsent' /\ BackedUpByAnother'
    BY DEF WorkerHasClaim, UncommittedIsAbsent, BackedUpByAnother, workerVars, gwVars
  <2> QED
    BY <2>1, <2>2
<1>8. CASE UNCHANGED vars
  <2> USE <1>8 DEF IInv, vars, workerVars, gwVars
  <2>1. TypeOK'
    BY DEF TypeOK
  <2>2. WorkerHasClaim' /\ UncommittedIsAbsent' /\ BackedUpByAnother'
    BY DEF WorkerHasClaim, UncommittedIsAbsent, BackedUpByAnother
  <2> QED
    BY <2>1, <2>2
<1> QED
  BY <1>1, <1>2, <1>3, <1>4, <1>5, <1>6, <1>7, <1>8 DEF Next

-----------------------------------------------------------------------------
(* Theorems.                                                               *)

\* Every reachable state is well typed.
THEOREM OutboxTypeCorrect == Spec => []TypeOK
<1>1. IInv => TypeOK
  BY DEF IInv
<1> QED
  BY <1>1, InitIInv, NextIInv, PTL DEF Spec

\* A bill whose code says accepted owes it to a submission closed by an answer
\* with an accepting code, or to a callback that brought its number.
THEOREM AcceptedBillsAreBackedUp == Spec => []AcceptedIsBackedUp
<1>1. IInv => AcceptedIsBackedUp
  BY DEF IInv, BackedUpByAnother, AcceptedIsBackedUp
<1> QED
  BY <1>1, InitIInv, NextIInv, PTL DEF Spec

\* A submission the outbox has closed is never opened again.
THEOREM SubmissionsCloseForGood == Spec => ClosedForGood
<1>1. ASSUME IInv, [Next]_vars, NEW r \in Requests, outbox[r] \in Closed
      PROVE  outbox'[r] \in Closed
  <2> USE DEF IInv
  <2>1. CASE \E q \in Requests : Submit(q)
    <3> PICK q \in Requests : Submit(q)
      BY <2>1
    <3>1. CASE BeginSubmit(q) \/ WebLost(q)
      BY <3>1, <1>1 DEF BeginSubmit, WebLost
    <3>2. CASE \/ \E answer \in Answers : Answered(q, answer)
               \/ Undelivered(q)
      <4>1. web[q].pc = "sending"
        BY <3>2 DEF Answered, Undelivered, Commit
      <4>2. q # r
        BY <4>1, <1>1 DEF UncommittedIsAbsent, Closed
      <4> QED
        BY <3>2, <4>2, <1>1 DEF Answered, Undelivered, Commit, TypeOK
    <3> QED
      BY <3>1, <3>2 DEF Submit
  <2>2. CASE Fail \/ GiveUp \/ \E answer \in Answers : Finish(answer)
    <3>1. outbox[at] = "sending"
      BY <2>2, <1>1 DEF WorkerHasClaim, Fail, GiveUp, Finish
    <3>2. at # r
      BY <3>1, <1>1 DEF Closed
    <3> QED
      BY <2>2, <3>2, <1>1 DEF Fail, GiveUp, Finish, TypeOK
  <2>3. CASE RecordFails
    BY <2>3, <1>1 DEF RecordFails, TypeOK, Closed
  <2>4. CASE MarkExhausted \/ Record \/ Crash
    BY <2>4, <1>1 DEF MarkExhausted, Record, Crash
  <2>5. CASE \E q \in Requests : Claim(q) \/ Recover(q) \/ BackOffEnds(q)
    BY <2>5, <1>1 DEF Claim, Recover, BackOffEnds, TypeOK, Closed
  <2>6. CASE \E q \in Requests : \/ Take(q) \/ SendNumber(q) \/ ApplyCallback(q)
                                 \/ GrowOld(q)
    BY <2>6, <1>1 DEF Take, SendNumber, ApplyCallback, GrowOld
  <2>7. CASE UNCHANGED vars
    BY <2>7, <1>1 DEF vars
  <2> QED
    BY <1>1, <2>1, <2>2, <2>3, <2>4, <2>5, <2>6, <2>7 DEF Next, Worker
<1>2. IInv /\ [Next]_vars =>
        [\A r \in Requests : outbox[r] \in Closed => outbox'[r] \in Closed]_vars
  <2> SUFFICES ASSUME IInv, Next, NEW r \in Requests, outbox[r] \in Closed
               PROVE  outbox'[r] \in Closed
    OBVIOUS
  <2> QED
    BY <1>1
<1> QED
  BY <1>2, InitIInv, NextIInv, PTL DEF Spec, ClosedForGood

-----------------------------------------------------------------------------
(* The outbox implements Dispatch.                                         *)

\* A submission the outbox knows has told the bill something.
BillKnowsOfIt ==
  /\ bill.exists <=> bill.code # "none"
  /\ \A r \in Requests : outbox[r] # "absent" => bill.exists

DInv == IInv /\ BillKnowsOfIt

Stages == [r \in Requests |-> Stage(r)]

\* A first attempt that is over has posted the submission.
LEMMA FirstAttempt ==
  ASSUME NEW r \in Requests, Submit(r), ~ BeginSubmit(r), ~ WebLost(r)
  PROVE  \E s \in Acknowledged \cup {"rejected", "waiting"}, answer \in Answers :
           /\ Commit(r, s, answer)
           /\ s \in Acknowledged <=> answer # "failed"
<1>1. CASE \E answer \in Answers : Answered(r, answer)
  <2> PICK answer \in Answers : Answered(r, answer)
    BY <1>1
  <2>1. Verdict(answer) \in Acknowledged \cup {"rejected", "waiting"}
          /\ (Verdict(answer) \in Acknowledged <=> answer # "failed")
    BY DEF Verdict, Answers
  <2> QED
    BY <2>1 DEF Answered
<1>2. CASE Undelivered(r)
  <2>1. "failed" \in Answers
    BY DEF Answers
  <2> QED
    BY <1>2, <2>1 DEF Undelivered
<1> QED
  BY <1>1, <1>2 DEF Submit

\* The worker's row is known, hence the bill exists.
LEMMA WorkerHasBill == DInv /\ phase # "idle" => bill.exists
<1> SUFFICES ASSUME DInv, phase # "idle" PROVE bill.exists
  OBVIOUS
<1>1. at \in Requests
  BY DEF DInv, IInv, WorkerHasClaim, TypeOK
<1>2. outbox[at] # "absent"
  BY DEF DInv, IInv, WorkerHasClaim, TypeOK, Answers, Verdict
<1> QED
  BY <1>1, <1>2 DEF DInv, BillKnowsOfIt

LEMMA NextBillKnows == DInv /\ [Next]_vars => BillKnowsOfIt'
<1> SUFFICES ASSUME DInv, [Next]_vars PROVE BillKnowsOfIt'
  OBVIOUS
<1> USE DEF DInv
<1>1. CASE UNCHANGED <<bill, outbox>>
  BY <1>1 DEF BillKnowsOfIt
<1>2. ASSUME UNCHANGED bill, NEW q \in Requests, outbox[q] # "absent",
             NEW s, outbox' = [outbox EXCEPT ![q] = s]
      PROVE  BillKnowsOfIt'
  BY <1>2 DEF BillKnowsOfIt, IInv, TypeOK
<1>3. ASSUME NEW q \in Requests, Submit(q), ~ UNCHANGED <<bill, outbox>>
      PROVE  BillKnowsOfIt'
  <2>1. PICK s \in Acknowledged \cup {"rejected", "waiting"}, answer \in Answers :
          Commit(q, s, answer)
    BY <1>3, FirstAttempt DEF BeginSubmit, WebLost
  <2>2. bill'.exists /\ bill'.code # "none"
    BY <2>1 DEF Commit, Recorded
  <2> QED
    BY <2>2 DEF BillKnowsOfIt
<1>4. CASE \E q \in Requests : Claim(q) \/ Recover(q) \/ BackOffEnds(q)
  BY <1>2, <1>4 DEF Claim, Recover, BackOffEnds
<1>5. CASE Fail \/ GiveUp \/ RecordFails \/ \E answer \in Answers : Finish(answer)
  <2>1. at \in Requests /\ outbox[at] # "absent"
    BY <1>5 DEF Fail, GiveUp, RecordFails, Finish, IInv, WorkerHasClaim, TypeOK,
                Answers, Verdict
  <2> QED
    BY <1>2, <1>5, <2>1 DEF Fail, GiveUp, RecordFails, Finish
<1>6. CASE MarkExhausted \/ Record
  <2>1. bill.exists
    BY <1>6, WorkerHasBill DEF MarkExhausted, Record, Answers
  <2>2. bill'.exists /\ bill'.code # "none" /\ outbox' = outbox
    BY <1>6, <2>1 DEF MarkExhausted, Record, Recorded, IInv, TypeOK, Bill
  <2> QED
    BY <2>2 DEF BillKnowsOfIt
<1>7. CASE \E q \in Requests : ApplyCallback(q)
  <2>1. bill' = bill \/ (bill'.exists /\ bill'.code # "none" /\ bill.exists)
    BY <1>7 DEF ApplyCallback, Heard, IInv, TypeOK, Bill
  <2> QED
    BY <1>7, <2>1 DEF ApplyCallback, BillKnowsOfIt
<1>8. CASE Crash \/ \E q \in Requests : Take(q) \/ SendNumber(q) \/ GrowOld(q)
  BY <1>1, <1>8 DEF Crash, Take, SendNumber, GrowOld
<1>9. CASE UNCHANGED vars
  BY <1>1, <1>9 DEF vars
<1> QED
  BY <1>1, <1>3, <1>4, <1>5, <1>6, <1>7, <1>8, <1>9 DEF Next, Worker

LEMMA DispatchInit == Init => DispatchView!Init
<1> SUFFICES ASSUME Init PROVE DispatchView!Init
  OBVIOUS
<1>1. {r \in Requests : callback[r] = "spent"} = {}
  BY DEF Init
<1>2. \A r \in Requests : Stage(r) = "unknown"
  BY DEF Init, Stage, Open
<1>3. bill.code = "none"
  BY DEF Init
<1> QED
  BY <1>1, <1>2, <1>3 DEF DispatchView!Init

\* A step that saves one row moves that submission, and no other.
LEMMA OneStage ==
  ASSUME IInv, NEW q \in Requests, NEW s, outbox' = [outbox EXCEPT ![q] = s]
  PROVE  Stages' = [Stages EXCEPT ![q] = CASE s = "absent" -> "unknown"
                                           [] s \in Open   -> "open"
                                           [] OTHER        -> s]
<1> DEFINE new == CASE s = "absent" -> "unknown"
                    [] s \in Open   -> "open"
                    [] OTHER        -> s
<1>1. \A r \in Requests : outbox'[r] = IF r = q THEN s ELSE outbox[r]
  BY DEF IInv, TypeOK
<1>2. \A r \in Requests : Stage(r)' = IF r = q THEN new ELSE Stage(r)
  BY <1>1 DEF Stage
<1> HIDE DEF new
<1>3. Stages' = [Stages EXCEPT ![q] = new]
  BY <1>2 DEF Stages
<1> QED
  BY <1>3 DEF new

LEMMA SameStages == UNCHANGED outbox => UNCHANGED Stages
BY DEF Stages, Stage

LEMMA SameHeard ==
  UNCHANGED callback => UNCHANGED {r \in Requests : callback[r] = "spent"}
OBVIOUS

LEMMA DispatchStep == DInv /\ [Next]_vars => [DispatchView!Next]_(DispatchView!vars)
<1> SUFFICES ASSUME DInv, [Next]_vars
             PROVE  [DispatchView!Next]_(DispatchView!vars)
  OBVIOUS
<1> DEFINE heard == {r \in Requests : callback[r] = "spent"}
<1>0. CASE UNCHANGED <<bill, callback>> /\ UNCHANGED Stages
  BY <1>0, SameHeard DEF DispatchView!vars, Stages
<1>1. CASE \E q \in Requests : Submit(q)
  <2> PICK q \in Requests : Submit(q)
    BY <1>1
  <2>1. CASE BeginSubmit(q) \/ WebLost(q)
    BY <1>0, <2>1, SameStages DEF BeginSubmit, WebLost, gwVars
  <2>2. CASE ~ BeginSubmit(q) /\ ~ WebLost(q)
    <3>1. PICK s \in Acknowledged \cup {"rejected", "waiting"}, answer \in Answers :
            /\ Commit(q, s, answer)
            /\ s \in Acknowledged <=> answer # "failed"
      BY <2>2, FirstAttempt
    <3>2. outbox[q] = "absent"
      BY <3>1 DEF Commit, DInv, IInv, UncommittedIsAbsent
    <3>3. Stages[q] = "unknown"
      BY <3>2 DEF Stages, Stage, Open
    <3>4. Stages' = [Stages EXCEPT ![q] = IF s = "waiting" THEN "open" ELSE s]
      BY <3>1, OneStage DEF Commit, DInv, Open
    <3>5. bill'.code = IF s \in Acknowledged THEN "accepted" ELSE "failed"
      BY <3>1 DEF Commit, Recorded
    <3>6. UNCHANGED heard
      BY <3>1 DEF Commit, gwVars
    <3>7. DispatchView!Post(q)
      BY <3>3, <3>4, <3>5, <3>6 DEF DispatchView!Post, DispatchView!Accepting, Stages
    <3> QED
      BY <3>7 DEF DispatchView!Next
  <2> QED
    BY <2>1, <2>2
<1>2. CASE \E q \in Requests : Claim(q) \/ Recover(q) \/ BackOffEnds(q)
  <2> PICK q \in Requests : Claim(q) \/ Recover(q) \/ BackOffEnds(q)
    BY <1>2
  <2>1. PICK s \in Open : outbox' = [outbox EXCEPT ![q] = s]
    BY DEF Claim, Recover, BackOffEnds, Open
  <2>2. Stages' = [Stages EXCEPT ![q] = "open"]
    BY <2>1, OneStage DEF DInv, Open
  <2>3. Stages[q] = "open"
    BY DEF Claim, Recover, BackOffEnds, Stages, Stage, Open
  <2>4. UNCHANGED Stages
    BY <2>2, <2>3 DEF Stages
  <2> QED
    BY <1>0, <2>4 DEF Claim, Recover, BackOffEnds, gwVars
<1>3. CASE Fail \/ GiveUp \/ \E answer \in Answers : Finish(answer)
  <2>1. at \in Requests /\ outbox[at] = "sending"
    BY <1>3 DEF Fail, GiveUp, Finish, DInv, IInv, WorkerHasClaim, TypeOK
  <2>2. PICK s \in {"waiting"} \cup Closed :
          outbox' = [outbox EXCEPT ![at] = s]
    <3>1. CASE Fail \/ GiveUp
      BY <3>1 DEF Fail, GiveUp, Closed
    <3>2. CASE \E answer \in Answers : Finish(answer)
      <4> PICK answer \in Answers : Finish(answer)
        BY <3>2
      <4>1. Verdict(answer) \in Closed
        BY DEF Verdict, Answers, Closed
      <4> QED
        BY <4>1 DEF Finish
    <3> QED
      BY <1>3, <3>1, <3>2
  <2>3. Stages[at] = "open"
    BY <2>1 DEF Stages, Stage, Open
  <2>4. Stages' = [Stages EXCEPT ![at] = IF s = "waiting" THEN "open" ELSE s]
    BY <2>1, <2>2, OneStage DEF DInv, Open, Closed
  <2>5. UNCHANGED <<bill, callback>>
    BY <1>3 DEF Fail, GiveUp, Finish, gwVars
  <2>6. CASE s = "waiting"
    <3>1. UNCHANGED Stages
      BY <2>3, <2>4, <2>6 DEF Stages
    <3> QED
      BY <1>0, <2>5, <3>1
  <2>7. CASE s # "waiting"
    <3>1. DispatchView!Close(at)
      BY <2>3, <2>4, <2>5, <2>7, SameHeard DEF DispatchView!Close, DispatchView!Accepting, Stages, Closed
    <3> QED
      BY <2>1, <3>1 DEF DispatchView!Next
  <2> QED
    BY <2>6, <2>7
<1>4. CASE MarkExhausted \/ Record
  <2>1. UNCHANGED Stages /\ UNCHANGED heard
    BY <1>4, SameStages DEF MarkExhausted, Record, gwVars
  <2>2. bill.code # "none"
    BY <1>4, WorkerHasBill DEF MarkExhausted, Record, Answers, DInv, BillKnowsOfIt
  <2>3. bill'.code = "failed" \/ (bill'.code = "accepted" /\ \E r \in Requests : Stages[r] \in Acknowledged)
    <3>1. CASE MarkExhausted
      BY <3>1 DEF MarkExhausted, DInv, IInv, TypeOK, Bill
    <3>2. CASE Record
      <4>1. at \in Requests
        BY <3>2 DEF Record, DInv, IInv, WorkerHasClaim, TypeOK, Answers
      <4>2. phase # "failed" => Stages[at] \in Acknowledged
        BY <3>2, <4>1
        DEF Record, DInv, IInv, WorkerHasClaim, Verdict, Answers, Stages, Stage, Open
      <4> QED
        BY <3>2, <4>1, <4>2 DEF Record, Recorded
    <3> QED
      BY <1>4, <3>1, <3>2
  <2>4. DispatchView!Tell
    BY <2>1, <2>2, <2>3 DEF DispatchView!Tell, DispatchView!Accepting, Stages
  <2> QED
    BY <2>4 DEF DispatchView!Next
<1>5. CASE RecordFails
  <2>1. at \in Requests /\ at # NoRequest
    BY <1>5 DEF RecordFails, DInv, IInv, WorkerHasClaim, TypeOK, Answers
  <2>2. Stages' = [Stages EXCEPT ![at] = "rejected"]
    BY <1>5, <2>1, OneStage DEF RecordFails, DInv, Open
  <2>3. UNCHANGED <<bill, callback>>
    BY <1>5 DEF RecordFails, gwVars
  <2>4. CASE phase = "failed"
    <3>1. Stages[at] = "rejected"
      BY <2>1, <2>4 DEF DInv, IInv, WorkerHasClaim, Verdict, Answers, Stages, Stage, Open
    <3>2. UNCHANGED Stages
      BY <2>2, <3>1 DEF Stages
    <3> QED
      BY <1>0, <2>3, <3>2
  <2>5. CASE phase # "failed"
    <3>1. Stages[at] \in Acknowledged
      BY <1>5, <2>1, <2>5 DEF RecordFails, DInv, IInv, WorkerHasClaim, Verdict, Answers,
                              Stages, Stage, Open
    <3>2. bill.code = "accepted" =>
            heard # {} \/ \E q \in Requests \ {at} : Stages[q] \in Acknowledged
      BY DEF DInv, IInv, BackedUpByAnother, Stages, Stage, Open
    <3>3. DispatchView!Withdraw(at)
      BY <2>2, <2>3, <3>1, <3>2, SameHeard
      DEF DispatchView!Withdraw, DispatchView!BackedWithout, DispatchView!Accepting, Stages
    <3> QED
      BY <2>1, <3>3 DEF DispatchView!Next
  <2> QED
    BY <2>4, <2>5
<1>6. CASE \E q \in Requests : ApplyCallback(q)
  <2> PICK q \in Requests : ApplyCallback(q)
    BY <1>6
  <2>1. UNCHANGED Stages
    BY SameStages DEF ApplyCallback
  <2>2. CASE bill.exists /\ callback' = [callback EXCEPT ![q] = "spent"]
             /\ bill' = [bill EXCEPT !.numbered = TRUE, !.code = "accepted"]
    <3>1. heard' = heard \cup {q}
      BY <2>2 DEF DInv, IInv, TypeOK
    <3>2. bill.code # "none" /\ bill'.code = "accepted"
      BY <2>2 DEF DInv, BillKnowsOfIt, IInv, TypeOK, Bill
    <3>3. DispatchView!Hear(q)
      BY <2>1, <3>1, <3>2 DEF DispatchView!Hear, Stages
    <3> QED
      BY <3>3 DEF DispatchView!Next
  <2>3. CASE callback' = [callback EXCEPT ![q] = "silent"] /\ UNCHANGED bill
    <3>1. UNCHANGED heard
      BY <2>3 DEF ApplyCallback, DInv, IInv, TypeOK
    <3> QED
      BY <2>1, <2>3, <3>1 DEF DispatchView!vars, Stages
  <2> QED
    BY <2>2, <2>3 DEF ApplyCallback, Heard
<1>7. CASE Crash \/ \E q \in Requests : Take(q) \/ GrowOld(q)
  BY <1>0, <1>7, SameStages DEF Crash, Take, GrowOld, gwVars
<1>8. CASE \E q \in Requests : SendNumber(q)
  <2>1. UNCHANGED heard
    BY <1>8 DEF SendNumber, DInv, IInv, TypeOK
  <2>2. UNCHANGED bill /\ UNCHANGED Stages
    BY <1>8, SameStages DEF SendNumber
  <2> QED
    BY <2>1, <2>2 DEF DispatchView!vars, Stages
<1>9. CASE UNCHANGED vars
  BY <1>0, <1>9, SameStages DEF vars, gwVars
<1> QED
  BY <1>1, <1>2, <1>3, <1>4, <1>5, <1>6, <1>7, <1>8, <1>9 DEF Next, Worker

\* Whatever is retried, abandoned or answered twice, staff see submissions that
\* are posted with what they told the bill, closed once, and an acceptance that
\* has something behind it.
THEOREM OutboxImplementsDispatch == Spec => ImplementsDispatch
<1>1. Init => BillKnowsOfIt
  BY DEF Init, BillKnowsOfIt
<1>2. Spec => []DInv
  BY <1>1, InitIInv, NextIInv, NextBillKnows, PTL DEF Spec, DInv
<1> QED
  BY <1>2, DispatchInit, DispatchStep, PTL DEF Spec, ImplementsDispatch, DispatchView!Spec

-----------------------------------------------------------------------------
(* Dispatch alone already promises it.                                     *)

LEMMA StageIsStatus ==
  \A r \in Requests : /\ Stage(r) = "unknown" <=> outbox[r] \in {"absent", "unknown"}
                      /\ Stage(r) \in Acknowledged <=> outbox[r] \in Acknowledged
BY DEF Stage, Open

LEMMA DispatchKeepsBacking ==
  ASSUME AcceptedIsBackedUp, [DispatchView!Next]_(DispatchView!vars)
  PROVE  AcceptedIsBackedUp'
<1> DEFINE heard == {r \in Requests : callback[r] = "spent"}
           backed == heard # {} \/ \E r \in Requests : Stages[r] \in Acknowledged
<1>1. AcceptedIsBackedUp <=> (bill.code = "accepted" => backed)
  BY StageIsStatus DEF AcceptedIsBackedUp, Stages
<1>2. AcceptedIsBackedUp' <=> (bill'.code = "accepted" => backed')
  <2>1. \A r \in Requests : Stages'[r] \in Acknowledged <=> outbox'[r] \in Acknowledged
    BY DEF Stages, Stage, Open
  <2> QED
    BY <2>1 DEF AcceptedIsBackedUp
<1>3. ASSUME NEW r \in Requests, DispatchView!Post(r)
      PROVE  bill'.code = "accepted" => backed'
  <2>1. bill'.code = "accepted" => \E s \in Acknowledged : Stages' = [Stages EXCEPT ![r] = s]
    BY <1>3 DEF DispatchView!Post, DispatchView!Accepting, Stages
  <2>2. bill'.code = "accepted" => Stages'[r] \in Acknowledged
    BY <2>1 DEF Stages
  <2> QED
    BY <2>2
<1>4. ASSUME NEW r \in Requests, DispatchView!Close(r), bill'.code = "accepted"
      PROVE  backed'
  <2>1. bill.code = "accepted" /\ heard' = heard /\ Stages[r] = "open"
        /\ \E s : Stages' = [Stages EXCEPT ![r] = s]
    BY <1>4 DEF DispatchView!Close, DispatchView!Accepting, Stages
  <2>2. \A q \in Requests : Stages[q] \in Acknowledged => Stages'[q] \in Acknowledged
    BY <2>1 DEF Stages
  <2> QED
    BY <1>1, <2>1, <2>2
<1>5. ASSUME NEW r \in Requests, DispatchView!Withdraw(r), bill'.code = "accepted"
      PROVE  backed'
  <2>1. bill.code = "accepted" /\ heard' = heard
        /\ (heard # {} \/ \E q \in Requests \ {r} : Stages[q] \in Acknowledged)
        /\ Stages' = [Stages EXCEPT ![r] = "rejected"]
    BY <1>5 DEF DispatchView!Withdraw, DispatchView!BackedWithout, DispatchView!Accepting, Stages
  <2>2. \A q \in Requests \ {r} : Stages'[q] = Stages[q]
    BY <2>1 DEF Stages
  <2> QED
    BY <2>1, <2>2
<1>6. ASSUME NEW r \in Requests, DispatchView!Hear(r)
      PROVE  backed'
  <2>1. heard' = heard \cup {r}
    BY <1>6 DEF DispatchView!Hear
  <2> QED
    BY <2>1
<1>7. CASE DispatchView!Tell
  <2>1. /\ bill'.code \in {"failed", "accepted"}
        /\ bill'.code = "accepted" => \E r \in Requests : Stages[r] \in Acknowledged
        /\ Stages' = Stages
    BY <1>7 DEF DispatchView!Tell, DispatchView!Accepting, Stages
  <2> QED
    BY <1>2, <2>1
<1>8. CASE UNCHANGED DispatchView!vars
  <2>1. Stages' = Stages /\ heard' = heard /\ bill'.code = bill.code
    BY <1>8 DEF DispatchView!vars, Stages
  <2> QED
    BY <1>1, <1>2, <2>1
<1> QED
  BY <1>2, <1>3, <1>4, <1>5, <1>6, <1>7, <1>8 DEF DispatchView!Next

\* What Dispatch says is enough: submissions that evolve as it allows, by
\* whatever worker, leave no bill that shows an acceptance with nothing behind
\* it.
THEOREM DispatchIsBackedUp == DispatchView!Spec => []AcceptedIsBackedUp
<1>1. DispatchView!Init => AcceptedIsBackedUp
  BY DEF DispatchView!Init, AcceptedIsBackedUp
<1> QED
  BY <1>1, DispatchKeepsBacking, PTL DEF DispatchView!Spec

-----------------------------------------------------------------------------
(* The end of a submission.  EverySubmissionCloses rests on this; what it  *)
(* adds, that a step which can be taken is taken, is TLC's.                *)

\* How far an old submission is from its end: with the worker, due, or before
\* that.
Distance(r) == CASE outbox[r] \in Closed             -> 0
                 [] outbox[r] = "sending" /\ at = r  -> 1
                 [] outbox[r] = "retry"              -> 2
                 [] OTHER                            -> 3

\* The changes of status it may still see: each crash still possible costs three.
MovesLeft(r) == 3 * (MaxCrashes - crashes) + Distance(r)

\* Every change of status of an old submission that is open uses up one of those
\* it has left, and nothing gives any back.
OldWindsDown ==
  [][\A r \in old : /\ MovesLeft(r)' <= MovesLeft(r)
                    /\ outbox[r] \in Open /\ outbox'[r] # outbox[r]
                         => MovesLeft(r)' < MovesLeft(r)]_vars

LEMMA DistanceType == \A r \in Requests : Distance(r) \in 0 .. 3 /\ Distance(r)' \in 0 .. 3
BY DEF Distance

\* A step that saves one row, whatever the worker does next, brings that row
\* nearer its end if it was open; the others stay where they are.
LEMMA SaveCounts ==
  ASSUME IInv, NEW r \in Requests, NEW q \in Requests, NEW s,
         outbox' = [outbox EXCEPT ![q] = s],
         q # r => (at = r <=> at' = r),
         \/ outbox[q] = "absent"
         \/ outbox[q] \in Closed /\ s \in Closed
         \/ outbox[q] = "retry" /\ s = "sending" /\ at' = q
         \/ outbox[q] \in {"sending", "waiting"} /\ q # at /\ s = "retry"
         \/ outbox[q] = "sending" /\ q = at /\ s \in Closed
  PROVE  /\ Distance(r)' <= Distance(r)
         /\ outbox[r] \in Open /\ outbox'[r] # outbox[r] => Distance(r)' < Distance(r)
<1>1. \A p \in Requests : outbox'[p] = IF p = q THEN s ELSE outbox[p]
  BY DEF IInv, TypeOK
<1>2. CASE q # r
  <2>1. Distance(r)' = Distance(r) /\ outbox'[r] = outbox[r]
    BY <1>1, <1>2 DEF Distance
  <2> QED
    BY <2>1, DistanceType
<1>3. CASE q = r
  <2> USE <1>3
  <2>0. outbox'[r] = s
    BY <1>1
  <2>1. CASE outbox[r] = "absent"
    <3>1. Distance(r) = 3 /\ outbox[r] \notin Open
      BY <2>1 DEF Distance, Closed, Open
    <3> QED
      BY <3>1, DistanceType
  <2>2. CASE outbox[r] \in Closed /\ s \in Closed
    <3>1. Distance(r) = 0 /\ Distance(r)' = 0 /\ outbox[r] \notin Open
      BY <2>0, <2>2 DEF Distance, Closed, Open
    <3> QED
      BY <3>1
  <2>3. CASE outbox[r] = "retry" /\ s = "sending" /\ at' = r
    <3>1. Distance(r) = 2 /\ Distance(r)' = 1
      BY <2>0, <2>3 DEF Distance, Closed
    <3> QED
      BY <3>1
  <2>4. CASE outbox[r] \in {"sending", "waiting"} /\ r # at /\ s = "retry"
    <3>1. Distance(r) = 3 /\ Distance(r)' = 2
      BY <2>0, <2>4 DEF Distance, Closed
    <3> QED
      BY <3>1
  <2>5. CASE outbox[r] = "sending" /\ r = at /\ s \in Closed
    <3>1. Distance(r) = 1 /\ Distance(r)' = 0
      BY <2>0, <2>5 DEF Distance, Closed
    <3> QED
      BY <3>1
  <2> QED
    BY <2>1, <2>2, <2>3, <2>4, <2>5
<1> QED
  BY <1>2, <1>3

\* A step that saves no row and does not take the worker off an open one.
LEMMA NothingCounts ==
  ASSUME NEW r \in Requests, UNCHANGED outbox,
         at = r /\ outbox[r] \notin Closed <=> at' = r /\ outbox[r] \notin Closed
  PROVE  /\ Distance(r)' <= Distance(r)
         /\ outbox[r] \in Open /\ outbox'[r] # outbox[r] => Distance(r)' < Distance(r)
<1>1. Distance(r)' = Distance(r) /\ outbox'[r] = outbox[r]
  BY DEF Distance
<1> QED
  BY <1>1, DistanceType

LEMMA DistanceStep ==
  ASSUME IInv, Next, NEW r \in old, ~ Crash
  PROVE  /\ Distance(r)' <= Distance(r)
         /\ outbox[r] \in Open /\ outbox'[r] # outbox[r] => Distance(r)' < Distance(r)
<1> USE DEF IInv
<1>0. r \in Requests
  BY DEF TypeOK
<1>1. CASE \E q \in Requests : \/ Take(q) \/ SendNumber(q) \/ ApplyCallback(q) \/ GrowOld(q)
                               \/ BeginSubmit(q) \/ WebLost(q)
  BY <1>0, <1>1, NothingCounts
  DEF Take, SendNumber, ApplyCallback, GrowOld, BeginSubmit, WebLost, workerVars
<1>2. ASSUME NEW q \in Requests, Submit(q), ~ BeginSubmit(q), ~ WebLost(q)
      PROVE  /\ Distance(r)' <= Distance(r)
             /\ outbox[r] \in Open /\ outbox'[r] # outbox[r] => Distance(r)' < Distance(r)
  <2>1. PICK s : \E answer : Commit(q, s, answer)
    BY <1>2, FirstAttempt
  <2>2. outbox[q] = "absent" /\ outbox' = [outbox EXCEPT ![q] = s] /\ at' = at
    BY <2>1 DEF Commit, UncommittedIsAbsent, workerVars
  <2> QED
    BY <1>0, <2>2, SaveCounts
<1>3. CASE \E q \in Requests : Claim(q)
  <2> PICK q \in Requests : Claim(q)
    BY <1>3
  <2>1. at # r /\ (q # r => at' # r)
    BY <1>0, ConstantsAssumption DEF Claim, Idle
  <2> QED
    BY <1>0, <2>1, SaveCounts DEF Claim
<1>4. CASE \E q \in Requests : Recover(q) \/ BackOffEnds(q)
  <2> PICK q \in Requests : Recover(q) \/ BackOffEnds(q)
    BY <1>4
  <2>1. q # at /\ outbox[q] \in {"sending", "waiting"} /\ at' = at
    BY ConstantsAssumption
    DEF Recover, BackOffEnds, Idle, WorkerHasClaim, TypeOK, Answers, Verdict, workerVars
  <2> QED
    BY <1>0, <2>1, SaveCounts DEF Recover, BackOffEnds
<1>5. CASE Fail \/ GiveUp \/ \E answer \in Answers : Finish(answer)
  <2>1. /\ at \in Requests /\ outbox[at] = "sending"
        /\ \E s \in {"waiting"} \cup Closed : /\ outbox' = [outbox EXCEPT ![at] = s]
                                              /\ s = "waiting" => at \notin old
        /\ at' \in {at, NoRequest}
    BY <1>5 DEF Fail, GiveUp, Finish, Release, WorkerHasClaim, TypeOK, Closed, Verdict, Answers
  <2>2. PICK s \in {"waiting"} \cup Closed : /\ outbox' = [outbox EXCEPT ![at] = s]
                                             /\ s = "waiting" => at \notin old
    BY <2>1
  <2>3. CASE at = r
    <3>1. s \in Closed
      BY <2>2, <2>3
    <3> QED
      BY <1>0, <2>1, <2>2, <2>3, <3>1, SaveCounts
  <2>4. CASE at # r
    <3>1. outbox'[r] = outbox[r] /\ at' # r
      BY <1>0, <2>1, <2>2, <2>4, ConstantsAssumption DEF TypeOK
    <3>2. Distance(r)' = Distance(r)
      BY <2>4, <3>1 DEF Distance
    <3> QED
      BY <1>0, <3>1, <3>2, DistanceType
  <2> QED
    BY <2>3, <2>4
<1>6. CASE MarkExhausted \/ Record
  <2>1. at \in Requests /\ outbox[at] \in Closed /\ outbox' = outbox /\ at' \in {at, NoRequest}
    BY <1>6
    DEF MarkExhausted, Record, Release, WorkerHasClaim, TypeOK, Answers, Verdict, Closed
  <2>2. at' = r => at = r
    BY <1>0, <2>1, ConstantsAssumption
  <2> QED
    BY <1>0, <2>1, <2>2, NothingCounts
<1>7. CASE RecordFails
  <2>1. /\ at \in Requests /\ outbox[at] \in Closed /\ at' = NoRequest
        /\ outbox' = [outbox EXCEPT ![at] = "rejected"] /\ "rejected" \in Closed
    BY <1>7 DEF RecordFails, Release, WorkerHasClaim, TypeOK, Answers, Verdict, Closed
  <2>2. at' # r
    BY <1>0, <2>1, ConstantsAssumption
  <2> QED
    BY <1>0, <2>1, <2>2, SaveCounts
<1> QED
  BY <1>1, <1>2, <1>3, <1>4, <1>5, <1>6, <1>7 DEF Next, Worker, Submit

\* An old submission does not circulate: with at most MaxCrashes crashes to come
\* its status changes a bounded number of times before it is closed.
THEOREM OldSubmissionsWindDown ==
  Spec => /\ [](\A r \in Requests : MovesLeft(r) \in Nat)
          /\ OldWindsDown
<1>0. Spec => []IInv
  BY InitIInv, NextIInv, PTL DEF Spec
<1>1. IInv => \A r \in Requests : MovesLeft(r) \in Nat
  <2> SUFFICES ASSUME IInv, NEW r \in Requests PROVE MovesLeft(r) \in Nat
    OBVIOUS
  <2>1. MaxCrashes - crashes \in Nat /\ Distance(r) \in Nat
    BY DistanceType, ConstantsAssumption DEF IInv, TypeOK
  <2> QED
    BY <2>1 DEF MovesLeft
<1>2. IInv /\ [Next]_vars =>
        [\A r \in old : /\ MovesLeft(r)' <= MovesLeft(r)
                        /\ outbox[r] \in Open /\ outbox'[r] # outbox[r]
                             => MovesLeft(r)' < MovesLeft(r)]_vars
  <2> SUFFICES ASSUME IInv, Next, NEW r \in old
               PROVE  /\ MovesLeft(r)' <= MovesLeft(r)
                      /\ outbox[r] \in Open /\ outbox'[r] # outbox[r]
                           => MovesLeft(r)' < MovesLeft(r)
    OBVIOUS
  <2>1. /\ r \in Requests /\ MaxCrashes \in Nat /\ crashes \in Nat
        /\ Distance(r) \in 0 .. 3 /\ Distance(r)' \in 0 .. 3
    BY DistanceType, ConstantsAssumption DEF IInv, TypeOK
  <2>2. CASE Crash
    <3>1. crashes' = crashes + 1 /\ outbox' = outbox
      BY <2>2 DEF Crash
    <3>2. Distance(r) = 0 => Distance(r)' = 0
      BY <3>1 DEF Distance, Closed
    <3>3. Distance(r)' <= Distance(r) + 2
      BY <2>1, <3>2
    <3>4. 3 * (MaxCrashes - crashes') = 3 * (MaxCrashes - crashes) - 3
      BY <2>1, <3>1
    <3> QED
      BY <2>1, <3>1, <3>3, <3>4 DEF MovesLeft
  <2>3. CASE ~ Crash
    <3>1. crashes' = crashes
      BY <2>3 DEF Next, Worker, Submit, Take, SendNumber, BeginSubmit, Answered, Undelivered,
         Commit, WebLost, Claim, Fail, GiveUp, MarkExhausted, Finish, Record, RecordFails,
         Recover, ApplyCallback, BackOffEnds, GrowOld
    <3> QED
      BY <2>1, <2>3, <3>1, DistanceStep DEF MovesLeft
  <2> QED
    BY <2>2, <2>3
<1> QED
  BY <1>0, <1>1, <1>2, PTL DEF Spec, OldWindsDown
=============================================================================
