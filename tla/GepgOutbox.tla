------------------------------ MODULE GepgOutbox ------------------------------
(***************************************************************************)
(* How one order's bill gets its control number from the payment gateway.  *)
(* A web request creates the bill, or finds it in need of attention, and   *)
(* sends a submission inside its own transaction; a submission that could  *)
(* not be delivered stays in the outbox and the timer's worker sends it    *)
(* again, each save a transaction of its own.  The number comes in the     *)
(* answer, or later in a callback.                                         *)
(*                                                                         *)
(* One worker applies callbacks and resends submissions, never at once.    *)
(* The gateway (taken, callback) is external.                              *)
(***************************************************************************)
EXTENDS Naturals

CONSTANTS
  Requests,   \* submissions, by ReqId
  NoRequest,  \* the worker is not at a submission
  MaxCrashes  \* bound: how often the worker dies

ASSUME ConstantsAssumption ==
  /\ NoRequest \notin Requests
  /\ MaxCrashes \in Nat

VARIABLES
  bill,      \* the committed Bill row
  outbox,    \* GePGRequest.status; a retry may wait for its next attempt
  old,       \* first attempt more than GEPG_RETRY_MAX_AGE_SECONDS ago
  web,       \* the web request that sends each submission
  at,        \* the submission the worker is at
  phase,     \* how far the worker is with it
  seen,      \* whether the bill, as the worker read it, has a control number
  taken,     \* submissions the gateway has received
  callback,  \* its separate answer to a submission
  crashes    \* times the worker died

gwVars     == <<taken, callback>>
workerVars == <<at, phase, seen>>
vars == <<bill, outbox, old, web, workerVars, gwVars, crashes>>

\* Closed by an answer whose code is one of GEPG_ACK_SUCCESS_CODES: "unnumbered"
\* is REJECTED with such a status_code, for want of a control number.
Acknowledged == {"accepted", "unnumbered"}

Closed == Acknowledged \cup {"rejected", "exhausted"}
Open   == {"sending", "waiting", "retry"}

\* What an answer tells: a control number, that it will follow, that the bill is
\* accepted but with no number or number 0, or that it is not.
Answers == {"number", "pending", "unnumbered", "failed"}

\* code is Bill.status_code: "accepted" is one of GEPG_ACK_SUCCESS_CODES, which
\* is all that bill_needs_attention asks of it.
Bill == [exists : BOOLEAN, numbered : BOOLEAN, code : {"none", "failed", "accepted"}]
Web  == [pc : {"idle", "sending", "over"}, numbered : BOOLEAN]

TypeOK ==
  /\ bill \in Bill
  /\ outbox \in [Requests -> {"absent"} \cup Open \cup Closed]
  /\ old \subseteq Requests
  /\ web \in [Requests -> Web]
  /\ at \in Requests \cup {NoRequest}
  /\ phase \in {"idle", "sending", "exhausted", "again"} \cup Answers
  /\ seen \in BOOLEAN
  /\ taken \subseteq Requests
  /\ callback \in [Requests -> {"none", "due", "spent", "silent"}]
  /\ crashes \in 0..MaxCrashes

Init ==
  /\ bill = [exists |-> FALSE, numbered |-> FALSE, code |-> "none"]
  /\ outbox = [r \in Requests |-> "absent"]
  /\ old = {}
  /\ web = [r \in Requests |-> [pc |-> "idle", numbered |-> FALSE]]
  /\ at = NoRequest
  /\ phase = "idle"
  /\ seen = FALSE
  /\ taken = {}
  /\ callback = [r \in Requests |-> "none"]
  /\ crashes = 0

\* bill_needs_attention, for a bill not yet paid; the outbox as committed.
NeedsAttention ==
  /\ bill.exists
  /\ ~ bill.numbered
  /\ bill.code # "accepted"
  /\ \A r \in Requests : outbox[r] \notin Open

\* record_bill_submission_result on a bill row read earlier: control_number is
\* among the columns it saves, whether or not the answer brought one, and
\* status_code is the answer's, whether or not the answer was a success.
Recorded(numbered, answer) ==
  [exists   |-> TRUE,
   numbered |-> numbered \/ answer = "number",
   code     |-> IF answer = "failed" THEN "failed" ELSE "accepted"]

\* Defect: the answer itself is saved as the submission's status.
VerdictUnmapped(answer) == answer

\* finish_gepg_request, told whether there was a number or will be.
Verdict(answer) ==
  CASE answer \in {"number", "pending"} -> "accepted"
    [] answer = "unnumbered"            -> "unnumbered"
    [] answer = "failed"                -> "rejected"

\* The gateway answers a submission it has received, or any with a refusal.
MayAnswer(r, answer) == answer # "failed" => r \in taken

-----------------------------------------------------------------------------
(* The gateway.                                                            *)

Sending(r) == web[r].pc = "sending" \/ (at = r /\ phase = "sending")

Take(r) ==
  /\ Sending(r)
  /\ taken' = taken \cup {r}
  /\ UNCHANGED <<bill, outbox, old, web, workerVars, callback, crashes>>

\* A message about the bill is sent to the callback address, again if the last
\* one came to nothing: the acknowledged inbox does the rest.
SendNumber(r) ==
  /\ r \in taken
  /\ callback[r] \in {"none", "silent"}
  /\ callback' = [callback EXCEPT ![r] = "due"]
  /\ UNCHANGED <<bill, outbox, old, web, workerVars, taken, crashes>>

-----------------------------------------------------------------------------
(* A web request: generating the bill, or retrying its submission.         *)

\* One bill per order: a second generation is refused (see Settlement).
BeginSubmit(r) ==
  /\ web[r].pc = "idle"
  /\ IF bill.exists
       THEN NeedsAttention
       ELSE \A q \in Requests : web[q].pc # "sending"
  /\ web' = [web EXCEPT ![r] = [pc |-> "sending", numbered |-> bill.numbered]]
  /\ UNCHANGED <<bill, outbox, old, workerVars, gwVars, crashes>>

\* The transaction commits the submission and what it recorded on the bill.
Commit(r, status, answer) ==
  /\ web[r].pc = "sending"
  /\ outbox' = [outbox EXCEPT ![r] = status]
  /\ bill' = Recorded(web[r].numbered, answer)
  /\ web' = [web EXCEPT ![r].pc = "over"]
  /\ UNCHANGED <<old, workerVars, gwVars, crashes>>

Answered(r, answer) ==
  /\ MayAnswer(r, answer)
  /\ Commit(r, Verdict(answer), answer)

\* No answer, or an HTTP error: kept for a retry unless it is a 4xx.
Undelivered(r) == Commit(r, "waiting", "failed") \/ Commit(r, "rejected", "failed")

\* The process dies: nothing of the request remains here.
WebLost(r) ==
  /\ web[r].pc = "sending"
  /\ web' = [web EXCEPT ![r].pc = "over"]
  /\ UNCHANGED <<bill, outbox, old, workerVars, gwVars, crashes>>

-----------------------------------------------------------------------------
(* The worker.                                                             *)

Idle == at = NoRequest

\* The claim of _process_gepg_request.
Claim(r) ==
  /\ Idle
  /\ outbox[r] = "retry"
  /\ outbox' = [outbox EXCEPT ![r] = "sending"]
  /\ at' = r
  /\ phase' = "sending"
  /\ UNCHANGED <<bill, old, web, seen, gwVars, crashes>>

Release == at' = NoRequest /\ phase' = "idle" /\ seen' = FALSE

\* Defect: the age of the submission is not looked at.
FailKeepsTrying ==
  /\ phase = "sending"
  /\ \/ outbox' = [outbox EXCEPT ![at] = "waiting"]
     \/ outbox' = [outbox EXCEPT ![at] = "rejected"]
  /\ Release
  /\ UNCHANGED <<bill, old, web, gwVars, crashes>>

\* _attempt: an HTTP error puts the submission off, a 4xx ends it without a
\* word to the bill.
Fail ==
  /\ phase = "sending"
  /\ \/ at \notin old /\ outbox' = [outbox EXCEPT ![at] = "waiting"]
     \/ outbox' = [outbox EXCEPT ![at] = "rejected"]
  /\ Release
  /\ UNCHANGED <<bill, old, web, gwVars, crashes>>

\* After a day it gives up ...
GiveUp ==
  /\ phase = "sending"
  /\ at \in old
  /\ outbox' = [outbox EXCEPT ![at] = "exhausted"]
  /\ phase' = "exhausted"
  /\ UNCHANGED <<bill, old, web, at, seen, gwVars, crashes>>

\* ... and says so on the bill: _attempt once, _process_gepg_request again.
MarkExhausted ==
  /\ \/ phase = "exhausted" /\ phase' = "again" /\ UNCHANGED <<at, seen>>
     \/ phase = "again" /\ Release
  /\ bill' = [bill EXCEPT !.code = "failed"]
  /\ UNCHANGED <<outbox, old, web, gwVars, crashes>>

\* Defect: the submission is left open until the control number is known.
FinishNumbersOnly(answer) ==
  /\ phase = "sending"
  /\ MayAnswer(at, answer)
  /\ outbox' = IF answer = "pending" THEN outbox
                 ELSE [outbox EXCEPT ![at] = Verdict(answer)]
  /\ phase' = answer
  /\ seen' = bill.numbered
  /\ UNCHANGED <<bill, old, web, at, gwVars, crashes>>

\* The gateway's answer closes the submission; the bill is read only then ...
Finish(answer) ==
  /\ phase = "sending"
  /\ MayAnswer(at, answer)
  /\ outbox' = [outbox EXCEPT ![at] = Verdict(answer)]
  /\ phase' = answer
  /\ seen' = bill.numbered
  /\ UNCHANGED <<bill, old, web, at, gwVars, crashes>>

\* ... and the answer recorded on it.
Record ==
  /\ phase \in Answers
  /\ bill' = Recorded(seen, phase)
  /\ Release
  /\ UNCHANGED <<outbox, old, web, gwVars, crashes>>

\* Recording raises: the submission is marked rejected after all.
RecordFails ==
  /\ phase \in Answers
  /\ outbox' = [outbox EXCEPT ![at] = "rejected"]
  /\ Release
  /\ UNCHANGED <<bill, old, web, gwVars, crashes>>

Crash ==
  /\ ~ Idle
  /\ crashes < MaxCrashes
  /\ crashes' = crashes + 1
  /\ Release
  /\ UNCHANGED <<bill, outbox, old, web, gwVars>>

\* Defect: whatever was not accepted is taken for unfinished.
RecoverUnfinished(r) ==
  /\ Idle
  /\ outbox[r] \notin {"absent", "waiting", "retry", "accepted"}
  /\ outbox' = [outbox EXCEPT ![r] = "retry"]
  /\ UNCHANGED <<bill, old, web, workerVars, gwVars, crashes>>

\* _recover_stale_outbound_requests, five minutes after a crash.
Recover(r) ==
  /\ Idle
  /\ outbox[r] = "sending"
  /\ outbox' = [outbox EXCEPT ![r] = "retry"]
  /\ UNCHANGED <<bill, old, web, workerVars, gwVars, crashes>>

\* handle_bill_response_callback: a callback brings a committed bill its number;
\* one without a number is acknowledged, and one for a bill that is not committed
\* is closed as failed, with the bill as it was.
Heard(r) ==
  \/ /\ bill.exists
     /\ callback' = [callback EXCEPT ![r] = "spent"]
     /\ bill' = [bill EXCEPT !.numbered = TRUE, !.code = "accepted"]
  \/ /\ callback' = [callback EXCEPT ![r] = "silent"]
     /\ UNCHANGED bill

ApplyCallback(r) ==
  /\ Idle
  /\ callback[r] = "due"
  /\ Heard(r)
  /\ UNCHANGED <<outbox, old, web, workerVars, taken, crashes>>

-----------------------------------------------------------------------------
(* Time.                                                                   *)

BackOffEnds(r) ==
  /\ outbox[r] = "waiting"
  /\ outbox' = [outbox EXCEPT ![r] = "retry"]
  /\ UNCHANGED <<bill, old, web, workerVars, gwVars, crashes>>

GrowOld(r) ==
  /\ outbox[r] # "absent"
  /\ r \notin old
  /\ old' = old \cup {r}
  /\ UNCHANGED <<bill, outbox, web, workerVars, gwVars, crashes>>

-----------------------------------------------------------------------------
Submit(r) ==
  \/ BeginSubmit(r)
  \/ \E answer \in Answers : Answered(r, answer)
  \/ Undelivered(r)
  \/ WebLost(r)

Worker ==
  \/ \E r \in Requests : Claim(r)
  \/ Fail
  \/ GiveUp
  \/ MarkExhausted
  \/ \E answer \in Answers : Finish(answer)
  \/ Record
  \/ RecordFails
  \/ \E r \in Requests : Recover(r)

Next ==
  \/ \E r \in Requests : Take(r) \/ SendNumber(r)
  \/ \E r \in Requests : Submit(r)
  \/ Worker
  \/ Crash
  \/ \E r \in Requests : ApplyCallback(r)
  \/ \E r \in Requests : BackOffEnds(r) \/ GrowOld(r)

Spec == Init /\ [][Next]_vars

\* The timer starts the worker every minute, and time passes.  Nothing is
\* asked of the gateway, of the web processes or of crashes.
FairSpec ==
  /\ Spec
  /\ WF_vars(Worker)
  /\ \A r \in Requests : WF_vars(BackOffEnds(r)) /\ WF_vars(GrowOld(r))

-----------------------------------------------------------------------------
(* Properties.                                                             *)

\* A submission the outbox has closed is never sent again: neither the
\* recovery of stale rows, nor a late failure, nor a crash between closing it
\* and recording the answer puts it back.
ClosedForGood ==
  [][\A r \in Requests : outbox[r] \in Closed => outbox'[r] \in Closed]_vars

\* A bill on which staff will not act, since its code says accepted, owes that
\* to a submission whose closing answer had an accepting code, with or without a
\* number, or to a callback that brought the number: a crash between closing a
\* submission and recording its answer errs on the visible side.
AcceptedIsBackedUp ==
  bill.code = "accepted" =>
    \E r \in Requests : outbox[r] \in Acknowledged \/ callback[r] = "spent"

\* Where Dispatch sees a submission.
Stage(r) == CASE outbox[r] = "absent" -> "unknown"
              [] outbox[r] \in Open   -> "open"
              [] OTHER                -> outbox[r]

DispatchView == INSTANCE Dispatch WITH
  stage <- [r \in Requests |-> Stage(r)],
  heard <- {r \in Requests : callback[r] = "spent"},
  shown <- bill.code

\* The outbox implements Dispatch: whatever overlaps, crashes and is retried, a
\* submission and what it told the bill appear together, a closed one is never
\* sent again, and an acceptance the bill rests on is not withdrawn.
ImplementsDispatch == DispatchView!Spec

\* Every submission left in the outbox is closed in the end.
EverySubmissionCloses ==
  \A r \in Requests : outbox[r] \in Open ~> outbox[r] \in Closed
=============================================================================
