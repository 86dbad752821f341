------------------------------- MODULE Reports -------------------------------
(***************************************************************************)
(* The financial and operational reports over one order: its bill and the  *)
(* payments the gateway notifies, one stone with its findings and its      *)
(* certificate, and the records a user has deleted.  A report is a set of  *)
(* sections; each lists the rows of one source whose date lies in a range  *)
(* of days of the laboratory, and counts apart the rows without a date.    *)
(* What is outstanding is worked out from the payments in the bill's own   *)
(* currency, whereas the bill's status was decided, payment by payment,    *)
(* from all of them.                                                       *)
(*                                                                         *)
(* Notifications are handled one at a time here (Settlement overlaps       *)
(* them); a cancellation waits for the gateway while payments go on.       *)
(***************************************************************************)
EXTENDS Integers, FiniteSets, FiniteSetsExt

CONSTANTS
  Trx,        \* the gateway's transactions
  Amounts,    \* what one of them may pay
  Total,      \* what the bill charges
  NoTime,     \* no date
  LastInstant, DayLength, Offset,
              \* bounds: the clock, instants in a day, and by how many the
              \* laboratory's day starts before the one of the server's clock
  LastDay,    \* bound: the days a reader may ask for
  MaxGone     \* bound: the records deleted at once

ASSUME ReportsAssumption ==
  /\ Total \in Nat \ {0}
  /\ IsFiniteSet(Trx)
  /\ Amounts \subseteq Nat \ {0}
  /\ LastInstant \in Nat /\ LastDay \in Nat /\ MaxGone \in Nat
  /\ DayLength \in Nat \ {0} /\ Offset \in 0 .. DayLength - 1
  /\ NoTime \notin Int
  /\ LastInstant + Offset < (LastDay + 1) * DayLength  \* a report may reach any day

VARIABLES
  now,        \* the time
  bill,       \* the order's bill
  payment,    \* the payment of each transaction
  cancelling, \* a cancellation is at the gateway
  work,       \* when the order was received, its stone registered and signed off
  gone,       \* the records deleted
  restated    \* history: a transaction was notified again, differently

reportsVars == <<now, bill, payment, cancelling, work, gone, restated>>

Instants == 0 .. LastInstant
Days     == 0 .. LastDay
Times    == Instants \cup {NoTime}
Statuses == {"none", "pending", "partially_paid", "paid", "cancelled"}
Records  == {"customer", "order", "stone", "findings", "certificate"}

NoPayment == [amount |-> 0, own |-> TRUE, at |-> NoTime]
\* A notice whose date cannot be read is recorded without one.
Payment   == [amount : Amounts, own : BOOLEAN, at : Times]

\* An order is dated by the day of the server's clock.
ServerDay(i) == i \div DayLength

ReportsTypeOK ==
  /\ now \in Instants
  /\ bill \in [status : Statuses, issued : Times]
  /\ payment \in [Trx -> Payment \cup {NoPayment}]
  /\ cancelling \in BOOLEAN
  /\ work \in [received : 0 .. ServerDay(LastInstant), made : Times, signed : Times]
  /\ gone \subseteq Records
  /\ restated \in BOOLEAN

ReportsInit ==
  /\ now \in Instants
  /\ bill = [status |-> "none", issued |-> NoTime]
  /\ payment = [t \in Trx |-> NoPayment]
  /\ cancelling = FALSE
  /\ work = [received |-> ServerDay(now), made |-> NoTime, signed |-> NoTime]
  /\ gone = {}
  /\ restated = FALSE

Recorded(t) == payment[t] # NoPayment
Collected(ps, S) == MapThenSumSet(LAMBDA t : ps[t].amount, S)

-----------------------------------------------------------------------------
RegisterStone ==
  /\ work.made = NoTime
  /\ "order" \notin gone
  /\ work' = [work EXCEPT !.made = now]
  /\ UNCHANGED <<now, bill, payment, cancelling, gone, restated>>

IssueBill ==
  /\ bill.status = "none"
  /\ work.made # NoTime
  /\ gone \cap {"order", "stone"} = {}
  /\ bill' = [status |-> "pending", issued |-> now]
  /\ UNCHANGED <<now, payment, cancelling, work, gone, restated>>

\* A first delivery settles the bill, even a cancelled one, once all that was
\* paid, in any currency, reaches the total.
ApplyPayment(t, p) ==
  /\ bill.status # "none"
  /\ ~ Recorded(t)
  /\ payment' = [payment EXCEPT ![t] = p]
  /\ bill' = [bill EXCEPT !.status =
                IF Collected(payment', Trx) >= Total THEN "paid"
                                                     ELSE "partially_paid"]
  /\ UNCHANGED <<now, cancelling, work, gone, restated>>

\* A repeat rewrites the payment and returns.
Redeliver(t, p) ==
  /\ Recorded(t)
  /\ payment' = [payment EXCEPT ![t] = p]
  /\ restated' = (restated \/ p # payment[t])
  /\ UNCHANGED <<now, bill, cancelling, work, gone>>

BeginCancel ==
  /\ bill.status \in {"pending", "partially_paid"}
  /\ ~ cancelling
  /\ cancelling' = TRUE
  /\ UNCHANGED <<now, bill, payment, work, gone, restated>>

\* Defect: the gateway's code is saved as the bill's status.
EndCancelByCode ==
  /\ cancelling
  /\ cancelling' = FALSE
  /\ bill' \in {bill, [bill EXCEPT !.status = "7283"]}
  /\ UNCHANGED <<now, payment, work, gone, restated>>

\* The gateway refuses, or the bill is cancelled whatever it was paid since.
EndCancel ==
  /\ cancelling
  /\ cancelling' = FALSE
  /\ bill' \in {bill, [bill EXCEPT !.status = "cancelled"]}
  /\ UNCHANGED <<now, payment, work, gone, restated>>

\* The findings are signed off and the certificate issued in one request.
SignOff ==
  /\ bill.status = "paid"
  /\ work.signed = NoTime
  /\ work' = [work EXCEPT !.signed = now]
  /\ UNCHANGED <<now, bill, payment, cancelling, gone, restated>>

Exists(r) ==
  CASE r \in {"customer", "order"}       -> TRUE
    [] r = "stone"                       -> work.made # NoTime
    [] r \in {"findings", "certificate"} -> work.signed # NoTime

Delete(r) ==
  /\ Exists(r) /\ r \notin gone
  /\ Cardinality(gone) < MaxGone
  /\ gone' = gone \cup {r}
  /\ UNCHANGED <<now, bill, payment, cancelling, work, restated>>

Restore(r) ==
  /\ r \in gone
  /\ gone' = gone \ {r}
  /\ UNCHANGED <<now, bill, payment, cancelling, work, restated>>

Tick ==
  /\ now < LastInstant
  /\ now' = now + 1
  /\ UNCHANGED <<bill, payment, cancelling, work, gone, restated>>

ReportsNext ==
  \/ RegisterStone
  \/ IssueBill
  \/ \E t \in Trx, p \in Payment :
        p.at \in {now, NoTime} /\ (ApplyPayment(t, p) \/ Redeliver(t, p))
  \/ BeginCancel
  \/ EndCancel
  \/ SignOff
  \/ \E r \in Records : Delete(r) \/ Restore(r)
  \/ Tick

ReportsSpec == ReportsInit /\ [][ReportsNext]_reportsVars

-----------------------------------------------------------------------------
(* The sections.                                                           *)

\* Payments in another currency than the bill's are not counted.
Owed == Total - Collected(payment, {t \in Trx : payment[t].own})

\* Defect: a cancelled bill is still asked for.
OutstandingCancelledToo == bill.status # "none" /\ Owed > 0

Outstanding == bill.status \notin {"none", "cancelled"} /\ Owed > 0

\* LabDay: the day a row is shown on.  Opens: the instant a day begins.
LabDay(i) == (i + Offset) \div DayLength
Opens(d)  == d * DayLength - Offset

Row(id, at, visible) == {r \in {[id |-> id, at |-> at]} : visible}

\* The rows of a section, of any date.
Source(key) ==
  LET shown(records) == gone \cap (records \cup {"customer"}) = {} IN
  CASE key = "billing"      -> Row("bill", bill.issued,
                                   bill.status # "none" /\ shown({"order"}))
    [] key = "outstanding"  -> Row("bill", bill.issued,
                                   Outstanding /\ shown({"order"}))
    [] key = "collections"  -> UNION {Row(t, payment[t].at,
                                   Recorded(t) /\ shown({"order"})) : t \in Trx}
    [] key = "orders"       -> Row("order", work.received, shown({"order"}))
    [] key = "stones"       -> Row("stone", work.made, Exists("stone")
                                   /\ shown({"order", "stone"}))
    [] key = "findings"     -> Row("findings", work.signed, Exists("findings")
                                   /\ shown({"order", "stone", "findings"}))
    [] key = "certificates" -> Row("certificate", work.signed,
                                   Exists("certificate")
                                   /\ shown({"order", "stone", "certificate"}))

Sections == {"billing", "outstanding", "collections", "orders", "stones",
             "findings", "certificates"}

Undated(key) == {r \in Source(key) : r.at = NoTime}

\* Defect: the day after the range is let in with its first instant.
InRangeInclusive(key, from, to) ==
  {r \in Source(key) \ Undated(key) :
     IF key = "orders" THEN r.at \in from .. to
                       ELSE r.at \in Opens(from) .. Opens(to + 1)}

InRange(key, from, to) ==
  {r \in Source(key) \ Undated(key) :
     IF key = "orders" THEN r.at \in from .. to
                       ELSE r.at >= Opens(from) /\ r.at < Opens(to + 1)}

ShownOn(key, r) == IF key = "orders" THEN r.at ELSE LabDay(r.at)

-----------------------------------------------------------------------------
(* Properties.                                                             *)

Foreign == {t \in Trx : ~ payment[t].own}

\* _outstanding_source against _apply_payment: what is listed as owed and what
\* the status says agree as long as every payment is in the bill's currency
\* and none was notified again with other contents, whatever was cancelled or
\* paid late in between.  A payment in another currency may leave a paid bill
\* outstanding, but never takes a part-paid one off the list.
OutstandingIsOwed ==
  ~ restated =>
    /\ bill.status = "partially_paid" => Outstanding
    /\ Foreign = {} => (Outstanding <=> bill.status \in {"pending", "partially_paid"})

\* Reports of consecutive ranges add up, with no row twice or lost at midnight:
\* every dated row is in the report of exactly the days of the range it is
\* shown on, and the undated ones are the rest.
RangesAddUp ==
  \A key \in Sections :
    /\ \A from, to \in Days : InRange(key, from, to) =
         UNION {{r \in Source(key) \ Undated(key) : ShownOn(key, r) = d} : d \in from .. to}
    /\ Source(key) = InRange(key, 0, LastDay) \cup Undated(key)
=============================================================================
