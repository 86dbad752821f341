------------------------------ MODULE Reception ------------------------------
(***************************************************************************)
(* The front desk and the inbox it fills: an order is received, with a     *)
(* customer on file or one met for the first time; it takes the next       *)
(* reference number of the financial year; once it is saved, the desk that *)
(* works it next is told.                                                  *)
(*                                                                         *)
(* Receiving an order is one READ COMMITTED transaction that reads the     *)
(* highest number, then inserts: two requests may read the same one, and   *)
(* the unique index makes the second insert wait for the first.  Notices   *)
(* are written after the commit, by a callback that may never run.         *)
(* An order can be soft-deleted, and restored if the index allows it.      *)
(***************************************************************************)
EXTENDS Naturals, FiniteSets

CONSTANTS
  Rows,          \* bound: the order rows
  Staff,         \* the accounts
  Receptionists, \* the accounts that may add an order
  Registrars,    \* the accounts that may add a customer
  Nobody,        \* no account
  Requests,      \* bound: orders being received at once
  FirstYear, LastYear,  \* bound: the financial years, by the year they start in
  Limit,         \* the largest sequence the fixed width holds: 99999
  Leading        \* the sequence whose digits the next one starts with: 10000

ASSUME ConstantsAssumption ==
  /\ Receptionists \subseteq Staff
  /\ Nobody \notin Staff
  /\ FirstYear \in Nat /\ LastYear \in Nat /\ FirstYear <= LastYear
  /\ Limit \in Nat /\ Leading \in 1 .. Limit /\ Leading < Limit

Years     == FirstYear .. LastYear
Sequences == 1 .. Limit + 1

VARIABLES
  year,       \* the financial year it is now
  order,      \* the order rows, deleted ones too
  customers,  \* committed customers registered with an order, by that order's row
  req,        \* orders being received
  unread      \* the notices not yet read: who is told of which order

vars == <<year, order, customers, req, unread>>

NoOrder == [state |-> "none", year |-> FirstYear, seq |-> 0, by |-> Nobody]
Order == [state : {"none", "live", "deleted"}, year : Years,
          seq : Sequences \cup {0}, by : Staff \cup {Nobody}]

Idle == [pc : {"idle"}]
Receiving == [pc : {"numbered", "inserted", "committed"}, row : Rows, by : Staff,
              new : BOOLEAN, year : Years, seq : Sequences]
Notice == [to : Staff, about : Rows]

TypeOK ==
  /\ year \in Years
  /\ order \in [Rows -> Order]
  /\ customers \subseteq Rows
  /\ req \in [Requests -> Idle \cup Receiving]
  /\ unread \subseteq Notice

Init ==
  /\ year = FirstYear
  /\ order = [o \in Rows |-> NoOrder]
  /\ customers = {}
  /\ req = [r \in Requests |-> [pc |-> "idle"]]
  /\ unread = {}

-----------------------------------------------------------------------------
(* Reference numbers.                                                      *)

\* all_objects and objects.
Saved == {o \in Rows : order[o].state # "none"}
Live  == {o \in Rows : order[o].state = "live"}

\* The sequences under one stem, soft-deleted orders included.
Taken(y) == {order[o].seq : o \in {p \in Saved : order[p].year = y}}

\* Max() compares text: one digit more sorts just after the number it starts
\* with, below all that follow it.
TextOrder(n) == IF n <= Limit THEN 2 * n ELSE 2 * Leading + 1

Peak(S) == CHOOSE n \in S : \A m \in S : TextOrder(m) <= TextOrder(n)

\* generate_reference_number.
NextSequence(S) == IF S = {} THEN 1 ELSE Peak(S) + 1

-----------------------------------------------------------------------------
(* Receiving an order.                                                     *)

Open == {r \in Requests : req[r].pc \in {"numbered", "inserted"}}

\* The id of a row to be created is never given out twice.
Free(o) == o \notin Saved /\ \A r \in Open : req[r].row # o

\* Another request has inserted this number and not committed.
InsertBlocked(y, n) == \E r \in Open :
  req[r].pc = "inserted" /\ req[r].year = y /\ req[r].seq = n

\* The unique index covers live rows only.
Conflicts(y, n) == \E o \in Live : order[o].year = y /\ order[o].seq = n

\* The request is let through, saves the customer and picks a number.
Allocate(r, u, new, o) ==
  /\ req[r].pc = "idle"
  /\ u \in Receptionists
  /\ new => u \in Registrars
  /\ Free(o)
  /\ req' = [req EXCEPT ![r] =
       [pc |-> "numbered", row |-> o, by |-> u, new |-> new, year |-> year,
        seq |-> NextSequence(Taken(year))]]
  /\ UNCHANGED <<year, order, customers, unread>>

\* desk: the active accounts that hold the subscription when it is looked up.
\* The person who acted is left out.
Told(r, desk) == {[to |-> u, about |-> req[r].row] : u \in desk \ {req[r].by}}

\* Defect: notices are written at once, not on commit.
InsertTellsAtOnce(r) ==
  /\ req[r].pc = "numbered"
  /\ ~ InsertBlocked(req[r].year, req[r].seq)
  /\ ~ Conflicts(req[r].year, req[r].seq)
  /\ req' = [req EXCEPT ![r].pc = "inserted"]
  /\ unread' = unread \cup Told(r, Staff)
  /\ UNCHANGED <<year, order, customers>>

\* Defect: the number is not unique in the database, only proposed as free.
InsertWithoutIndex(r) ==
  /\ req[r].pc = "numbered"
  /\ req' = [req EXCEPT ![r].pc = "inserted"]
  /\ UNCHANGED <<year, order, customers, unread>>

Insert(r) ==
  /\ req[r].pc = "numbered"
  /\ ~ InsertBlocked(req[r].year, req[r].seq)
  /\ ~ Conflicts(req[r].year, req[r].seq)
  /\ req' = [req EXCEPT ![r].pc = "inserted"]
  /\ UNCHANGED <<year, order, customers, unread>>

\* The index refuses the number (IntegrityError, answered with 400), or
\* anything else fails, or the process dies: all that was written is undone.
Refused(r) ==
  /\ req[r].pc \in {"numbered", "inserted"}
  /\ req' = [req EXCEPT ![r] = [pc |-> "idle"]]
  /\ UNCHANGED <<year, order, customers, unread>>

\* Defect: the order's row is written, its author is not.
CommitUnattributed(r) ==
  /\ req[r].pc = "inserted"
  /\ order' = [order EXCEPT ![req[r].row] =
       [state |-> "live", year |-> req[r].year, seq |-> req[r].seq, by |-> "system"]]
  /\ customers' = IF req[r].new THEN customers \cup {req[r].row} ELSE customers
  /\ req' = [req EXCEPT ![r].pc = "committed"]
  /\ UNCHANGED <<year, unread>>

Commit(r) ==
  /\ req[r].pc = "inserted"
  /\ order' = [order EXCEPT ![req[r].row] =
       [state |-> "live", year |-> req[r].year, seq |-> req[r].seq, by |-> req[r].by]]
  /\ customers' = IF req[r].new THEN customers \cup {req[r].row} ELSE customers
  /\ req' = [req EXCEPT ![r].pc = "committed"]
  /\ UNCHANGED <<year, unread>>

Deliver(r, desk) ==
  /\ req[r].pc = "committed"
  /\ unread' = unread \cup Told(r, desk)
  /\ req' = [req EXCEPT ![r] = [pc |-> "idle"]]
  /\ UNCHANGED <<year, order, customers>>

\* The callback fails, which is logged and no more, or the process dies.
DeliverLost(r) ==
  /\ req[r].pc = "committed"
  /\ req' = [req EXCEPT ![r] = [pc |-> "idle"]]
  /\ UNCHANGED <<year, order, customers, unread>>

-----------------------------------------------------------------------------
(* Deleting and restoring an order.                                        *)

DeleteOrder(o) ==
  /\ o \in Live
  /\ order' = [order EXCEPT ![o].state = "deleted"]
  /\ UNCHANGED <<year, customers, req, unread>>

\* A row that becomes live again must fit the index.
MayBeLive(o) ==
  /\ ~ InsertBlocked(order[o].year, order[o].seq)
  /\ \A p \in Live \ {o} : order[p].year # order[o].year \/ order[p].seq # order[o].seq

RestoreOrder(o) ==
  /\ o \in Saved \ Live
  /\ MayBeLive(o)
  /\ order' = [order EXCEPT ![o].state = "live"]
  /\ UNCHANGED <<year, customers, req, unread>>

-----------------------------------------------------------------------------
(* The inbox and the calendar.                                             *)

Unread(u) == {n \in unread : n.to = u}

\* Everyone sees their own notices; one of somebody else is not found.
Read(u, n) ==
  /\ n \in Unread(u)
  /\ unread' = unread \ {n}
  /\ UNCHANGED <<year, order, customers, req>>

ReadAll(u) ==
  /\ Unread(u) # {}
  /\ unread' = unread \ Unread(u)
  /\ UNCHANGED <<year, order, customers, req>>

July ==
  /\ year < LastYear
  /\ year' = year + 1
  /\ UNCHANGED <<order, customers, req, unread>>

-----------------------------------------------------------------------------
Receive ==
  \/ \E r \in Requests, u \in Staff, new \in BOOLEAN, o \in Rows : Allocate(r, u, new, o)
  \/ \E r \in Requests : Insert(r)
  \/ \E r \in Requests : Refused(r)
  \/ \E r \in Requests : Commit(r)
  \/ \E r \in Requests, desk \in SUBSET Staff : Deliver(r, desk)
  \/ \E r \in Requests : DeliverLost(r)

Correct ==
  \/ \E o \in Rows : DeleteOrder(o)
  \/ \E o \in Rows : RestoreOrder(o)

Attend ==
  \/ \E u \in Staff, n \in unread : Read(u, n)
  \/ \E u \in Staff : ReadAll(u)
  \/ July

Next == Receive \/ Correct \/ Attend

Spec == Init /\ [][Next]_vars

-----------------------------------------------------------------------------
(* Properties.                                                             *)

\* "The sequence restarts" each financial year and counts up, and the index
\* lets no two live orders have one number: whatever overlaps, fails, is deleted
\* or restored, the numbers of a year are 1, 2, 3 ... without a gap, they stop
\* one past what the width holds, and no live order shares its own
\* (generate_reference_number, the unique index).
NumbersGapless ==
  \A y \in Years : \E n \in 0 .. Limit + 1 : Taken(y) = 1 .. n

NumbersDistinct ==
  \A o, p \in Live : order[o].year = order[p].year /\ order[o].seq = order[p].seq => o = p

NumbersRunOn == NumbersGapless /\ NumbersDistinct

\* "A notification about an order that was never saved would send someone to a
\* record that does not exist", "what keeps a failed order from leaving an
\* orphan customer behind", and "the acting user ... already knows": a refused
\* order leaves no customer and no notice, and whoever took one in is not told.
RefusedOrderLeavesNothing ==
  /\ customers \subseteq Saved
  /\ \A n \in unread : n.about \in Saved /\ n.to # order[n.about].by
=============================================================================
