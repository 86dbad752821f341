---------------------------- MODULE OfficeProofs ----------------------------
(***************************************************************************)
(* Theorems of Reception, for any number of rows, clerks, overlapping      *)
(* requests and financial years, and for any width of the sequence; then   *)
(* theorems of Reports, for any set of transactions, any amounts and any   *)
(* clock.  The two specifications share no state.                          *)
(***************************************************************************)
EXTENDS Reception, Reports, FiniteSetTheorems, WellFoundedInduction, TLAPS

\* A request that has a number continues the run of its year, owns its row,
\* and, once committed, its row is saved under the clerk who took the order.
Numbered ==
  \A r \in Open : /\ req[r].row \notin Saved
                  /\ req[r].seq = 1 \/ req[r].seq - 1 \in Taken(req[r].year)
                  /\ \A q \in Open : req[q].row = req[r].row => q = r

Committed ==
  \A r \in Requests : req[r].pc = "committed" =>
    /\ req[r].row \in Saved
    /\ order[req[r].row].by = req[r].by

IInv == TypeOK /\ Numbered /\ Committed /\ NumbersGapless /\ RefusedOrderLeavesNothing

-----------------------------------------------------------------------------
(* The next number.                                                        *)

\* After 1 .. n comes n + 1, but after Limit + 1 the text order makes the scan
\* return Limit once more, and Limit + 1 is proposed again.
LEMMA NextContinues ==
  ASSUME NEW n \in 0 .. Limit + 1
  PROVE  /\ NextSequence(1 .. n) \in Sequences
         /\ NextSequence(1 .. n) = 1 \/ NextSequence(1 .. n) - 1 \in 1 .. n
<1>1. CASE n = 0
  <2>1. 1 .. n = {}
    BY <1>1
  <2> QED
    BY <2>1, ConstantsAssumption DEF NextSequence, Sequences
<1>2. CASE n > 0
  <2> DEFINE top == IF n <= Limit THEN n ELSE Limit
             IsPeak(k) == \A m \in 1 .. n : TextOrder(m) <= TextOrder(k)
  <2>1. top \in 1 .. n /\ top <= Limit
    BY <1>2, ConstantsAssumption
  <2>2. IsPeak(top)
    <3> SUFFICES ASSUME NEW m \in 1 .. n
                 PROVE  TextOrder(m) <= TextOrder(top)
      OBVIOUS
    <3>1. CASE m <= Limit
      BY <3>1, <2>1, ConstantsAssumption DEF TextOrder
    <3>2. CASE m > Limit
      <4>1. top = Limit
        BY <3>2, ConstantsAssumption
      <4>2. 2 * Leading + 1 <= 2 * Limit
        BY ConstantsAssumption
      <4> QED
        BY <4>1, <4>2, <3>2, ConstantsAssumption DEF TextOrder
    <3> QED
      BY <3>1, <3>2, ConstantsAssumption
  <2>3. ASSUME NEW k \in 1 .. n, IsPeak(k)
        PROVE  k = top
    <3>1. TextOrder(top) <= TextOrder(k)
      BY <2>1, <2>3
    <3>2. CASE k <= Limit
      BY <3>1, <3>2, <2>1, ConstantsAssumption DEF TextOrder
    <3>3. CASE k > Limit
      <4>1. top = Limit /\ 2 * Leading + 1 < 2 * Limit
        BY <3>3, ConstantsAssumption
      <4> QED
        BY <4>1, <3>1, <3>3, ConstantsAssumption DEF TextOrder
    <3> QED
      BY <3>2, <3>3, ConstantsAssumption
  <2>4. Peak(1 .. n) = top
    <3> HIDE DEF top
    <3>1. Peak(1 .. n) = CHOOSE k \in 1 .. n : IsPeak(k)
      BY DEF Peak
    <3>2. \E k \in 1 .. n : IsPeak(k)
      BY <2>1, <2>2
    <3> HIDE DEF IsPeak
    <3> QED
      BY <3>1, <3>2, <2>3
  <2>5. 1 .. n # {}
    BY <2>1
  <2>6. NextSequence(1 .. n) = top + 1
    BY <2>4, <2>5 DEF NextSequence
  <2> HIDE DEF top
  <2> QED
    BY <2>1, <2>6, ConstantsAssumption DEF Sequences
<1> QED
  BY <1>1, <1>2, ConstantsAssumption

-----------------------------------------------------------------------------
(* The inductive invariant.                                                *)

LEMMA InitIInv == Init => IInv
<1> SUFFICES ASSUME Init
             PROVE  IInv
  OBVIOUS
<1>1. TypeOK
  BY ConstantsAssumption DEF Init, TypeOK, NoOrder, Order, Idle, Years, Sequences
<1>2. Open = {} /\ Saved = {}
  BY DEF Init, Open, Saved, NoOrder
<1>3. NumbersGapless
  <2>1. \A y \in Years : Taken(y) = 1 .. 0
    BY <1>2 DEF Taken
  <2> QED
    BY <2>1, ConstantsAssumption DEF NumbersGapless
<1> QED
  BY <1>1, <1>2, <1>3 DEF IInv, Numbered, Committed, RefusedOrderLeavesNothing, Init

\* What a step that leaves the orders and their requests alone preserves.
LEMMA OrdersUntouched ==
  ASSUME IInv, UNCHANGED <<order, req>>
  PROVE  Numbered' /\ Committed' /\ NumbersGapless' /\ Saved' = Saved
BY DEF IInv, Numbered, Committed, NumbersGapless, Open, Saved, Taken

LEMMA AllocateStep ==
  ASSUME IInv, NEW r \in Requests, NEW u \in Staff, NEW new \in BOOLEAN,
         NEW o \in Rows, Allocate(r, u, new, o)
  PROVE  IInv'
<1> USE DEF IInv
<1> DEFINE n == NextSequence(Taken(year))
<1>1. PICK k \in 0 .. Limit + 1 : Taken(year) = 1 .. k
  BY DEF NumbersGapless, TypeOK
<1>2. n \in Sequences /\ (n = 1 \/ n - 1 \in Taken(year))
  BY <1>1, NextContinues
<1>3. req' = [req EXCEPT ![r] = [pc |-> "numbered", row |-> o, by |-> u, new |-> new,
                                 year |-> year, seq |-> n]]
  BY DEF Allocate
<1> HIDE DEF n
<1>4. Saved' = Saved /\ \A y : Taken(y)' = Taken(y)
  BY DEF Allocate, Saved, Taken
<1>5. Open' = Open \cup {r} /\ \A q \in Open : q # r /\ req'[q] = req[q]
  BY <1>3 DEF Allocate, Open, TypeOK
<1>6. req'[r] = [pc |-> "numbered", row |-> o, by |-> u, new |-> new,
                 year |-> year, seq |-> n]
  BY <1>3 DEF TypeOK
<1>7. TypeOK'
  <2>1. req'[r] \in Receiving
    BY <1>2, <1>6 DEF TypeOK, Receiving
  <2>2. req' \in [Requests -> Idle \cup Receiving]
    BY <2>1, <1>3 DEF TypeOK
  <2> QED
    BY <2>2 DEF Allocate, TypeOK
<1>8. Numbered'
  <2>1. o \notin Saved /\ \A q \in Open : req[q].row # o
    BY DEF Allocate, Free
  <2>2. ASSUME NEW q \in Open'
        PROVE  /\ req'[q].row \notin Saved
               /\ req'[q].seq = 1 \/ req'[q].seq - 1 \in Taken(req'[q].year)
    BY <2>1, <1>2, <1>5, <1>6 DEF Numbered
  <2>3. ASSUME NEW p \in Open', NEW q \in Open', req'[q].row = req'[p].row
        PROVE  q = p
    BY <2>1, <2>3, <1>5, <1>6 DEF Numbered
  <2> QED
    BY <2>2, <2>3, <1>4 DEF Numbered
<1>9. Committed'
  <2>1. \A q \in Requests : q # r => req'[q] = req[q]
    BY <1>3 DEF TypeOK
  <2>2. order' = order
    BY DEF Allocate
  <2> QED
    BY <2>1, <2>2, <1>4, <1>6 DEF Committed
<1>10. NumbersGapless'
  BY <1>4 DEF NumbersGapless
<1>11. RefusedOrderLeavesNothing'
  BY <1>4 DEF Allocate, RefusedOrderLeavesNothing
<1> QED
  BY <1>7, <1>8, <1>9, <1>10, <1>11

LEMMA InsertStep ==
  ASSUME IInv, NEW r \in Requests, Insert(r)
  PROVE  IInv'
<1> USE DEF IInv
<1>1. req[r] \in Receiving /\ req' = [req EXCEPT ![r].pc = "inserted"]
  BY DEF Insert, TypeOK, Idle
<1>2. /\ req'[r] = [req[r] EXCEPT !.pc = "inserted"]
      /\ \A q \in Requests : q # r => req'[q] = req[q]
  BY <1>1 DEF TypeOK
<1>3. req'[r] \in Receiving
  BY <1>1, <1>2 DEF Receiving
<1>4. TypeOK'
  <2>1. req' \in [Requests -> Idle \cup Receiving]
    BY <1>1, <1>3, <1>2 DEF TypeOK
  <2> QED
    BY <2>1 DEF Insert, TypeOK
<1>5. /\ req'[r].pc = "inserted" /\ req'[r].row = req[r].row
      /\ req'[r].seq = req[r].seq /\ req'[r].year = req[r].year
  BY <1>1, <1>2 DEF Receiving
<1>6. Open' = Open /\ r \in Open
  BY <1>2, <1>5 DEF Insert, Open
<1>7. Saved' = Saved /\ (\A y : Taken(y)' = Taken(y)) /\ order' = order
  BY DEF Insert, Saved, Taken
<1>8. \A q \in Open : /\ req'[q].row = req[q].row
                      /\ req'[q].seq = req[q].seq /\ req'[q].year = req[q].year
  BY <1>2, <1>5 DEF Open
<1>9. Numbered'
  BY <1>6, <1>7, <1>8 DEF Numbered
<1>10. Committed'
  BY <1>2, <1>5, <1>7 DEF Committed
<1> QED
  BY <1>4, <1>7, <1>9, <1>10 DEF NumbersGapless, RefusedOrderLeavesNothing, Insert

\* A request that ends without a trace.
LEMMA EndStep ==
  ASSUME IInv, NEW r \in Requests, req' = [req EXCEPT ![r] = [pc |-> "idle"]],
         UNCHANGED <<year, order>>
  PROVE  /\ req' \in [Requests -> Idle \cup Receiving]
         /\ Numbered' /\ Committed' /\ NumbersGapless' /\ Saved' = Saved
<1> USE DEF IInv
<1>1. req'[r].pc = "idle" /\ \A q \in Requests : q # r => req'[q] = req[q]
  BY DEF TypeOK
<1>2. req' \in [Requests -> Idle \cup Receiving]
  BY DEF TypeOK, Idle
<1>3. Open' = Open \ {r}
  BY <1>1 DEF Open
<1>4. Saved' = Saved /\ \A y : Taken(y)' = Taken(y)
  BY DEF Saved, Taken
<1>5. Numbered'
  BY <1>1, <1>3, <1>4 DEF Numbered, Open
<1>6. Committed'
  BY <1>1, <1>4 DEF Committed
<1> QED
  BY <1>2, <1>4, <1>5, <1>6 DEF NumbersGapless

LEMMA CommitStep ==
  ASSUME IInv, NEW r \in Requests, Commit(r)
  PROVE  IInv'
<1> USE DEF IInv
<1> DEFINE o == req[r].row
           row == [state |-> "live", year |-> req[r].year, seq |-> req[r].seq,
                   by |-> req[r].by]
<1>1. /\ req[r] \in Receiving /\ r \in Open
      /\ req' = [req EXCEPT ![r].pc = "committed"]
      /\ order' = [order EXCEPT ![o] = row]
  BY DEF Commit, TypeOK, Idle, Open
<1>2. /\ o \in Rows /\ req[r].year \in Years /\ req[r].seq \in Sequences
      /\ req[r].by \in Staff /\ req[r].new \in BOOLEAN
  BY <1>1 DEF Receiving
<1>3. order'[o] = row /\ \A p \in Rows : p # o => order'[p] = order[p]
  BY <1>1, <1>2 DEF TypeOK
<1>4. req'[r] = [req[r] EXCEPT !.pc = "committed"]
  BY <1>1 DEF TypeOK
<1>5. /\ req'[r].pc = "committed" /\ req'[r].row = o /\ req'[r].by = req[r].by
      /\ req'[r] \in Receiving
  BY <1>1, <1>4 DEF Receiving
<1>6. \A q \in Requests : q # r => req'[q] = req[q]
  BY <1>1 DEF TypeOK
<1>7. TypeOK'
  <2>1. row \in Order
    BY <1>2 DEF Order
  <2>2. order' \in [Rows -> Order]
    BY <2>1, <1>1 DEF TypeOK
  <2>3. req' \in [Requests -> Idle \cup Receiving]
    BY <1>1, <1>5 DEF TypeOK
  <2> QED
    BY <2>2, <2>3, <1>2 DEF Commit, TypeOK
<1> HIDE DEF o
<1>8. /\ row.state = "live" /\ row.year = req[r].year
      /\ row.seq = req[r].seq /\ row.by = req[r].by
  OBVIOUS
<1> HIDE DEF row
<1>9. Saved' = Saved \cup {o} /\ o \notin Saved
  <2>1. o \notin Saved
    BY <1>1 DEF Numbered, o
  <2> QED
    BY <2>1, <1>2, <1>3, <1>8 DEF Saved
<1>10. \A y : Taken(y)' = IF y = req[r].year THEN Taken(y) \cup {req[r].seq}
                                             ELSE Taken(y)
  <2> SUFFICES ASSUME NEW y
               PROVE  Taken(y)' = IF y = req[r].year THEN Taken(y) \cup {req[r].seq}
                                                     ELSE Taken(y)
    OBVIOUS
  <2> DEFINE A == {p \in Saved : order[p].year = y}
             B == {p \in Saved' : order'[p].year = y}
  <2>1. \A p \in Saved : p \in Rows /\ order'[p] = order[p]
    BY <1>3, <1>9 DEF Saved
  <2>2. B = IF y = req[r].year THEN A \cup {o} ELSE A
    BY <2>1, <1>3, <1>8, <1>9
  <2>3. Taken(y) = {order[p].seq : p \in A} /\ Taken(y)' = {order'[p].seq : p \in B}
    BY DEF Taken
  <2>4. \A p \in A : order'[p] = order[p]
    BY <2>1
  <2>5. order'[o].seq = req[r].seq
    BY <1>3, <1>8
  <2> HIDE DEF A, B
  <2> QED
    BY <2>2, <2>3, <2>4, <2>5
<1>11. Open' = Open \ {r} /\ Open \subseteq Requests
  BY <1>5, <1>6 DEF Open
<1>12. Numbered'
  <2> SUFFICES ASSUME NEW q \in Open'
               PROVE  (/\ req[q].row \notin Saved
                       /\ req[q].seq = 1 \/ req[q].seq - 1 \in Taken(req[q].year)
                       /\ \A p \in Open : req[p].row = req[q].row => p = q)'
    BY DEF Numbered
  <2>0. \A p \in Open' : p \in Open /\ req'[p] = req[p]
    BY <1>6, <1>11
  <2>1. q \in Open /\ q # r /\ req'[q] = req[q]
    BY <2>0, <1>11
  <2>2. req[q].row # o
    BY <2>1, <1>1 DEF Numbered, o
  <2>3. (req[q].seq = 1 \/ req[q].seq - 1 \in Taken(req[q].year))'
    BY <2>1, <1>10 DEF Numbered
  <2>4. req[q].row \notin Saved'
    BY <2>1, <2>2, <1>9 DEF Numbered
  <2>5. \A p \in Open' : req'[p].row = req'[q].row => p = q
    BY <2>0, <2>1 DEF Numbered
  <2> QED
    BY <2>1, <2>3, <2>4, <2>5
<1>13. Committed'
  <2> SUFFICES ASSUME NEW q \in Requests, req'[q].pc = "committed"
               PROVE  req'[q].row \in Saved' /\ order'[req'[q].row].by = req'[q].by
    BY DEF Committed
  <2>1. CASE q = r
    BY <2>1, <1>3, <1>5, <1>8, <1>9
  <2>2. CASE q # r
    <3>1. req'[q] = req[q] /\ req[q].row \in Saved /\ order[req[q].row].by = req[q].by
      BY <2>2, <1>6 DEF Committed
    <3>2. req[q].row \in Rows /\ req[q].row # o
      BY <3>1, <1>9 DEF Saved
    <3>3. order'[req[q].row] = order[req[q].row]
      BY <3>2, <1>3
    <3> QED
      BY <3>1, <3>3, <1>9
  <2> QED
    BY <2>1, <2>2
<1>14. NumbersGapless'
  <2> SUFFICES ASSUME NEW y \in Years
               PROVE  \E n \in 0 .. Limit + 1 : Taken(y)' = 1 .. n
    BY DEF NumbersGapless
  <2>1. PICK n \in 0 .. Limit + 1 : Taken(y) = 1 .. n
    BY DEF NumbersGapless
  <2>2. CASE y # req[r].year
    BY <2>1, <2>2, <1>10
  <2>3. CASE y = req[r].year
    <3>1. req[r].seq = 1 \/ req[r].seq - 1 \in 1 .. n
      BY <2>1, <2>3, <1>1 DEF Numbered
    <3>2. req[r].seq \in 1 .. Limit + 1
      BY <1>2 DEF Sequences
    <3>3. Taken(y)' = (1 .. n) \cup {req[r].seq}
      BY <2>1, <2>3, <1>10
    <3>4. CASE req[r].seq <= n
      BY <3>2, <3>3, <3>4, ConstantsAssumption
    <3>5. CASE req[r].seq > n
      <4>1. req[r].seq = n + 1
        BY <3>1, <3>2, <3>5, ConstantsAssumption
      <4>2. (1 .. n) \cup {n + 1} = 1 .. (n + 1)
        OBVIOUS
      <4> QED
        BY <4>1, <4>2, <3>2, <3>3, ConstantsAssumption
    <3> QED
      BY <3>2, <3>4, <3>5, ConstantsAssumption
  <2> QED
    BY <2>2, <2>3
<1>15. RefusedOrderLeavesNothing'
  <2>1. unread' = unread /\ customers' \subseteq customers \cup {o}
    BY DEF Commit, o
  <2>2. \A p \in Saved : p # o /\ order'[p] = order[p]
    BY <1>3, <1>9 DEF Saved
  <2> QED
    BY <2>1, <2>2, <1>9 DEF RefusedOrderLeavesNothing
<1> QED
  BY <1>7, <1>12, <1>13, <1>14, <1>15

LEMMA DeliverStep ==
  ASSUME IInv, NEW r \in Requests, NEW desk \in SUBSET Staff, Deliver(r, desk)
  PROVE  IInv'
<1>1. /\ req' \in [Requests -> Idle \cup Receiving]
      /\ Numbered' /\ Committed' /\ NumbersGapless' /\ Saved' = Saved
  BY EndStep DEF Deliver
<1>2. req[r] \in Receiving /\ req[r].row \in Rows /\ req[r].by \in Staff
  BY DEF Deliver, IInv, TypeOK, Idle, Receiving
<1>3. \A n \in Told(r, desk) : /\ n \in Notice
                               /\ n.about = req[r].row /\ n.to # req[r].by
  BY <1>2 DEF Told, Notice
<1>4. req[r].row \in Saved /\ order[req[r].row].by = req[r].by
  BY DEF Deliver, IInv, Committed
<1>5. TypeOK'
  BY <1>1, <1>3 DEF Deliver, IInv, TypeOK
<1>6. RefusedOrderLeavesNothing'
  BY <1>1, <1>3, <1>4 DEF Deliver, IInv, RefusedOrderLeavesNothing
<1> QED
  BY <1>1, <1>5, <1>6 DEF IInv

\* Deleting or restoring an order changes none of its number, year and author.
LEMMA StateStep ==
  ASSUME IInv, NEW o \in Saved, NEW s \in {"live", "deleted"},
         order' = [order EXCEPT ![o].state = s],
         UNCHANGED <<year, customers, req, unread>>
  PROVE  IInv'
<1> USE DEF IInv
<1>1. o \in Rows /\ order[o] \in Order
  BY DEF Saved, TypeOK
<1>2. order'[o] = [order[o] EXCEPT !.state = s] /\ order'[o] \in Order
  BY <1>1 DEF TypeOK, Order
<1>3. \A p \in Rows : p # o => order'[p] = order[p]
  BY <1>1 DEF TypeOK
<1>4. \A p \in Rows : /\ order'[p].year = order[p].year
                      /\ order'[p].seq = order[p].seq
                      /\ order'[p].by = order[p].by
  BY <1>1, <1>2, <1>3 DEF Order
<1>5. order'[o].state = s
  BY <1>1, <1>2 DEF Order
<1>6. TypeOK'
  <2>1. order' \in [Rows -> Order]
    BY <1>1, <1>2 DEF TypeOK
  <2> QED
    BY <2>1 DEF TypeOK
<1>7. Saved' = Saved
  BY <1>3, <1>5 DEF Saved
<1>8. \A y : Taken(y)' = Taken(y)
  <2>1. \A p \in Saved : p \in Rows
    BY DEF Saved
  <2> QED
    BY <2>1, <1>4, <1>7 DEF Taken
<1>9. Numbered'
  BY <1>7, <1>8 DEF Numbered, Open
<1>10. Committed'
  BY <1>4, <1>7 DEF Committed, Saved
<1>11. NumbersGapless'
  BY <1>8 DEF NumbersGapless
<1>12. RefusedOrderLeavesNothing'
  BY <1>4, <1>7 DEF RefusedOrderLeavesNothing, Saved
<1> QED
  BY <1>6, <1>9, <1>10, <1>11, <1>12

LEMMA NextIInv == IInv /\ [Next]_vars => IInv'
<1> SUFFICES ASSUME IInv, [Next]_vars
             PROVE  IInv'
  OBVIOUS
<1>1. ASSUME NEW r \in Requests, NEW u \in Staff, NEW new \in BOOLEAN, NEW o \in Rows,
             Allocate(r, u, new, o)
      PROVE  IInv'
  BY <1>1, AllocateStep
<1>2. ASSUME NEW r \in Requests, Insert(r)
      PROVE  IInv'
  BY <1>2, InsertStep
<1>3. ASSUME NEW r \in Requests, Refused(r) \/ DeliverLost(r)
      PROVE  IInv'
  <2>1. /\ req' \in [Requests -> Idle \cup Receiving]
        /\ Numbered' /\ Committed' /\ NumbersGapless' /\ Saved' = Saved
    BY <1>3, EndStep DEF Refused, DeliverLost
  <2> QED
    BY <1>3, <2>1 DEF Refused, DeliverLost, IInv, TypeOK, RefusedOrderLeavesNothing
<1>4. ASSUME NEW r \in Requests, Commit(r)
      PROVE  IInv'
  BY <1>4, CommitStep
<1>5. ASSUME NEW r \in Requests, NEW desk \in SUBSET Staff, Deliver(r, desk)
      PROVE  IInv'
  BY <1>5, DeliverStep
<1>6. ASSUME NEW o \in Rows, DeleteOrder(o)
      PROVE  IInv'
  BY <1>6, StateStep DEF DeleteOrder, Live, Saved
<1>7. ASSUME NEW o \in Rows, RestoreOrder(o)
      PROVE  IInv'
  BY <1>7, StateStep DEF RestoreOrder
<1>8. ASSUME Attend
      PROVE  IInv'
  <2>1. UNCHANGED <<order, req, customers>> /\ unread' \subseteq unread
    BY <1>8 DEF Attend, Read, ReadAll, July
  <2>2. Numbered' /\ Committed' /\ NumbersGapless' /\ Saved' = Saved
    BY <2>1, OrdersUntouched
  <2>3. year' \in Years
    BY <1>8, ConstantsAssumption DEF Attend, Read, ReadAll, July, IInv, TypeOK, Years
  <2> QED
    BY <2>1, <2>2, <2>3 DEF IInv, TypeOK, RefusedOrderLeavesNothing
<1>9. CASE UNCHANGED vars
  <2>1. Numbered' /\ Committed' /\ NumbersGapless' /\ Saved' = Saved
    BY <1>9, OrdersUntouched DEF vars
  <2> QED
    BY <1>9, <2>1 DEF vars, IInv, TypeOK, RefusedOrderLeavesNothing
<1> QED
  BY <1>1, <1>2, <1>3, <1>4, <1>5, <1>6, <1>7, <1>8, <1>9 DEF Next, Receive, Correct

LEMMA Invariant == Spec => []IInv
BY InitIInv, NextIInv, PTL DEF Spec

-----------------------------------------------------------------------------
(* No two live orders with one number.                                     *)

\* A number that has been inserted and not committed is already held: no live
\* order has it and no other request has inserted it.
NumbersHeld ==
  \A r \in Requests : req[r].pc = "inserted" =>
    /\ \A o \in Live : order[o].year # req[r].year \/ order[o].seq # req[r].seq
    /\ \A q \in Requests :
         /\ req[q].pc = "inserted" /\ req[q].year = req[r].year /\ req[q].seq = req[r].seq
         => q = r

Distinct == NumbersDistinct /\ NumbersHeld

LEMMA InitDistinct == Init => Distinct
BY DEF Init, NoOrder, Distinct, NumbersDistinct, NumbersHeld, Live

\* A step after which no order has become live or changed its number, and no
\* request has inserted one.
LEMMA NothingNewHeld ==
  ASSUME Distinct,
         \A o \in Live' : /\ o \in Live /\ order'[o].year = order[o].year
                          /\ order'[o].seq = order[o].seq,
         \A r \in Requests : req'[r].pc = "inserted" => req'[r] = req[r]
  PROVE  Distinct'
<1>1. NumbersDistinct'
  BY DEF Distinct, NumbersDistinct
<1>2. NumbersHeld'
  BY DEF Distinct, NumbersHeld
<1> QED
  BY <1>1, <1>2 DEF Distinct

LEMMA InsertDistinct ==
  ASSUME TypeOK, Distinct, NEW r \in Requests, Insert(r)
  PROVE  Distinct'
<1>1. req[r] \in Receiving /\ req' = [req EXCEPT ![r].pc = "inserted"]
  BY DEF Insert, TypeOK, Idle
<1>2. /\ req'[r].year = req[r].year /\ req'[r].seq = req[r].seq
      /\ \A q \in Requests : q # r => req'[q] = req[q]
  BY <1>1 DEF TypeOK, Receiving
<1>3. Live' = Live /\ order' = order
  BY DEF Insert, Live
<1>4. \A o \in Live : order[o].year # req[r].year \/ order[o].seq # req[r].seq
  BY DEF Insert, Conflicts
<1>5. \A q \in Requests : req[q].pc = "inserted" =>
        req[q].year # req[r].year \/ req[q].seq # req[r].seq
  BY DEF Insert, InsertBlocked, Open
<1>6. ASSUME NEW q \in Requests, req'[q].pc = "inserted"
      PROVE  /\ \A o \in Live : \/ order[o].year # req'[q].year
                                \/ order[o].seq # req'[q].seq
             /\ \A p \in Requests :
                  /\ req'[p].pc = "inserted"
                  /\ req'[p].year = req'[q].year /\ req'[p].seq = req'[q].seq
                  => p = q
  <2>1. CASE q = r
    <3>1. \A p \in Requests : p # r /\ req'[p].pc = "inserted" =>
            req'[p].year # req[r].year \/ req'[p].seq # req[r].seq
      BY <1>2, <1>5
    <3> QED
      BY <2>1, <3>1, <1>2, <1>4
  <2>2. CASE q # r
    <3>1. req'[q] = req[q] /\ req[q].pc = "inserted"
      BY <2>2, <1>2, <1>6
    <3>2. \A o \in Live : \/ order[o].year # req'[q].year
                          \/ order[o].seq # req'[q].seq
      BY <3>1 DEF Distinct, NumbersHeld
    <3>3. ASSUME NEW p \in Requests, req'[p].pc = "inserted",
                 req'[p].year = req'[q].year, req'[p].seq = req'[q].seq
          PROVE  p = q
      <4>1. p # r
        BY <3>1, <3>3, <1>2, <1>5
      <4>2. req'[p] = req[p]
        BY <4>1, <1>2
      <4> QED
        BY <3>1, <3>3, <4>2 DEF Distinct, NumbersHeld
    <3> QED
      BY <3>2, <3>3
  <2> QED
    BY <2>1, <2>2
<1>7. NumbersHeld'
  BY <1>3, <1>6 DEF NumbersHeld
<1>8. NumbersDistinct'
  BY <1>3 DEF Distinct, NumbersDistinct
<1> QED
  BY <1>7, <1>8 DEF Distinct

LEMMA CommitDistinct ==
  ASSUME TypeOK, Distinct, NEW r \in Requests, Commit(r)
  PROVE  Distinct'
<1> DEFINE o == req[r].row
           row == [state |-> "live", year |-> req[r].year, seq |-> req[r].seq,
                   by |-> req[r].by]
<1>1. /\ req[r] \in Receiving /\ req[r].pc = "inserted"
      /\ req' = [req EXCEPT ![r].pc = "committed"]
      /\ order' = [order EXCEPT ![o] = row]
  BY DEF Commit, TypeOK, Idle
<1>2. o \in Rows
  BY <1>1 DEF Receiving
<1>3. order'[o] = row /\ \A p \in Rows : p # o => order'[p] = order[p]
  BY <1>1, <1>2 DEF TypeOK
<1>4. req'[r].pc = "committed" /\ \A q \in Requests : q # r => req'[q] = req[q]
  BY <1>1 DEF TypeOK, Receiving
<1> HIDE DEF o
<1>5. row.year = req[r].year /\ row.seq = req[r].seq
  OBVIOUS
<1> HIDE DEF row
<1>6. /\ order'[o].year = req[r].year /\ order'[o].seq = req[r].seq
      /\ \A p \in Live' : p = o \/ (p \in Live /\ order'[p] = order[p])
  BY <1>3, <1>5 DEF Live
<1>7. \A p \in Live : order[p].year # req[r].year \/ order[p].seq # req[r].seq
  BY <1>1 DEF Distinct, NumbersHeld
<1>8. NumbersDistinct'
  <2> SUFFICES ASSUME NEW p \in Live', NEW q \in Live',
                      order'[p].year = order'[q].year, order'[p].seq = order'[q].seq
               PROVE  p = q
    BY DEF NumbersDistinct
  <2>1. CASE p = o \/ q = o
    BY <2>1, <1>6, <1>7
  <2>2. CASE p # o /\ q # o
    BY <2>2, <1>6 DEF Distinct, NumbersDistinct
  <2> QED
    BY <2>1, <2>2
<1>9. NumbersHeld'
  <2> SUFFICES ASSUME NEW q \in Requests, req'[q].pc = "inserted"
               PROVE  /\ \A p \in Live' : \/ order'[p].year # req'[q].year
                                          \/ order'[p].seq # req'[q].seq
                      /\ \A p \in Requests :
                           /\ req'[p].pc = "inserted"
                           /\ req'[p].year = req'[q].year /\ req'[p].seq = req'[q].seq
                           => p = q
    BY DEF NumbersHeld
  <2>1. q # r /\ req'[q] = req[q] /\ req[q].pc = "inserted"
    BY <1>4
  <2>2. \A p \in Live : order[p].year # req[q].year \/ order[p].seq # req[q].seq
    BY <2>1 DEF Distinct, NumbersHeld
  <2>3. req[r].year # req[q].year \/ req[r].seq # req[q].seq
    BY <2>1, <1>1 DEF Distinct, NumbersHeld
  <2>4. \A p \in Live' : \/ order'[p].year # req'[q].year
                        \/ order'[p].seq # req'[q].seq
    BY <2>1, <2>2, <2>3, <1>6
  <2>5. \A p \in Requests : req'[p].pc = "inserted" => req'[p] = req[p]
    BY <1>4
  <2> QED
    BY <2>1, <2>4, <2>5 DEF Distinct, NumbersHeld
<1> QED
  BY <1>8, <1>9 DEF Distinct

LEMMA RestoreDistinct ==
  ASSUME TypeOK, Distinct, NEW o \in Rows, RestoreOrder(o)
  PROVE  Distinct'
<1>1. /\ order' = [order EXCEPT ![o].state = "live"] /\ order[o] \in Order
      /\ req' = req
  BY DEF RestoreOrder, TypeOK
<1>2. \A p \in Rows : /\ order'[p].year = order[p].year
                      /\ order'[p].seq = order[p].seq
                      /\ p # o => order'[p] = order[p]
  BY <1>1 DEF TypeOK, Order
<1>3. \A p \in Live' : p \in Rows /\ (p = o \/ p \in Live)
  BY <1>2 DEF Live
<1>4. \A p \in Live \ {o} : order[p].year # order[o].year \/ order[p].seq # order[o].seq
  BY DEF RestoreOrder, MayBeLive
<1>5. \A r \in Requests : req[r].pc = "inserted" =>
        req[r].year # order[o].year \/ req[r].seq # order[o].seq
  BY DEF RestoreOrder, MayBeLive, InsertBlocked, Open
<1>6. NumbersDistinct'
  <2> SUFFICES ASSUME NEW p \in Live', NEW q \in Live',
                      order'[p].year = order'[q].year, order'[p].seq = order'[q].seq
               PROVE  p = q
    BY DEF NumbersDistinct
  <2>1. order[p].year = order[q].year /\ order[p].seq = order[q].seq
    BY <1>2, <1>3
  <2> QED
    BY <2>1, <1>3, <1>4 DEF Distinct, NumbersDistinct
<1>7. \A r \in Requests : req[r].pc = "inserted" => \A p \in Live' :
        order'[p].year # req[r].year \/ order'[p].seq # req[r].seq
  BY <1>2, <1>3, <1>5 DEF Distinct, NumbersHeld
<1>8. NumbersHeld'
  BY <1>1, <1>7 DEF Distinct, NumbersHeld
<1> QED
  BY <1>6, <1>8 DEF Distinct

LEMMA NextDistinct == TypeOK /\ Distinct /\ [Next]_vars => Distinct'
<1> SUFFICES ASSUME TypeOK, Distinct, [Next]_vars
             PROVE  Distinct'
  OBVIOUS
<1>1. ASSUME NEW r \in Requests, NEW u \in Staff, NEW new \in BOOLEAN, NEW o \in Rows,
             Allocate(r, u, new, o)
      PROVE  Distinct'
  <2>1. /\ req'[r].pc = "numbered" /\ \A q \in Requests : q # r => req'[q] = req[q]
        /\ order' = order
    BY <1>1 DEF Allocate, TypeOK
  <2> QED
    BY <2>1, NothingNewHeld DEF Live
<1>2. ASSUME NEW r \in Requests, Insert(r)
      PROVE  Distinct'
  BY <1>2, InsertDistinct
<1>3. ASSUME NEW r \in Requests, NEW desk \in SUBSET Staff,
             Refused(r) \/ DeliverLost(r) \/ Deliver(r, desk)
      PROVE  Distinct'
  <2>1. /\ req'[r].pc = "idle" /\ \A q \in Requests : q # r => req'[q] = req[q]
        /\ order' = order
    BY <1>3 DEF Refused, DeliverLost, Deliver, TypeOK
  <2> QED
    BY <2>1, NothingNewHeld DEF Live
<1>4. ASSUME NEW r \in Requests, Commit(r)
      PROVE  Distinct'
  BY <1>4, CommitDistinct
<1>5. ASSUME NEW o \in Rows, DeleteOrder(o)
      PROVE  Distinct'
  <2>1. /\ order' = [order EXCEPT ![o].state = "deleted"] /\ order[o] \in Order
        /\ req' = req
    BY <1>5 DEF DeleteOrder, TypeOK
  <2>2. /\ order'[o].state = "deleted"
        /\ \A p \in Rows : p # o => order'[p] = order[p]
    BY <2>1 DEF TypeOK, Order
  <2> QED
    BY <2>1, <2>2, NothingNewHeld DEF Live
<1>6. ASSUME NEW o \in Rows, RestoreOrder(o)
      PROVE  Distinct'
  BY <1>6, RestoreDistinct
<1>7. CASE Attend \/ UNCHANGED vars
  <2>1. order' = order /\ req' = req
    BY <1>7 DEF Attend, Read, ReadAll, July, vars
  <2> QED
    BY <2>1, NothingNewHeld DEF Live
<1> QED
  BY <1>1, <1>2, <1>3, <1>4, <1>5, <1>6, <1>7 DEF Next, Receive, Correct

-----------------------------------------------------------------------------
(* Theorems of Reception.                                                  *)

\* Every reachable state of the front desk is well typed.
THEOREM ReceptionTypeCorrect == Spec => []TypeOK
<1>1. IInv => TypeOK
  BY DEF IInv
<1> QED
  BY <1>1, Invariant, PTL

\* The reference numbers of a financial year run on without a gap and no two
\* live orders share one, whatever requests overlap or fail and whatever orders
\* are deleted or restored, for any width.
THEOREM NumbersHaveNoGap == Spec => []NumbersRunOn
<1>1. IInv => TypeOK /\ NumbersGapless
  BY DEF IInv
<1>2. Spec => []Distinct
  BY ReceptionTypeCorrect, InitDistinct, NextDistinct, PTL DEF Spec
<1>3. Distinct => NumbersDistinct
  BY DEF Distinct
<1> QED
  BY <1>1, <1>2, <1>3, Invariant, PTL DEF NumbersRunOn

\* A refused order leaves no customer and no notice behind, and no clerk is told
\* of an order they took in.
THEOREM NothingOfARefusedOrder == Spec => []RefusedOrderLeavesNothing
<1>1. IInv => RefusedOrderLeavesNothing
  BY DEF IInv
<1> QED
  BY <1>1, Invariant, PTL

-----------------------------------------------------------------------------
(* Induction over the parts of a finite set.                               *)

LEMMA StrictlySmaller ==
  ASSUME NEW S, NEW A \in SUBSET S, NEW B \in SUBSET S, A \subseteq B, A # B
  PROVE  <<A, B>> \in StrictSubsetOrdering(S)
<1> DEFINE pair == <<A, B>>
<1>1. pair \in (SUBSET S) \X (SUBSET S) /\ pair[1] = A /\ pair[2] = B
  OBVIOUS
<1>2. pair[1] \subseteq pair[2] /\ pair[1] # pair[2]
  BY <1>1
<1> HIDE DEF pair
<1>3. pair \in StrictSubsetOrdering(S)
  BY <1>1, <1>2 DEF StrictSubsetOrdering
<1> QED
  BY <1>3 DEF pair

\* A set of parts holds every part if it holds each one whose parts with one
\* element less it holds.
LEMMA AllParts ==
  ASSUME NEW S, IsFiniteSet(S), NEW P,
         \A s \in SUBSET S : (\A x \in s : s \ {x} \in P) => s \in P
  PROVE  \A s \in SUBSET S : s \in P
<1> DEFINE Missing == (SUBSET S) \ P
           Smaller == StrictSubsetOrdering(S)
<1> SUFFICES ASSUME Missing # {} PROVE FALSE
  OBVIOUS
<1>1. IsWellFoundedOn(Smaller, SUBSET S)
  <2>1. FiniteSubsetsOf(S) = SUBSET S
    BY FS_FiniteSubsetsOfFinite
  <2>2. IsWellFoundedOn(Smaller, FiniteSubsetsOf(S))
    BY FS_StrictSubsetOrderingWellFounded
  <2> QED
    BY <2>1, <2>2
<1>2. Missing \subseteq SUBSET S
  OBVIOUS
<1> HIDE DEF Missing, Smaller
<1>3. PICK t \in Missing : \A y \in Missing : ~(<<y, t>> \in Smaller)
  BY <1>1, <1>2, WFMin
<1>4. t \in SUBSET S /\ t \notin P
  BY DEF Missing
<1>5. ASSUME NEW x \in t PROVE t \ {x} \in P
  <2>1. t \ {x} \in SUBSET S /\ t \ {x} \subseteq t /\ t \ {x} # t
    BY <1>4
  <2>2. <<t \ {x}, t>> \in Smaller
    BY <1>4, <2>1, StrictlySmaller DEF Smaller
  <2> QED
    BY <1>3, <2>1, <2>2 DEF Missing
<1> QED
  BY <1>4, <1>5

-----------------------------------------------------------------------------
(* Sums.                                                                   *)

Picked(s) == CHOOSE x \in s : TRUE

IsSum(ps, S, f) ==
  f = [s \in SUBSET S |-> IF s = {} THEN 0
                                    ELSE ps[Picked(s)].amount + f[s \ {Picked(s)}]]

Sum(ps, S) == CHOOSE f : IsSum(ps, S, f)

LEMMA CollectedIsSum ==
  ASSUME NEW ps, NEW S
  PROVE  Collected(ps, S) = Sum(ps, S)[S]
BY DEF Collected, MapThenSumSet, MapThenFoldSet, Sum, IsSum, Picked

LEMMA PickedIn == \A s : s # {} => Picked(s) \in s
BY DEF Picked

LEMMA SumUnique ==
  ASSUME NEW ps, NEW S, IsFiniteSet(S), NEW f, NEW g, IsSum(ps, S, f), IsSum(ps, S, g)
  PROVE  f = g
<1> DEFINE P == {s \in SUBSET S : f[s] = g[s]}
<1>1. ASSUME NEW s \in SUBSET S, \A x \in s : s \ {x} \in P
      PROVE  s \in P
  <2>1. CASE s = {}
    BY <2>1 DEF IsSum
  <2>2. CASE s # {}
    <3>1. s \ {Picked(s)} \in P
      BY <1>1, <2>2, PickedIn
    <3> QED
      BY <2>2, <3>1 DEF IsSum
  <2> QED
    BY <2>1, <2>2
<1> HIDE DEF P
<1>2. \A s \in SUBSET S : s \in P
  BY <1>1, AllParts
<1>3. \A s \in SUBSET S : f[s] = g[s]
  BY <1>2 DEF P
<1>4. f = [s \in SUBSET S |-> f[s]] /\ g = [s \in SUBSET S |-> g[s]]
  BY DEF IsSum
<1> QED
  BY <1>3, <1>4

LEMMA SumOfPart ==
  ASSUME NEW ps, NEW S, NEW f, IsSum(ps, S, f), NEW T \in SUBSET S
  PROVE  IsSum(ps, T, [s \in SUBSET T |-> f[s]])
<1> DEFINE g == [s \in SUBSET T |-> f[s]]
<1>1. ASSUME NEW s \in SUBSET T
      PROVE g[s] = IF s = {} THEN 0 ELSE ps[Picked(s)].amount + g[s \ {Picked(s)}]
  <2>1. s \in SUBSET S /\ s \ {Picked(s)} \in SUBSET T
    OBVIOUS
  <2>2. f[s] = IF s = {} THEN 0 ELSE ps[Picked(s)].amount + f[s \ {Picked(s)}]
    BY <2>1 DEF IsSum
  <2> QED
    BY <2>1, <2>2
<1>2. g = [s \in SUBSET T |-> g[s]]
  OBVIOUS
<1> HIDE DEF g
<1>3. IsSum(ps, T, g)
  BY <1>1, <1>2 DEF IsSum
<1> QED
  BY <1>3 DEF g

LEMMA SumExists ==
  ASSUME NEW ps, NEW S, IsFiniteSet(S)
  PROVE  \A T \in SUBSET S : IsSum(ps, T, Sum(ps, T))
<1> DEFINE P == {s \in SUBSET S : IsSum(ps, s, Sum(ps, s))}
<1>1. ASSUME NEW s \in SUBSET S, \A x \in s : s \ {x} \in P
      PROVE  s \in P
  <2> DEFINE V(t) == Sum(ps, t)[t]
             G == [u \in SUBSET s |->
                     IF u = {} THEN 0 ELSE ps[Picked(u)].amount + V(u \ {Picked(u)})]
  <2>1. ASSUME NEW t \in SUBSET s, NEW x \in s, x \notin t
        PROVE  IsSum(ps, t, Sum(ps, t))
    <3>1. IsSum(ps, s \ {x}, Sum(ps, s \ {x}))
      BY <1>1
    <3>2. t \in SUBSET (s \ {x})
      BY <2>1
    <3>3. \E f : IsSum(ps, t, f)
      BY <3>1, <3>2, SumOfPart
    <3> QED
      BY <3>3 DEF Sum
  <2>2. ASSUME NEW t \in SUBSET s, NEW x \in s, x \notin t
        PROVE  V(t) = G[t]
    <3>1. IsSum(ps, t, Sum(ps, t))
      BY <2>1, <2>2
    <3>2. CASE t = {}
      BY <3>1, <3>2 DEF IsSum
    <3>3. CASE t # {}
      <4> DEFINE r == t \ {Picked(t)}
                 h == [u \in SUBSET r |-> Sum(ps, t)[u]]
      <4>1. r \in SUBSET t /\ r \in SUBSET s /\ x \notin r
        BY <2>2
      <4>2. IsSum(ps, r, Sum(ps, r))
        BY <4>1, <2>1
      <4>3. IsSum(ps, r, h)
        BY <3>1, <4>1, SumOfPart
      <4>4. IsFiniteSet(r)
        <5> r \in SUBSET S
          BY <4>1
        <5> QED
          BY FS_Subset
      <4>5. Sum(ps, r) = h
        BY <4>2, <4>3, <4>4, SumUnique
      <4>6. h[r] = Sum(ps, t)[r]
        OBVIOUS
      <4>7. Sum(ps, t)[t] = ps[Picked(t)].amount + Sum(ps, t)[r]
        BY <3>1, <3>3 DEF IsSum
      <4>8. G[t] = ps[Picked(t)].amount + Sum(ps, r)[r]
        BY <3>3
      <4> QED
        BY <4>5, <4>6, <4>7, <4>8
    <3> QED
      BY <3>2, <3>3
  <2>3. ASSUME NEW u \in SUBSET s
        PROVE  G[u] = IF u = {} THEN 0 ELSE ps[Picked(u)].amount + G[u \ {Picked(u)}]
    <3>1. CASE u = {}
      BY <3>1
    <3>2. CASE u # {}
      <4>1. Picked(u) \in s /\ u \ {Picked(u)} \in SUBSET s
        BY <3>2, PickedIn
      <4>2. V(u \ {Picked(u)}) = G[u \ {Picked(u)}]
        <5> DEFINE t == u \ {Picked(u)}
        <5>1. t \in SUBSET s /\ Picked(u) \notin t
          OBVIOUS
        <5> HIDE DEF t, V, G
        <5>2. V(t) = G[t]
          BY <2>2, <4>1, <5>1
        <5> QED
          BY <5>2 DEF t
      <4> QED
        BY <3>2, <4>2
    <3> QED
      BY <3>1, <3>2
  <2>4. G = [u \in SUBSET s |-> G[u]]
    OBVIOUS
  <2> HIDE DEF G
  <2>5. IsSum(ps, s, G)
    BY <2>3, <2>4 DEF IsSum
  <2> QED
    BY <2>5 DEF Sum
<1> HIDE DEF P
<1>2. \A s \in SUBSET S : s \in P
  BY <1>1, AllParts
<1> QED
  BY <1>2 DEF P

\* The equation the sum is defined by.
LEMMA CollectedStep ==
  ASSUME NEW ps, NEW S, IsFiniteSet(S)
  PROVE  Collected(ps, S) = IF S = {} THEN 0
           ELSE ps[Picked(S)].amount + Collected(ps, S \ {Picked(S)})
<1>1. IsSum(ps, S, Sum(ps, S))
  BY SumExists
<1>2. CASE S = {}
  BY <1>1, <1>2, CollectedIsSum DEF IsSum
<1>3. CASE S # {}
  <2> DEFINE r == S \ {Picked(S)}
             h == [u \in SUBSET r |-> Sum(ps, S)[u]]
  <2>1. r \in SUBSET S /\ IsFiniteSet(r)
    BY FS_Subset
  <2>2. IsSum(ps, r, h)
    BY <1>1, <2>1, SumOfPart
  <2>3. IsSum(ps, r, Sum(ps, r))
    BY <2>1, SumExists
  <2>4. Sum(ps, r) = h
    BY <2>1, <2>2, <2>3, SumUnique
  <2>5. h[r] = Sum(ps, S)[r]
    OBVIOUS
  <2>6. Sum(ps, S)[S] = ps[Picked(S)].amount + Sum(ps, S)[r]
    BY <1>1, <1>3 DEF IsSum
  <2>7. Collected(ps, r) = Sum(ps, r)[r] /\ Collected(ps, S) = Sum(ps, S)[S]
    BY CollectedIsSum
  <2> QED
    BY <1>3, <2>4, <2>5, <2>6, <2>7
<1> QED
  BY <1>2, <1>3

LEMMA CollectedType ==
  ASSUME NEW ps, NEW S, IsFiniteSet(S), \A t \in S : ps[t].amount \in Nat
  PROVE  \A T \in SUBSET S : Collected(ps, T) \in Nat
<1> DEFINE P == {s \in SUBSET S : Collected(ps, s) \in Nat}
<1>1. ASSUME NEW s \in SUBSET S, \A x \in s : s \ {x} \in P
      PROVE  s \in P
  <2>1. IsFiniteSet(s)
    BY FS_Subset
  <2>2. CASE s = {}
    <3>1. Collected(ps, s) = 0
      BY <2>1, <2>2, CollectedStep
    <3> QED
      BY <3>1
  <2>3. CASE s # {}
    <3>1. Picked(s) \in s /\ s \ {Picked(s)} \in P
      BY <1>1, <2>3, PickedIn
    <3>2. Collected(ps, s) = ps[Picked(s)].amount + Collected(ps, s \ {Picked(s)})
      BY <2>1, <2>3, CollectedStep
    <3> QED
      BY <3>1, <3>2
  <2> QED
    BY <2>2, <2>3
<1> HIDE DEF P
<1>2. \A s \in SUBSET S : s \in P
  BY <1>1, AllParts
<1> QED
  BY <1>2 DEF P

\* Any element may be counted first.
LEMMA CollectedLess ==
  ASSUME NEW ps, NEW S, IsFiniteSet(S), \A t \in S : ps[t].amount \in Nat
  PROVE  \A T \in SUBSET S : \A x \in T :
           Collected(ps, T) = ps[x].amount + Collected(ps, T \ {x})
<1> DEFINE C(s) == Collected(ps, s)
           P == {s \in SUBSET S : \A x \in s : C(s) = ps[x].amount + C(s \ {x})}
<1>1. ASSUME NEW s \in SUBSET S, \A y \in s : s \ {y} \in P, NEW x \in s
      PROVE  C(s) = ps[x].amount + C(s \ {x})
  <2> DEFINE c == Picked(s)
  <2>1. IsFiniteSet(s) /\ s # {}
    BY FS_Subset
  <2>2. c \in s
    BY <2>1, PickedIn
  <2>3. C(s) = ps[c].amount + C(s \ {c})
    BY <2>1, CollectedStep
  <2>4. CASE x = c
    BY <2>3, <2>4
  <2>5. CASE x # c
    <3>1. x \in s \ {c} /\ c \in s \ {x}
      BY <2>2, <2>5
    <3>2. C(s \ {c}) = ps[x].amount + C((s \ {c}) \ {x})
      BY <1>1, <2>2, <3>1
    <3>3. C(s \ {x}) = ps[c].amount + C((s \ {x}) \ {c})
      BY <1>1, <3>1
    <3>4. (s \ {x}) \ {c} = (s \ {c}) \ {x} /\ (s \ {x}) \ {c} \in SUBSET S
      OBVIOUS
    <3>5. C((s \ {x}) \ {c}) \in Nat
      BY <3>4, CollectedType
    <3>6. ps[x].amount \in Nat /\ ps[c].amount \in Nat
      BY <2>2
    <3>7. C((s \ {x}) \ {c}) = C((s \ {c}) \ {x})
      BY <3>4
    <3>8. ASSUME NEW a \in Nat, NEW b \in Nat, NEW d \in Nat
          PROVE  a + (b + d) = b + (a + d)
      OBVIOUS
    <3> HIDE DEF C, c
    <3>9. /\ C(s) = ps[c].amount + (ps[x].amount + C((s \ {x}) \ {c}))
          /\ ps[x].amount + C(s \ {x}) = ps[x].amount + (ps[c].amount + C((s \ {x}) \ {c}))
      BY <2>3, <3>2, <3>3, <3>7
    <3> QED
      BY <3>5, <3>6, <3>8, <3>9
  <2> QED
    BY <2>4, <2>5
<1>2. ASSUME NEW s \in SUBSET S, \A y \in s : s \ {y} \in P
      PROVE  s \in P
  BY <1>1, <1>2
<1> HIDE DEF P
<1>3. \A s \in SUBSET S : s \in P
  BY <1>2, AllParts
<1> QED
  BY <1>3 DEF P

\* More transactions collect no less.
LEMMA CollectedGrows ==
  ASSUME NEW ps, NEW S, IsFiniteSet(S), \A t \in S : ps[t].amount \in Nat
  PROVE  \A T \in SUBSET S : Collected(ps, T) <= Collected(ps, S)
<1> DEFINE C(s) == Collected(ps, s)
           P == {s \in SUBSET S : \A u \in SUBSET s : C(u) <= C(s)}
<1>1. ASSUME NEW s \in SUBSET S, \A y \in s : s \ {y} \in P, NEW u \in SUBSET s
      PROVE  C(u) <= C(s)
  <2>1. C(s) \in Nat /\ C(u) \in Nat
    <3>1. u \in SUBSET S
      OBVIOUS
    <3> QED
      BY <3>1, CollectedType
  <2>2. CASE u = s
    BY <2>1, <2>2
  <2>3. CASE u # s
    <3>1. PICK x \in s : x \notin u
      BY <2>3
    <3>2. C(u) <= C(s \ {x})
      <4>1. u \in SUBSET (s \ {x})
        BY <3>1
      <4> QED
        BY <1>1, <4>1
    <3>3. C(s) = ps[x].amount + C(s \ {x})
      BY CollectedLess
    <3>4. ps[x].amount \in Nat /\ C(s \ {x}) \in Nat
      <4>1. s \ {x} \in SUBSET S
        OBVIOUS
      <4> QED
        BY <4>1, CollectedType
    <3> HIDE DEF C
    <3> QED
      BY <2>1, <3>2, <3>3, <3>4
  <2> QED
    BY <2>2, <2>3
<1>2. ASSUME NEW s \in SUBSET S, \A y \in s : s \ {y} \in P
      PROVE  s \in P
  BY <1>1, <1>2
<1> HIDE DEF P
<1>3. \A s \in SUBSET S : s \in P
  BY <1>2, AllParts
<1>4. S \in P
  BY <1>3
<1> QED
  BY <1>4 DEF P

\* Nothing paid is nothing collected.
LEMMA CollectedNothing ==
  ASSUME NEW ps, NEW S, IsFiniteSet(S), \A t \in S : ps[t].amount = 0
  PROVE  \A T \in SUBSET S : Collected(ps, T) = 0
<1> DEFINE P == {s \in SUBSET S : Collected(ps, s) = 0}
<1>1. ASSUME NEW s \in SUBSET S, \A x \in s : s \ {x} \in P
      PROVE  s \in P
  <2>1. IsFiniteSet(s)
    BY FS_Subset
  <2>2. CASE s = {}
    BY <2>1, <2>2, CollectedStep
  <2>3. CASE s # {}
    <3>1. Picked(s) \in s /\ s \ {Picked(s)} \in P
      BY <1>1, <2>3, PickedIn
    <3>2. Collected(ps, s) = ps[Picked(s)].amount + Collected(ps, s \ {Picked(s)})
      BY <2>1, <2>3, CollectedStep
    <3> QED
      BY <3>1, <3>2
  <2> QED
    BY <2>2, <2>3
<1> HIDE DEF P
<1>2. \A s \in SUBSET S : s \in P
  BY <1>1, AllParts
<1> QED
  BY <1>2 DEF P

\* Only the amounts matter.
LEMMA CollectedSame ==
  ASSUME NEW ps, NEW qs, NEW S, IsFiniteSet(S),
         \A t \in S : ps[t].amount = qs[t].amount
  PROVE  Collected(ps, S) = Collected(qs, S)
<1> DEFINE P == {s \in SUBSET S : Collected(ps, s) = Collected(qs, s)}
<1>1. ASSUME NEW s \in SUBSET S, \A x \in s : s \ {x} \in P
      PROVE  s \in P
  <2>1. IsFiniteSet(s)
    BY FS_Subset
  <2>2. CASE s = {}
    BY <2>1, <2>2, CollectedStep
  <2>3. CASE s # {}
    <3>1. Picked(s) \in s /\ s \ {Picked(s)} \in P
      BY <1>1, <2>3, PickedIn
    <3>2. /\ Collected(ps, s) = ps[Picked(s)].amount + Collected(ps, s \ {Picked(s)})
          /\ Collected(qs, s) = qs[Picked(s)].amount + Collected(qs, s \ {Picked(s)})
      BY <2>1, <2>3, CollectedStep
    <3> QED
      BY <3>1, <3>2
  <2> QED
    BY <2>2, <2>3
<1> HIDE DEF P
<1>2. \A s \in SUBSET S : s \in P
  BY <1>1, AllParts
<1> QED
  BY <1>2 DEF P

-----------------------------------------------------------------------------
(* Days.                                                                   *)

\* The days before day d are over at the instant day d begins.
LEMMA DayOf ==
  ASSUME NEW n \in Nat, NEW D \in Nat \ {0}, NEW d \in Int
  PROVE  n \div D >= d <=> n >= d * D
<1> DEFINE q == n \div D
           r == n % D
<1>1. q \in Int /\ r \in 0 .. D - 1 /\ n = D * q + r
  OBVIOUS
<1> HIDE DEF q, r
<1>2. CASE q >= d
  <2>1. D * (q - d) >= 0
    BY <1>1, <1>2
  <2>2. D * (q - d) = D * q - d * D
    BY <1>1
  <2>3. n >= d * D
    BY <1>1, <2>1, <2>2
  <2> QED
    BY <1>2, <2>3 DEF q
<1>3. CASE ~ (q >= d)
  <2>1. d - q - 1 >= 0
    BY <1>1, <1>3
  <2>2. D * (d - q - 1) >= 0
    BY <1>1, <2>1
  <2>3. D * (d - q - 1) = d * D - D * q - D
    BY <1>1
  <2>4. ~ (n >= d * D)
    BY <1>1, <2>2, <2>3
  <2> QED
    BY <1>3, <2>4 DEF q
<1> QED
  BY <1>2, <1>3

LEMMA DaysInOrder ==
  ASSUME NEW m \in Nat, NEW n \in Nat, NEW D \in Nat \ {0}, m <= n
  PROVE  m \div D \in 0 .. (n \div D)
<1> DEFINE a == m \div D
           b == n \div D
<1>1. a \in Int /\ b \in Int
  OBVIOUS
<1>2. a >= a <=> m >= a * D
  BY <1>1, DayOf
<1>3. b >= a <=> n >= a * D
  BY <1>1, DayOf
<1>4. a >= 0 <=> m >= 0 * D
  BY DayOf
<1> HIDE DEF a, b
<1>5. a * D \in Int
  BY <1>1
<1>6. a \in 0 .. b
  BY <1>1, <1>2, <1>3, <1>4, <1>5
<1> QED
  BY <1>6 DEF a, b

-----------------------------------------------------------------------------
(* The inductive invariant of Reports.                                     *)

\* A bill no notice has reached has no payment.
UnpaidHasNoPayment ==
  bill.status \in {"none", "pending"} => \A t \in Trx : ~ Recorded(t)

\* The status was decided from the payments as they still are.
StatusFollowsSum ==
  ~ restated =>
    /\ bill.status = "partially_paid" => Collected(payment, Trx) < Total
    /\ bill.status = "paid" => Collected(payment, Trx) >= Total

ReportsIInv == ReportsTypeOK /\ UnpaidHasNoPayment /\ StatusFollowsSum

LEMMA PaymentAmounts ==
  ASSUME NEW ps \in [Trx -> Payment \cup {NoPayment}]
  PROVE  \A t \in Trx : ps[t].amount \in Nat
<1> SUFFICES ASSUME NEW t \in Trx PROVE ps[t].amount \in Nat
  OBVIOUS
<1>1. CASE ps[t] \in Payment
  <2>1. ps[t].amount \in Amounts
    BY <1>1 DEF Payment
  <2> QED
    BY <2>1, ReportsAssumption
<1>2. CASE ps[t] = NoPayment
  BY <1>2 DEF NoPayment
<1> QED
  BY <1>1, <1>2

LEMMA ReportsInitIInv == ReportsInit => ReportsIInv
<1> SUFFICES ASSUME ReportsInit PROVE ReportsIInv
  OBVIOUS
<1>1. now \in 0 .. LastInstant
  BY DEF ReportsInit, Instants
<1>2. ServerDay(now) \in 0 .. ServerDay(LastInstant)
  BY <1>1, DaysInOrder, ReportsAssumption DEF ServerDay
<1> QED
  BY <1>2 DEF ReportsInit, ReportsIInv, ReportsTypeOK, UnpaidHasNoPayment,
              StatusFollowsSum, Recorded, Times, Statuses, NoPayment

LEMMA RegisterStoneStep == ReportsIInv /\ RegisterStone => ReportsIInv'
BY DEF ReportsIInv, ReportsTypeOK, RegisterStone, UnpaidHasNoPayment,
       StatusFollowsSum, Recorded, Times

LEMMA IssueBillStep == ReportsIInv /\ IssueBill => ReportsIInv'
BY DEF ReportsIInv, ReportsTypeOK, IssueBill, UnpaidHasNoPayment,
       StatusFollowsSum, Recorded, Times, Statuses

LEMMA ApplyPaymentStep ==
  ASSUME ReportsIInv, NEW t \in Trx, NEW p \in Payment, ApplyPayment(t, p)
  PROVE  ReportsIInv'
<1> DEFINE sum == Collected(payment', Trx)
<1>1. payment' \in [Trx -> Payment \cup {NoPayment}]
  BY DEF ReportsIInv, ReportsTypeOK, ApplyPayment
<1>2. sum \in Nat
  <2>1. \A u \in Trx : payment'[u].amount \in Nat
    BY <1>1, PaymentAmounts
  <2>2. IsFiniteSet(Trx)
    BY ReportsAssumption
  <2> QED
    BY <2>1, <2>2, CollectedType
<1>3. /\ bill'.status = IF sum >= Total THEN "paid" ELSE "partially_paid"
      /\ bill' \in [status : Statuses, issued : Times]
  BY DEF ReportsIInv, ReportsTypeOK, ApplyPayment, Statuses
<1>4. Total \in Nat
  BY ReportsAssumption
<1> HIDE DEF sum
<1>5. /\ bill'.status = "partially_paid" => sum < Total
      /\ bill'.status = "paid" => sum >= Total
      /\ bill'.status \notin {"none", "pending"}
  BY <1>2, <1>3, <1>4
<1>6. StatusFollowsSum'
  BY <1>5 DEF StatusFollowsSum, sum
<1>7. UnpaidHasNoPayment'
  BY <1>5 DEF UnpaidHasNoPayment
<1>8. ReportsTypeOK'
  BY <1>1, <1>3 DEF ReportsIInv, ReportsTypeOK, ApplyPayment
<1> QED
  BY <1>6, <1>7, <1>8 DEF ReportsIInv

\* A repeat that says the same changes nothing; another one is remembered.
LEMMA RedeliverStep ==
  ASSUME ReportsIInv, NEW t \in Trx, NEW p \in Payment, Redeliver(t, p)
  PROVE  ReportsIInv'
<1>1. ReportsTypeOK'
  BY DEF ReportsIInv, ReportsTypeOK, Redeliver
<1>2. UnpaidHasNoPayment'
  BY DEF ReportsIInv, Redeliver, UnpaidHasNoPayment
<1>3. StatusFollowsSum'
  <2>1. CASE p = payment[t]
    <3>1. payment' = payment
      BY <2>1 DEF ReportsIInv, ReportsTypeOK, Redeliver
    <3> QED
      BY <2>1, <3>1 DEF ReportsIInv, Redeliver, StatusFollowsSum
  <2>2. CASE p # payment[t]
    BY <2>2 DEF Redeliver, StatusFollowsSum
  <2> QED
    BY <2>1, <2>2
<1> QED
  BY <1>1, <1>2, <1>3 DEF ReportsIInv

LEMMA BeginCancelStep == ReportsIInv /\ BeginCancel => ReportsIInv'
BY DEF ReportsIInv, ReportsTypeOK, BeginCancel, UnpaidHasNoPayment,
       StatusFollowsSum, Recorded

LEMMA EndCancelStep == ReportsIInv /\ EndCancel => ReportsIInv'
<1> SUFFICES ASSUME ReportsIInv, EndCancel PROVE ReportsIInv'
  OBVIOUS
<1>1. CASE bill' = bill
  BY <1>1 DEF ReportsIInv, ReportsTypeOK, EndCancel, UnpaidHasNoPayment,
              StatusFollowsSum, Recorded
<1>2. CASE bill' = [bill EXCEPT !.status = "cancelled"]
  <2>1. bill'.status = "cancelled" /\ bill' \in [status : Statuses, issued : Times]
    BY <1>2 DEF ReportsIInv, ReportsTypeOK, Statuses
  <2> QED
    BY <2>1 DEF ReportsIInv, ReportsTypeOK, EndCancel, UnpaidHasNoPayment, StatusFollowsSum
<1> QED
  BY <1>1, <1>2 DEF EndCancel

LEMMA SignOffStep == ReportsIInv /\ SignOff => ReportsIInv'
BY DEF ReportsIInv, ReportsTypeOK, SignOff, UnpaidHasNoPayment,
       StatusFollowsSum, Recorded, Times

LEMMA DeletionStep ==
  ASSUME ReportsIInv, NEW r \in Records, Delete(r) \/ Restore(r)
  PROVE  ReportsIInv'
BY DEF ReportsIInv, ReportsTypeOK, Delete, Restore, UnpaidHasNoPayment,
       StatusFollowsSum, Recorded

LEMMA TickStep == ReportsIInv /\ Tick => ReportsIInv'
BY ReportsAssumption
   DEF ReportsIInv, ReportsTypeOK, Tick, UnpaidHasNoPayment, StatusFollowsSum,
       Recorded, Instants

LEMMA ReportsNextIInv == ReportsIInv /\ [ReportsNext]_reportsVars => ReportsIInv'
<1> SUFFICES ASSUME ReportsIInv, [ReportsNext]_reportsVars PROVE ReportsIInv'
  OBVIOUS
<1>1. CASE ReportsNext
  <2>1. CASE \E t \in Trx, p \in Payment :
               p.at \in {now, NoTime} /\ (ApplyPayment(t, p) \/ Redeliver(t, p))
    BY <2>1, ApplyPaymentStep, RedeliverStep
  <2>2. CASE \E r \in Records : Delete(r) \/ Restore(r)
    BY <2>2, DeletionStep
  <2> QED
    BY <1>1, <2>1, <2>2, RegisterStoneStep, IssueBillStep, BeginCancelStep,
       EndCancelStep, SignOffStep, TickStep DEF ReportsNext
<1>2. CASE UNCHANGED reportsVars
  BY <1>2 DEF reportsVars, ReportsIInv, ReportsTypeOK, UnpaidHasNoPayment,
              StatusFollowsSum, Recorded
<1> QED
  BY <1>1, <1>2

LEMMA ReportsInvariant == ReportsSpec => []ReportsIInv
BY ReportsInitIInv, ReportsNextIInv, PTL DEF ReportsSpec

-----------------------------------------------------------------------------
(* What is owed.                                                           *)

LEMMA OwedFollowsStatus == ReportsIInv => OutstandingIsOwed
<1> SUFFICES ASSUME ReportsIInv, ~ restated
             PROVE  /\ bill.status = "partially_paid" => Outstanding
                    /\ Foreign = {} =>
                         (Outstanding <=> bill.status \in {"pending", "partially_paid"})
  BY DEF OutstandingIsOwed
<1> DEFINE own == {t \in Trx : payment[t].own}
           all == Collected(payment, Trx)
           ours == Collected(payment, own)
<1>1. IsFiniteSet(Trx) /\ Total \in Nat /\ Total > 0
  BY ReportsAssumption
<1>2. all \in Nat /\ ours \in Nat /\ ours <= all
  <2>1. own \in SUBSET Trx /\ Trx \in SUBSET Trx
    OBVIOUS
  <2>2. \A t \in Trx : payment[t].amount \in Nat
    BY PaymentAmounts DEF ReportsIInv, ReportsTypeOK
  <2> HIDE DEF own
  <2> QED
    BY <1>1, <2>1, <2>2, CollectedType, CollectedGrows
<1>3. Foreign = {} => ours = all
  <2>1. Foreign = {} => own = Trx
    BY DEF Foreign
  <2> QED
    BY <2>1
<1>4. bill.status = "pending" => all = 0
  <2> SUFFICES ASSUME bill.status = "pending" PROVE all = 0
    OBVIOUS
  <2>1. \A t \in Trx : payment[t].amount = 0
    BY DEF ReportsIInv, UnpaidHasNoPayment, Recorded, NoPayment
  <2> QED
    BY <1>1, <2>1, CollectedNothing
<1>5. Outstanding <=> bill.status \notin {"none", "cancelled"} /\ Total - ours > 0
  BY DEF Outstanding, Owed
<1>6. /\ bill.status = "partially_paid" => all < Total
      /\ bill.status = "paid" => all >= Total
  BY DEF ReportsIInv, StatusFollowsSum
<1>7. bill.status \in Statuses
  BY DEF ReportsIInv, ReportsTypeOK
<1> HIDE DEF own, all, ours
<1>8. ours < Total <=> Total - ours > 0
  BY <1>1, <1>2
<1>9. CASE bill.status = "partially_paid"
  BY <1>1, <1>2, <1>5, <1>6, <1>8, <1>9
<1>10. CASE bill.status = "pending"
  BY <1>1, <1>2, <1>4, <1>5, <1>8, <1>10
<1>11. CASE bill.status = "paid"
  <2>1. Foreign = {} => ~ (ours < Total)
    BY <1>1, <1>2, <1>3, <1>6, <1>11
  <2> QED
    BY <1>5, <1>8, <1>11, <2>1
<1>12. CASE bill.status \in {"none", "cancelled"}
  BY <1>5, <1>12
<1> QED
  BY <1>7, <1>9, <1>10, <1>11, <1>12 DEF Statuses

-----------------------------------------------------------------------------
(* Ranges of days.                                                         *)

\* A row of the orders carries a day, any other one an instant or no date.
LEMMA RowDates ==
  ASSUME ReportsTypeOK, NEW key \in Sections, NEW r \in Source(key)
  PROVE  IF key = "orders" THEN r.at \in 0 .. ServerDay(LastInstant)
                           ELSE r.at \in Times
<1>1. \A i, v : \A x \in Row(i, v, TRUE) : x.at = v
  BY DEF Row
<1>2. \A i, v, c : Row(i, v, c) \subseteq Row(i, v, TRUE)
  BY DEF Row
<1>3. CASE key = "billing"
  <2>1. r \in Row("bill", bill.issued, TRUE)
    BY <1>2, <1>3 DEF Source
  <2>2. bill.issued \in Times
    BY DEF ReportsTypeOK
  <2> QED
    BY <1>1, <1>3, <2>1, <2>2
<1>4. CASE key = "outstanding"
  <2>1. r \in Row("bill", bill.issued, TRUE)
    BY <1>2, <1>4 DEF Source
  <2>2. bill.issued \in Times
    BY DEF ReportsTypeOK
  <2> QED
    BY <1>1, <1>4, <2>1, <2>2
<1>5. CASE key = "collections"
  <2>1. PICK t \in Trx : r \in Row(t, payment[t].at, TRUE)
    BY <1>2, <1>5 DEF Source
  <2>2. payment[t].at \in Times
    BY DEF ReportsTypeOK, Payment, NoPayment, Times
  <2> QED
    BY <1>1, <1>5, <2>1, <2>2
<1>6. CASE key = "orders"
  <2>1. r \in Row("order", work.received, TRUE)
    BY <1>2, <1>6 DEF Source
  <2>2. work.received \in 0 .. ServerDay(LastInstant)
    BY DEF ReportsTypeOK
  <2> QED
    BY <1>1, <1>6, <2>1, <2>2
<1>7. CASE key = "stones"
  <2>1. r \in Row("stone", work.made, TRUE)
    BY <1>2, <1>7 DEF Source
  <2>2. work.made \in Times
    BY DEF ReportsTypeOK
  <2> QED
    BY <1>1, <1>7, <2>1, <2>2
<1>8. CASE key = "findings"
  <2>1. r \in Row("findings", work.signed, TRUE)
    BY <1>2, <1>8 DEF Source
  <2>2. work.signed \in Times
    BY DEF ReportsTypeOK
  <2> QED
    BY <1>1, <1>8, <2>1, <2>2
<1>9. CASE key = "certificates"
  <2>1. r \in Row("certificate", work.signed, TRUE)
    BY <1>2, <1>9 DEF Source
  <2>2. work.signed \in Times
    BY DEF ReportsTypeOK
  <2> QED
    BY <1>1, <1>9, <2>1, <2>2
<1> QED
  BY <1>3, <1>4, <1>5, <1>6, <1>7, <1>8, <1>9 DEF Sections

\* The instants of a range are those of its days.
LEMMA RangeOfDays ==
  ASSUME NEW i \in Instants, NEW from \in Nat, NEW to \in Nat
  PROVE  /\ i >= Opens(from) /\ i < Opens(to + 1) <=> LabDay(i) \in from .. to
         /\ LabDay(i) \in Days
<1>1. /\ i \in Nat /\ i <= LastInstant /\ LastInstant \in Nat
      /\ Offset \in Nat /\ DayLength \in Nat \ {0} /\ LastDay \in Nat
  BY ReportsAssumption DEF Instants
<1> DEFINE n == i + Offset
           day == n \div DayLength
<1>2. n \in Nat /\ day \in Int
  BY <1>1
<1>3. ASSUME NEW d \in Nat
      PROVE  /\ day >= d <=> n >= d * DayLength
             /\ d * DayLength \in Nat
             /\ i >= Opens(d) <=> day >= d
  <2>1. day >= d <=> n >= d * DayLength
    BY <1>1, <1>2, DayOf
  <2>2. d * DayLength \in Nat
    BY <1>1
  <2>3. i >= d * DayLength - Offset <=> i + Offset >= d * DayLength
    BY <1>1, <2>2
  <2> QED
    BY <2>1, <2>2, <2>3 DEF Opens
<1>4. Opens(to + 1) \in Int
  <2>1. (to + 1) * DayLength \in Nat
    BY <1>1
  <2> QED
    BY <1>1, <2>1 DEF Opens
<1>5. i >= Opens(to + 1) <=> day >= to + 1
  BY <1>3
<1>6. day >= 0
  <2>1. 0 * DayLength = 0
    BY <1>1
  <2> QED
    BY <1>2, <1>3, <2>1
<1>7. ~ (day >= LastDay + 1)
  <2>1. LastInstant + Offset < (LastDay + 1) * DayLength
    BY ReportsAssumption
  <2>2. day >= LastDay + 1 <=> n >= (LastDay + 1) * DayLength
    BY <1>1, <1>3
  <2>3. (LastDay + 1) * DayLength \in Nat
    BY <1>1
  <2> QED
    BY <1>1, <2>1, <2>2, <2>3
<1>8. i >= Opens(from) <=> day >= from
  BY <1>3
<1>9. LabDay(i) = day
  BY DEF LabDay
<1> HIDE DEF day
<1> QED
  BY <1>1, <1>2, <1>4, <1>5, <1>6, <1>7, <1>8, <1>9 DEF Days

\* A dated row is in the report of a range if the day it is shown on is in it.
LEMMA RowInRange ==
  ASSUME ReportsTypeOK, NEW key \in Sections, NEW from \in Days, NEW to \in Days,
         NEW r \in Source(key) \ Undated(key)
  PROVE  /\ r \in InRange(key, from, to) <=> ShownOn(key, r) \in from .. to
         /\ ShownOn(key, r) \in Days
<1>1. from \in Nat /\ to \in Nat
  BY ReportsAssumption DEF Days
<1>2. CASE key = "orders"
  <2>1. ServerDay(LastInstant) \in 0 .. LabDay(LastInstant)
    <3>1. LastInstant \in Nat /\ LastInstant + Offset \in Nat
             /\ LastInstant <= LastInstant + Offset /\ DayLength \in Nat \ {0}
      BY ReportsAssumption
    <3> QED
      BY <3>1, DaysInOrder DEF ServerDay, LabDay
  <2>2. LabDay(LastInstant) \in Days
    <3>1. LastInstant \in Instants
      BY ReportsAssumption DEF Instants
    <3> QED
      BY <1>1, <3>1, RangeOfDays
  <2>3. r.at \in 0 .. ServerDay(LastInstant)
    BY <1>2, RowDates
  <2>4. r.at \in Days
    BY <2>1, <2>2, <2>3, ReportsAssumption DEF Days
  <2> QED
    BY <1>2, <2>4 DEF InRange, ShownOn
<1>3. CASE key # "orders"
  <2>1. r.at \in Instants
    BY <1>3, RowDates DEF Undated, Times
  <2> QED
    BY <1>1, <1>3, <2>1, RangeOfDays DEF InRange, ShownOn
<1> QED
  BY <1>2, <1>3

LEMMA RangesOfDaysAddUp == ReportsTypeOK => RangesAddUp
<1> SUFFICES ASSUME ReportsTypeOK, NEW key \in Sections
             PROVE  /\ \A from, to \in Days : InRange(key, from, to) =
                         UNION {{r \in Source(key) \ Undated(key) : ShownOn(key, r) = d}
                                  : d \in from .. to}
                    /\ Source(key) = InRange(key, 0, LastDay) \cup Undated(key)
  BY DEF RangesAddUp
<1>1. ASSUME NEW from \in Days, NEW to \in Days
      PROVE  InRange(key, from, to) =
               UNION {{r \in Source(key) \ Undated(key) : ShownOn(key, r) = d}
                        : d \in from .. to}
  <2>1. InRange(key, from, to) \subseteq Source(key) \ Undated(key)
    BY DEF InRange
  <2>2. \A r \in Source(key) \ Undated(key) :
          r \in InRange(key, from, to) <=> ShownOn(key, r) \in from .. to
    BY RowInRange
  <2> QED
    BY <2>1, <2>2
<1>2. Source(key) = InRange(key, 0, LastDay) \cup Undated(key)
  <2>1. 0 \in Days /\ LastDay \in Days /\ Days = 0 .. LastDay
    BY ReportsAssumption DEF Days
  <2>2. \A r \in Source(key) \ Undated(key) : r \in InRange(key, 0, LastDay)
    BY <2>1, RowInRange
  <2>3. InRange(key, 0, LastDay) \subseteq Source(key) /\ Undated(key) \subseteq Source(key)
    BY DEF InRange, Undated
  <2> QED
    BY <2>2, <2>3
<1> QED
  BY <1>1, <1>2

-----------------------------------------------------------------------------
(* Theorems of Reports.                                                    *)

\* Every reachable state of the reports is well typed: no bill takes a status
\* that is not one of them.
THEOREM ReportsTypeCorrect == ReportsSpec => []ReportsTypeOK
<1>1. ReportsIInv => ReportsTypeOK
  BY DEF ReportsIInv
<1> QED
  BY <1>1, ReportsInvariant, PTL

\* While no notice contradicts an earlier one, a part-paid bill is outstanding,
\* and without payments in another currency the outstanding bills are exactly
\* the pending and part-paid ones, whatever the transactions and amounts are.
THEOREM OutstandingFollowsStatus == ReportsSpec => []OutstandingIsOwed
BY OwedFollowsStatus, ReportsInvariant, PTL

\* The reports of consecutive ranges of days add up, with no row twice or lost,
\* for any length of the day and any offset of the laboratory's clock.
THEOREM ConsecutiveRangesAddUp == ReportsSpec => []RangesAddUp
BY RangesOfDaysAddUp, ReportsTypeCorrect, PTL

\* The sums of the payments of any finite set of transactions are natural, grow
\* with the set, and do not depend on the order the payments came in: what
\* Settlement assumes of its constant PaidAmount (AmountsAssumption) is true of
\* the aggregate the billing service computes.
THEOREM SumsAreAmounts ==
  ASSUME NEW ps, NEW S, IsFiniteSet(S), \A t \in S : ps[t].amount \in Nat
  PROVE  LET Paid == [T \in SUBSET S |-> Collected(ps, T)]
         IN  /\ Paid \in [SUBSET S -> Nat]
             /\ \A T, U \in SUBSET S : T \subseteq U => Paid[T] <= Paid[U]
             /\ \A T \in SUBSET S : \A t \in T : Paid[T] = ps[t].amount + Paid[T \ {t}]
<1> DEFINE Paid == [T \in SUBSET S |-> Collected(ps, T)]
<1>1. Paid \in [SUBSET S -> Nat]
  BY CollectedType
<1>2. ASSUME NEW T \in SUBSET S, NEW U \in SUBSET S, T \subseteq U
      PROVE  Paid[T] <= Paid[U]
  <2>1. IsFiniteSet(U) /\ T \in SUBSET U /\ \A t \in U : ps[t].amount \in Nat
    BY <1>2, FS_Subset
  <2>2. Collected(ps, T) <= Collected(ps, U)
    BY <2>1, CollectedGrows
  <2> QED
    BY <2>2
<1>3. ASSUME NEW T \in SUBSET S, NEW t \in T
      PROVE  Paid[T] = ps[t].amount + Paid[T \ {t}]
  <2>1. Collected(ps, T) = ps[t].amount + Collected(ps, T \ {t})
    BY <1>3, CollectedLess
  <2>2. T \ {t} \in SUBSET S
    OBVIOUS
  <2> QED
    BY <2>1, <2>2
<1> QED
  BY <1>1, <1>2, <1>3
=============================================================================
