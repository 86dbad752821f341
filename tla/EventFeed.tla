------------------------------ MODULE EventFeed ------------------------------
(***************************************************************************)
(* What the gateway inbox promises: an event it acknowledged is kept, the  *)
(* items an event carries are recorded because of it and never unrecorded, *)
(* and an event is either done, everything it carries being recorded, or   *)
(* put before the staff.  How often the event was delivered or tried, and  *)
(* what interrupted it, does not show.                                     *)
(***************************************************************************)
CONSTANTS
  Events,   \* what the gateway may tell
  Items,    \* the transactions and control numbers it tells about
  Carries   \* the items of each event

VARIABLES
  progress,  \* "unknown", "kept", "done" or "review" per event
  promised,  \* the events the gateway need not deliver again
  recorded   \* items recorded

vars == <<progress, promised, recorded>>

Init ==
  /\ progress = [e \in Events |-> "unknown"]
  /\ promised = {}
  /\ recorded = {}

Keep(e) ==
  /\ progress[e] = "unknown"
  /\ progress' = [progress EXCEPT ![e] = "kept"]
  /\ UNCHANGED <<promised, recorded>>

Promise(e) ==
  /\ progress[e] # "unknown"
  /\ promised' = promised \cup {e}
  /\ UNCHANGED <<progress, recorded>>

Record(e) ==
  /\ progress[e] = "kept"
  /\ \E items \in SUBSET Carries[e] : recorded' = recorded \cup items
  /\ UNCHANGED <<progress, promised>>

Close(e) ==
  /\ progress[e] = "kept"
  /\ \/ /\ Carries[e] \subseteq recorded
        /\ progress' = [progress EXCEPT ![e] = "done"]
     \/ progress' = [progress EXCEPT ![e] = "review"]
  /\ UNCHANGED <<promised, recorded>>

Next == \E e \in Events : Keep(e) \/ Promise(e) \/ Record(e) \/ Close(e)

Spec == Init /\ [][Next]_vars
=============================================================================
