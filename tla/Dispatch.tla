------------------------------ MODULE Dispatch -------------------------------
(***************************************************************************)
(* What the outbox promises about the submissions of a bill, with no       *)
(* attempts, no back-off, no crashes and no worker: a submission is known  *)
(* together with what it told the bill, is closed once, and is not opened  *)
(* again; and the bill shows that it was accepted, so that nobody looks    *)
(* at it any more, only while there is an accepting answer behind that,    *)
(* be it one that was turned down for want of a control number.            *)
(***************************************************************************)
CONSTANT
  Requests  \* the submissions a bill may get

VARIABLES
  stage,    \* "unknown", "open", "accepted", "unnumbered" (turned down, though the
            \* answer's code accepts), "rejected" or "exhausted" per submission
  heard,    \* the submissions whose number came separately
  shown     \* what the bill shows: "none", "failed" or "accepted"

vars == <<stage, heard, shown>>

Init ==
  /\ stage = [r \in Requests |-> "unknown"]
  /\ heard = {}
  /\ shown = "none"

Accepting == {"accepted", "unnumbered"}

\* An accepting answer is behind the bill, not counting the submission r.
BackedWithout(r) == heard # {} \/ \E q \in Requests \ {r} : stage[q] \in Accepting

\* A first attempt is over.
Post(r) ==
  /\ stage[r] = "unknown"
  /\ \/ /\ \E s \in Accepting : stage' = [stage EXCEPT ![r] = s]
        /\ shown' = "accepted"
     \/ /\ \E s \in {"open", "rejected"} : stage' = [stage EXCEPT ![r] = s]
        /\ shown' = "failed"
  /\ UNCHANGED heard

\* A later one ends the submission; the bill is told afterwards, if at all.
Close(r) ==
  /\ stage[r] = "open"
  /\ \E s \in Accepting \cup {"rejected", "exhausted"} : stage' = [stage EXCEPT ![r] = s]
  /\ UNCHANGED <<heard, shown>>

Tell ==
  /\ shown # "none"
  /\ \/ shown' = "failed"
     \/ shown' = "accepted" /\ \E r \in Requests : stage[r] \in Accepting
  /\ UNCHANGED <<stage, heard>>

\* An acceptance that could not be told is withdrawn, unless the bill rests on it.
Withdraw(r) ==
  /\ stage[r] \in Accepting
  /\ shown = "accepted" => BackedWithout(r)
  /\ stage' = [stage EXCEPT ![r] = "rejected"]
  /\ UNCHANGED <<heard, shown>>

\* The number comes separately.
Hear(r) ==
  /\ shown # "none"
  /\ heard' = heard \cup {r}
  /\ shown' = "accepted"
  /\ UNCHANGED stage

Next ==
  \/ \E r \in Requests : Post(r) \/ Close(r) \/ Withdraw(r) \/ Hear(r)
  \/ Tell

Spec == Init /\ [][Next]_vars
=============================================================================
