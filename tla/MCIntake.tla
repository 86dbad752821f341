------------------------------ MODULE MCIntake ------------------------------
(* Intake with stone rows and requests that are interchangeable.           *)
EXTENDS Intake, TLC

Symmetric == Permutations(Stones) \cup Permutations(Requests)
=============================================================================
