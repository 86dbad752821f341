----------------------------- MODULE MCGepgOutbox -----------------------------
(* A small instance of GepgOutbox: the bill's first submission, and others  *)
(* sent when it needs attention.                                           *)
EXTENDS GepgOutbox
=============================================================================
