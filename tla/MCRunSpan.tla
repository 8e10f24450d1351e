----------------------------- MODULE MCRunSpan -----------------------------
(* The span on a small stream: see the cfg files for the bounds.           *)
EXTENDS RunSpan, TLC

CONSTANTS g1, g2

TwoGoals == {g1, g2}
=============================================================================
