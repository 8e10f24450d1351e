---------------------------- MODULE MCStateStore ----------------------------
(* Three callers on two keys: enough for one caller to overwrite the file     *)
(* that two others have raced on.                                             *)
EXTENDS StateStore, TLC

Symmetry == Permutations(Callers) \cup Permutations(Keys)
=============================================================================
