-------------------------- MODULE MCDaemonSession --------------------------
(* One connection: one soul, a goal with two revisions                     *)
(* and one capability that may or may not be registered.                   *)
EXTENDS DaemonSession
=============================================================================
