--------------------------- MODULE MCEventStream ---------------------------
(* Three emitting threads, four events.                                    *)
EXTENDS EventStream, TLC

CONSTANTS e1, e2, e3

ThreeEmitters == {e1, e2, e3}
=============================================================================
