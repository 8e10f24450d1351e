--------------------------- MODULE GovernedEffect ---------------------------
(***************************************************************************)
(* The promise of the dispatch pipeline (boundary #2 of pan-core's         *)
(* pipeline.rs): an effect reaches the world only for a request that may   *)
(* act, the request judged is the one carried out, and every request is    *)
(* settled once.                                                           *)
(***************************************************************************)
CONSTANTS Calls,       \* dispatches
          Requests,
          MayAct       \* requests that are registered, valid and allowed

VARIABLES phase,       \* phase[c]: what has become of call c
          req          \* req[c]: its request

Move(c, from, to) == phase[c] = from /\ phase' = [phase EXCEPT ![c] = to]

\* The request is made; it is refused before anything happened.
Ask(c, r) == Move(c, "idle", "asked") /\ req' = [req EXCEPT ![c] = r]
Refuse(c) == Move(c, "asked", "refused") /\ UNCHANGED req

\* The executor starts, and returns a result or an error.
Act(c) == req[c] \in MayAct /\ Move(c, "asked", "acting") /\ UNCHANGED req
Succeed(c) == Move(c, "acting", "effected") /\ UNCHANGED req
Break(c) == Move(c, "acting", "broken") /\ UNCHANGED req

GInit == phase = [c \in Calls |-> "idle"]
GNext ==
    \E c \in Calls :
        \/ \E r \in Requests : Ask(c, r)
        \/ Refuse(c) \/ Act(c) \/ Succeed(c) \/ Break(c)

Governed == GInit /\ [][GNext]_<<phase, req>>
=============================================================================
