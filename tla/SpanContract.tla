---------------------------- MODULE SpanContract ----------------------------
(***************************************************************************)
(* What one run span promises its caller, whatever the stream of goals,    *)
(* the veto source and the provider do (pan-core/src/loop_engine.rs).      *)
(* A span works on one goal at a time.  While it deliberates, the goal may *)
(* be replaced, and only by a newer revision of itself; once a decision is *)
(* adopted the goal stays until the decision has been carried out; one     *)
(* goal gets at most MaxToolSteps decisions; an ended span stays ended.    *)
(***************************************************************************)
EXTENDS Naturals

CONSTANTS Goal,            \* goals: [id, revision] records
          NoGoal,          \* Option::None
          Supersedes(_, _),\* Supersedes(newer, older)
          MaxToolSteps

VARIABLES goal, phase, adopted

contractVars == <<goal, phase, adopted>>

Phases == {"waiting", "deciding", "acting", "ended"}

ContractInit == goal = NoGoal /\ phase = "waiting" /\ adopted = 0

\* The span takes up a goal, or a newer revision of the goal it deliberates on.
TakeUp(g) ==
    /\ \/ phase = "waiting"
       \/ phase = "deciding" /\ Supersedes(g, goal)
    /\ goal' = g
    /\ phase' = "deciding"
    /\ adopted' = 0

\* A decision for the current goal is adopted and will be enacted.
Adopt ==
    /\ phase = "deciding"
    /\ adopted < MaxToolSteps
    /\ phase' = "acting"
    /\ adopted' = adopted + 1
    /\ UNCHANGED goal

\* The decision acted without concluding: deliberate again on the same goal.
Reconsider ==
    /\ phase = "acting"
    /\ phase' = "deciding"
    /\ UNCHANGED <<goal, adopted>>

\* The decision neither acted nor concluded: wait for the next goal.
Yield ==
    /\ phase = "acting"
    /\ phase' = "waiting"
    /\ UNCHANGED <<goal, adopted>>

Finish ==
    /\ phase # "ended"
    /\ phase' = "ended"
    /\ UNCHANGED <<goal, adopted>>

ContractNext ==
    \/ \E g \in Goal : TakeUp(g)
    \/ Adopt
    \/ Reconsider
    \/ Yield
    \/ Finish

Contract == ContractInit /\ [][ContractNext]_contractVars
=============================================================================
