------------------------------ MODULE RunSpan ------------------------------
(***************************************************************************)
(* One run span of the loop engine, pan-core/src/loop_engine.rs: the       *)
(* observation stream (StreamingObservations over an mpsc channel), the    *)
(* veto (ChannelVeto over a watch channel), the biased select that races a *)
(* decide against both, the enactment of a decision and the ReAct loop.    *)
(*                                                                         *)
(* The select! is modelled poll by poll.  One poll looks at its arms in    *)
(* source order: it first drains the goal channel, then reads the veto,    *)
(* then polls decide; the senders live on other threads and may act        *)
(* between any two of these steps.  What a decision contains is left open  *)
(* until it is enacted, one intent per step: nothing reads it before that. *)
(* Whether an Invoke succeeds does not matter to the span: both ways it    *)
(* yields a tool result (the pipeline itself is module Pipeline).          *)
(***************************************************************************)
EXTENDS Integers, Sequences

CONSTANTS
    GoalIds,        \* goal ids (span identities)
    MaxRev,         \* bound: revisions are 0..MaxRev
    MaxToolSteps,   \* MAX_TOOL_STEPS (8 in the code)
    MaxIntents,     \* bound: intents in one decision
    MaxSent,        \* bound: goals the sender puts on the channel
    HasEvaluator,   \* is Loop.evaluator Some(_)?
    NoGoal          \* Option::None for goals

Goal == [id : GoalIds, rev : 0 .. MaxRev]

ASSUME SpanConstants ==
    /\ MaxRev \in Nat
    /\ MaxToolSteps \in Nat \ {0}
    /\ MaxIntents \in Nat
    /\ MaxSent \in Nat
    /\ HasEvaluator \in BOOLEAN
    /\ NoGoal \notin Goal

VARIABLES
    chan,       \* goals in the mpsc channel, oldest first
    open,       \* is a sender of that channel alive?
    sent,       \* number of goals ever sent (bound)
    veto,       \* value of the veto watch channel
    pending,    \* StreamingObservations.pending
    pc,         \* where run_span is
    current,    \* the goal pursued
    steps,      \* tool_steps
    left,       \* intents of the adopted decision not yet enacted
    outcome,    \* outcome of enact so far
    acted,      \* is tool_results nonempty?
    end,        \* report.end
    tally,      \* lifecycle events emitted: started, decided, abandoned, concluded
    adopted,    \* history: decisions adopted for the current goal
    stale,      \* history: those adopted while a newer revision was queued
    late        \* history: decisions adopted after the veto was raised

env == <<chan, open, sent, veto>>
enactment == <<left, outcome, acted>>
history == <<adopted, stale, late>>
vars == <<env, pending, pc, current, steps, enactment, end, tally, history>>

Outcomes == {"Achieved", "Abandoned", "Continue"}
Ends == {"Concluded", "Unsatisfied", "StepLimit", "Vetoed", "StreamExhausted"}
Selecting == {"pollGoals", "pollVeto", "pollDecide", "parked"}
Waiting == {"observe", "next"}
PCs == Selecting \cup Waiting \cup {"enact", "done"}

\* Goal::superseded_by, seen from the newer goal.
Supersedes(newer, older) == newer.id = older.id /\ newer.rev > older.rev

\* Some revision that supersedes the current goal sits in the channel.
NewerQueued == \E i \in 1 .. Len(chan) : Supersedes(chan[i], current)

Events == {"started", "decided", "abandoned", "concluded"}

\* Lifecycle events emitted in this step, at most one of each kind.
Emit(kinds) == tally' = [k \in Events |-> tally[k] + (IF k \in kinds THEN 1 ELSE 0)]

Init ==
    /\ chan = << >> /\ open = TRUE /\ sent = 0 /\ veto = FALSE
    /\ pending = NoGoal
    /\ pc = "observe"
    /\ current = NoGoal
    /\ steps = 0 /\ left = 0 /\ outcome = "None" /\ acted = FALSE
    /\ end = "None"
    /\ tally = [k \in Events |-> 0]
    /\ adopted = 0 /\ stale = 0 /\ late = 0

-----------------------------------------------------------------------------
(* The senders: whoever holds the goal channel and the veto channel.       *)

SendGoal(g) ==
    /\ open /\ sent < MaxSent
    /\ chan' = Append(chan, g)
    /\ sent' = sent + 1
    /\ UNCHANGED <<open, veto, pending, pc, current, steps, enactment, end, tally, history>>

CloseStream ==
    /\ open
    /\ open' = FALSE
    /\ UNCHANGED <<chan, sent, veto, pending, pc, current, steps, enactment, end, tally, history>>

RaiseVeto ==
    /\ ~veto
    /\ veto' = TRUE
    /\ UNCHANGED <<chan, open, sent, pending, pc, current, steps, enactment, end, tally, history>>

-----------------------------------------------------------------------------
(* observe.                                                                *)

\* One iteration of the 'goal loop begins: fresh context, tool_steps = 0,
\* RunStarted, and into the select.
BeginGoal(g) ==
    /\ current' = g
    /\ steps' = 0
    /\ adopted' = 0 /\ stale' = 0
    /\ pc' = "pollGoals"

\* next_goal: a buffered goal goes first.
TakePending ==
    /\ pc \in Waiting
    /\ pending # NoGoal
    /\ pending' = NoGoal
    /\ BeginGoal(pending)
    /\ Emit({"started"})
    /\ UNCHANGED <<env, enactment, end, late>>

\* next_goal: otherwise the channel.
TakeNext ==
    /\ pc \in Waiting
    /\ pending = NoGoal
    /\ chan # << >>
    /\ chan' = Tail(chan)
    /\ BeginGoal(Head(chan))
    /\ Emit({"started"})
    /\ UNCHANGED <<open, sent, veto, pending, enactment, end, late>>

\* Mutant of StreamEnds: a stream that closes between two goals is not noticed.
StreamEndsBeforeFirst ==
    /\ pc = "observe"
    /\ pending = NoGoal /\ chan = << >> /\ ~open
    /\ end' = "StreamExhausted"
    /\ pc' = "done"
    /\ UNCHANGED <<env, pending, current, steps, enactment, tally, history>>

\* next_goal returns None: every sender is gone and the channel is empty.
StreamEnds ==
    /\ pc \in Waiting
    /\ pending = NoGoal /\ chan = << >> /\ ~open
    /\ end' = "StreamExhausted"
    /\ pc' = "done"
    /\ UNCHANGED <<env, pending, current, steps, enactment, tally, history>>

-----------------------------------------------------------------------------
(* The select!: superseded, vetoed, decide, in this order.                 *)

\* Mutant of Superseded: a newer revision of any goal takes over.
SupersededByAnyGoal ==
    /\ pc = "pollGoals"
    /\ chan # << >>
    /\ Head(chan).rev > current.rev
    /\ chan' = Tail(chan)
    /\ pending' = NoGoal
    /\ BeginGoal(Head(chan))
    /\ Emit({"abandoned", "started"})
    /\ UNCHANGED <<open, sent, veto, enactment, end, late>>

\* Arm 1: superseded() receives a newer revision.  The decide future is
\* dropped, the buffered goal too, and the span restarts on the newer goal.
Superseded ==
    /\ pc = "pollGoals"
    /\ chan # << >>
    /\ Supersedes(Head(chan), current)
    /\ chan' = Tail(chan)
    /\ pending' = NoGoal
    /\ BeginGoal(Head(chan))
    /\ Emit({"abandoned", "started"})
    /\ UNCHANGED <<open, sent, veto, enactment, end, late>>

\* Arm 1: any other goal is put in the one-place buffer; keep receiving.
BufferOther ==
    /\ pc = "pollGoals"
    /\ chan # << >>
    /\ ~Supersedes(Head(chan), current)
    /\ chan' = Tail(chan)
    /\ pending' = Head(chan)
    /\ UNCHANGED <<open, sent, veto, pc, current, steps, enactment, end, tally, history>>

\* Mutant of NoGoalQueued: an unbiased select may skip arm 1.
GoalsNotPolled ==
    /\ pc = "pollGoals"
    /\ pc' = "pollVeto"
    /\ UNCHANGED <<env, pending, current, steps, enactment, end, tally, history>>

\* Arm 1 is pending: nothing in the channel (or closed: pending forever).
NoGoalQueued ==
    /\ pc = "pollGoals"
    /\ chan = << >>
    /\ pc' = "pollVeto"
    /\ UNCHANGED <<env, pending, current, steps, enactment, end, tally, history>>

\* Mutant of Vetoed: the span ends without its Abandoned event.
VetoedSilently ==
    /\ pc = "pollVeto"
    /\ veto
    /\ end' = "Vetoed"
    /\ pc' = "done"
    /\ UNCHANGED <<env, pending, current, steps, enactment, tally, history>>

\* Arm 2: vetoed() resolves; the decide future is dropped and the span ends.
Vetoed ==
    /\ pc = "pollVeto"
    /\ veto
    /\ end' = "Vetoed"
    /\ pc' = "done"
    /\ Emit({"abandoned"})
    /\ UNCHANGED <<env, pending, current, steps, enactment, history>>

\* Mutant of NotVetoed: an unbiased select may skip arm 2.
VetoNotPolled ==
    /\ pc = "pollVeto"
    /\ pc' = "pollDecide"
    /\ UNCHANGED <<env, pending, current, steps, enactment, end, tally, history>>

NotVetoed ==
    /\ pc = "pollVeto"
    /\ ~veto
    /\ pc' = "pollDecide"
    /\ UNCHANGED <<env, pending, current, steps, enactment, end, tally, history>>

\* Arm 3: decide is still pending; the task sleeps until some arm wakes it.
DecidePending ==
    /\ pc = "pollDecide"
    /\ pc' = "parked"
    /\ UNCHANGED <<env, pending, current, steps, enactment, end, tally, history>>

Wake ==
    /\ pc = "parked"
    /\ pc' = "pollGoals"
    /\ UNCHANGED <<env, pending, current, steps, enactment, end, tally, history>>

\* Arm 3: decide resolves with a decision of n intents; enact starts.
Decided(n) ==
    /\ pc = "pollDecide"
    /\ pc' = "enact"
    /\ left' = n /\ outcome' = "None" /\ acted' = FALSE
    /\ Emit({"decided"})
    /\ adopted' = adopted + 1
    /\ stale' = stale + (IF NewerQueued THEN 1 ELSE 0)
    /\ late' = late + (IF veto THEN 1 ELSE 0)
    /\ UNCHANGED <<env, pending, current, steps, end>>

-----------------------------------------------------------------------------
(* enact, and what run_span does with its result.                          *)

EnactIntent ==
    /\ pc = "enact"
    /\ left > 0
    /\ left' = left - 1
    /\ UNCHANGED <<env, pending, pc, current, steps, end, tally, history>>

\* Invoke: dispatched, and a result or an error fragment comes back.
EnactInvoke ==
    /\ EnactIntent
    /\ acted' = TRUE
    /\ UNCHANGED outcome

\* Express: an event, a report entry and a token; no tool result.
EnactExpress ==
    /\ EnactIntent
    /\ UNCHANGED <<outcome, acted>>

\* Conclude: remembered, the rest of the decision is still enacted.
EnactConclude(o) ==
    /\ EnactIntent
    /\ outcome' = o
    /\ UNCHANGED acted

\* A concluding outcome ends the span.
Concludes ==
    /\ pc = "enact" /\ left = 0
    /\ outcome # "None"
    /\ \/ end' = "Concluded"
       \/ outcome = "Achieved" /\ HasEvaluator /\ end' = "Unsatisfied"
    /\ pc' = "done"
    /\ Emit({"concluded"})
    /\ UNCHANGED <<env, pending, current, steps, enactment, history>>

\* Acted without concluding for the MaxToolSteps-th time.
StepLimit ==
    /\ pc = "enact" /\ left = 0
    /\ outcome = "None" /\ acted
    /\ steps + 1 >= MaxToolSteps
    /\ steps' = steps + 1
    /\ end' = "StepLimit"
    /\ pc' = "done"
    /\ Emit({"concluded"})
    /\ UNCHANGED <<env, pending, current, enactment, history>>

\* Acted without concluding: fold the results in and decide again.
Redecide ==
    /\ pc = "enact" /\ left = 0
    /\ outcome = "None" /\ acted
    /\ steps + 1 < MaxToolSteps
    /\ steps' = steps + 1
    /\ pc' = "pollGoals"
    /\ Emit({"started"})
    /\ UNCHANGED <<env, pending, current, enactment, end, history>>

\* Neither acted nor concluded: wait for the next goal.
AwaitNext ==
    /\ pc = "enact" /\ left = 0
    /\ outcome = "None" /\ ~acted
    /\ pc' = "next"
    /\ UNCHANGED <<env, pending, current, steps, enactment, end, tally, history>>

-----------------------------------------------------------------------------
Observe == TakePending \/ TakeNext \/ StreamEnds
Poll == Superseded \/ BufferOther \/ NoGoalQueued \/ Vetoed \/ NotVetoed \/ DecidePending \/ Wake
DecideReady == \E n \in 0 .. MaxIntents : Decided(n)
Enact == EnactInvoke \/ EnactExpress \/ \E o \in Outcomes : EnactConclude(o)
AfterEnact == Concludes \/ StepLimit \/ Redecide \/ AwaitNext
Sender == CloseStream \/ RaiseVeto \/ \E g \in Goal : SendGoal(g)

Next == Sender \/ Observe \/ Poll \/ DecideReady \/ Enact \/ AfterEnact

(* The runtime keeps polling the span's task, and the provider eventually  *)
(* answers a decide that is polled again and again.                        *)
Fairness ==
    /\ WF_vars(Observe \/ Poll \/ Enact \/ AfterEnact)
    /\ SF_vars(DecideReady)

Spec == Init /\ [][Next]_vars
FairSpec == Spec /\ Fairness

-----------------------------------------------------------------------------
(* Properties.                                                             *)

(* The variables of run_span keep their types; tool_steps never passes    *)
(* MAX_TOOL_STEPS.                                                        *)
TypeOK ==
    /\ chan \in Seq(Goal) /\ open \in BOOLEAN /\ sent \in 0 .. MaxSent /\ veto \in BOOLEAN
    /\ pending \in Goal \cup {NoGoal}
    /\ pc \in PCs
    /\ current \in Goal \cup {NoGoal}
    /\ steps \in 0 .. MaxToolSteps /\ left \in 0 .. MaxIntents
    /\ outcome \in Outcomes \cup {"None"} /\ acted \in BOOLEAN
    /\ end \in Ends \cup {"None"}
    /\ tally \in [Events -> Nat]
    /\ adopted \in Nat /\ stale \in Nat /\ late \in Nat

(* The biased select (loop_engine.rs:358-379) polls supersession first, so *)
(* a revision that is waiting can lose the race against at most one        *)
(* decision for the goal it supersedes: the one whose poll had already     *)
(* passed the supersession arm.  It is never enacted twice.                *)
AtMostOneStaleDecision == stale <= 1

(* After the veto is raised at most one more decision is enacted, the one  *)
(* whose poll had already passed the veto arm (loop_engine.rs:369-378).    *)
AtMostOneDecisionAfterVeto == late <= 1

(* A goal that supersedes the current one is never parked in the one-place *)
(* buffer, which only next_goal empties (loop_engine.rs:199-219).          *)
NewerNeverBuffered ==
    pending # NoGoal /\ pc \notin Waiting => ~Supersedes(pending, current)

(* The event stream tells the story of the span: every RunStarted is       *)
(* answered by exactly one Decided or Abandoned before the next, and a     *)
(* RunConcluded is emitted exactly for the ends that are conclusions       *)
(* (loop_engine.rs:338-449).                                               *)
RunsAccounted ==
    /\ tally["started"] = tally["decided"] + tally["abandoned"]
                           + (IF pc \in Selecting THEN 1 ELSE 0)
    /\ tally["concluded"] = IF end \in {"Concluded", "Unsatisfied", "StepLimit"} THEN 1 ELSE 0

(* The ReAct loop gives one goal (one revision) at most MAX_TOOL_STEPS     *)
(* decisions, however its decisions act (loop_engine.rs:333, 416-425).     *)
DecisionBudget == adopted <= MaxToolSteps

(* "The core only guarantees the loop terminates" (loop_engine.rs:46): a   *)
(* span whose stream is closed ends.                                       *)
Terminates == ~open ~> pc = "done"

(* A veto raised while the provider is deciding ends the span: the         *)
(* in-flight decide is dropped (loop_engine.rs:222-225).                   *)
VetoEndsDeliberation == (veto /\ pc = "parked") ~> end = "Vetoed"

(* The span implements the contract of module SpanContract.                *)
PhaseOf ==
    IF pc \in Waiting THEN "waiting"
    ELSE IF pc \in Selecting THEN "deciding"
    ELSE IF pc = "enact" THEN "acting" ELSE "ended"

Contracted == INSTANCE SpanContract WITH goal <- current, phase <- PhaseOf

ImplementsContract == Contracted!Contract

=============================================================================
