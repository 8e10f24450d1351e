--------------------------- MODULE RunSpanProofs ---------------------------
(***************************************************************************)
(* Proofs about module RunSpan, for every set of goal ids and all bounds.  *)
(*                                                                         *)
(* None of the safety properties is inductive as it stands.  SpanInv adds  *)
(* what the control position says about the counters: a live span has      *)
(* steps to spare, adopted follows tool_steps, a decision that lost the    *)
(* race against a newer revision leaves that revision in the channel until *)
(* the next poll finds it, and a decision that lost the race against the   *)
(* veto leaves the veto raised for the next poll.                          *)
(***************************************************************************)
EXTENDS RunSpan, TLAPS

LiveInv ==
    /\ (pc = "done") <=> (end # "None")
    /\ pc # "done" => steps < MaxToolSteps
    /\ pc \notin Waiting => current \in Goal \/ pc = "done"

BudgetInv ==
    /\ adopted <= MaxToolSteps
    /\ pc \in Selecting => adopted = steps
    /\ pc = "enact" => adopted = steps + 1

StaleInv ==
    /\ stale <= 1
    /\ stale = 1 /\ pc \notin Waiting /\ pc # "done" =>
           NewerQueued /\ pc \in {"pollGoals", "enact"}

LateInv ==
    /\ late <= 1
    /\ late = 1 => veto /\ pc # "pollDecide"

SpanInv ==
    /\ TypeOK
    /\ LiveInv
    /\ BudgetInv
    /\ StaleInv
    /\ LateInv
    /\ NewerNeverBuffered
    /\ RunsAccounted

\* A goal sent to the channel leaves a queued newer revision queued.
LEMMA AppendKeepsQueued ==
    ASSUME NEW s \in Seq(Goal), NEW g \in Goal, NEW c,
           NEW i \in 1 .. Len(s), Supersedes(s[i], c)
    PROVE  \E j \in 1 .. Len(Append(s, g)) : Supersedes(Append(s, g)[j], c)
  <1>1. i \in 1 .. Len(Append(s, g)) /\ Append(s, g)[i] = s[i]
    OBVIOUS
  <1>2. QED BY <1>1

\* Receiving a goal that does not supersede c leaves one that does.
LEMMA TailKeepsQueued ==
    ASSUME NEW s \in Seq(Goal), s # << >>, NEW c,
           ~Supersedes(Head(s), c),
           NEW i \in 1 .. Len(s), Supersedes(s[i], c)
    PROVE  \E j \in 1 .. Len(Tail(s)) : Supersedes(Tail(s)[j], c)
  <1>1. i # 1
    BY Head(s) = s[1]
  <1>2. i - 1 \in 1 .. Len(Tail(s)) /\ Tail(s)[i - 1] = s[i]
    BY <1>1
  <1>3. QED BY <1>2

LEMMA InitInv == Init => SpanInv
  <1> SUFFICES ASSUME Init PROVE SpanInv
    OBVIOUS
  <1> USE SpanConstants DEF Init
  <1>1. TypeOK
    <2>1. chan \in Seq(Goal) /\ sent \in 0 .. MaxSent /\ steps \in 0 .. MaxToolSteps
          /\ left \in 0 .. MaxIntents
      OBVIOUS
    <2>2. open \in BOOLEAN /\ veto \in BOOLEAN /\ acted \in BOOLEAN
      OBVIOUS
    <2>3. tally \in [Events -> Nat]
      OBVIOUS
    <2>4. QED BY <2>1, <2>2, <2>3 DEF TypeOK, PCs, Waiting, Selecting
  <1>2. RunsAccounted
    BY DEF RunsAccounted, Events, Selecting
  <1>3. LiveInv /\ BudgetInv /\ StaleInv /\ LateInv /\ NewerNeverBuffered
    BY DEF LiveInv, BudgetInv, StaleInv, LateInv, NewerNeverBuffered, Waiting, Selecting
  <1>4. QED BY <1>1, <1>2, <1>3 DEF SpanInv

-----------------------------------------------------------------------------
(* What a step does to each part of the invariant.                         *)

\* The senders touch only the channel and the veto.
LEMMA SenderKeeps == SpanInv /\ Sender => SpanInv'
  <1> SUFFICES ASSUME SpanInv, Sender PROVE SpanInv'
    OBVIOUS
  <1> USE SpanConstants DEF SpanInv, enactment, history
  <1>1. CASE CloseStream
    <2>1. TypeOK' /\ LiveInv' /\ BudgetInv'
      BY <1>1 DEF CloseStream, TypeOK, LiveInv, BudgetInv
    <2>2. StaleInv' /\ LateInv' /\ NewerNeverBuffered'
      BY <1>1 DEF CloseStream, StaleInv, LateInv, NewerNeverBuffered, NewerQueued
    <2>3. RunsAccounted'
      BY <1>1 DEF CloseStream, RunsAccounted
    <2>4. QED BY <2>1, <2>2, <2>3
  <1>2. CASE RaiseVeto
    <2>1. TypeOK' /\ LiveInv' /\ BudgetInv'
      BY <1>2 DEF RaiseVeto, TypeOK, LiveInv, BudgetInv
    <2>2. StaleInv' /\ LateInv' /\ NewerNeverBuffered'
      BY <1>2 DEF RaiseVeto, StaleInv, LateInv, NewerNeverBuffered, NewerQueued
    <2>3. RunsAccounted'
      BY <1>2 DEF RaiseVeto, RunsAccounted
    <2>4. QED BY <2>1, <2>2, <2>3
  <1>3. ASSUME NEW g \in Goal, SendGoal(g) PROVE SpanInv'
    <2>1. TypeOK'
      BY <1>3 DEF SendGoal, TypeOK
    <2>2. NewerQueued => NewerQueued'
      <3>1. chan' = Append(chan, g) /\ current' = current /\ chan \in Seq(Goal)
        BY <1>3 DEF SendGoal, TypeOK
      <3>2. ASSUME NEW i \in 1 .. Len(chan), Supersedes(chan[i], current)
            PROVE  NewerQueued'
        <4>1. \E j \in 1 .. Len(Append(chan, g)) : Supersedes(Append(chan, g)[j], current)
          BY <3>1, <3>2, AppendKeepsQueued
        <4>2. QED BY <3>1, <4>1 DEF NewerQueued, Supersedes
      <3>3. QED BY <3>2 DEF NewerQueued
    <2>3. StaleInv'
      BY <1>3, <2>2 DEF SendGoal, StaleInv
    <2>4. QED
      BY <1>3, <2>1, <2>3 DEF SendGoal, LiveInv, BudgetInv, LateInv,
                              NewerNeverBuffered, RunsAccounted
  <1>4. QED BY <1>1, <1>2, <1>3 DEF Sender

\* Taking up a goal clears the counters that belong to the old one.
LEMMA ObserveKeeps == SpanInv /\ Observe => SpanInv'
  <1> SUFFICES ASSUME SpanInv, Observe PROVE SpanInv'
    OBVIOUS
  <1> USE SpanConstants DEF SpanInv, env, enactment, history, BeginGoal, Emit,
          Waiting, Selecting, PCs
  <1>1. CASE TakePending
    <2>1. TypeOK'
      BY <1>1 DEF TakePending, TypeOK, Events
    <2>2. RunsAccounted'
      BY <1>1 DEF TakePending, TypeOK, RunsAccounted, Events
    <2>3. QED
      BY <1>1, <2>1, <2>2 DEF TakePending, TypeOK, LiveInv, BudgetInv, StaleInv,
                              LateInv, NewerNeverBuffered
  <1>2. CASE TakeNext
    <2>1. Head(chan) \in Goal /\ Tail(chan) \in Seq(Goal)
      BY <1>2 DEF TakeNext, TypeOK
    <2>2. TypeOK'
      BY <1>2, <2>1 DEF TakeNext, TypeOK, Events
    <2>3. RunsAccounted'
      BY <1>2 DEF TakeNext, TypeOK, RunsAccounted, Events
    <2>4. QED
      BY <1>2, <2>1, <2>2, <2>3 DEF TakeNext, TypeOK, LiveInv, BudgetInv, StaleInv,
                                    LateInv, NewerNeverBuffered
  <1>3. CASE StreamEnds
    BY <1>3 DEF StreamEnds, TypeOK, LiveInv, BudgetInv, StaleInv, LateInv,
                NewerNeverBuffered, RunsAccounted, NewerQueued, Ends
  <1>4. QED BY <1>1, <1>2, <1>3 DEF Observe

\* A poll of the select either finds the newer revision or the veto it has
\* to find, or there is none.
LEMMA PollKeeps == SpanInv /\ Poll => SpanInv'
  <1> SUFFICES ASSUME SpanInv, Poll PROVE SpanInv'
    OBVIOUS
  <1> USE SpanConstants DEF SpanInv, env, enactment, history, BeginGoal, Emit,
          Waiting, Selecting, PCs
  <1>1. CASE Superseded
    <2>1. Head(chan) \in Goal /\ Tail(chan) \in Seq(Goal)
      BY <1>1 DEF Superseded, TypeOK
    <2>2. TypeOK'
      BY <1>1, <2>1 DEF Superseded, TypeOK, Events
    <2>3. RunsAccounted'
      BY <1>1 DEF Superseded, TypeOK, RunsAccounted, Events, LiveInv
    <2>4. QED
      BY <1>1, <2>1, <2>2, <2>3 DEF Superseded, TypeOK, LiveInv, BudgetInv, StaleInv,
                                    LateInv, NewerNeverBuffered
  <1>2. CASE BufferOther
    <2>1. Head(chan) \in Goal /\ Tail(chan) \in Seq(Goal)
      BY <1>2 DEF BufferOther, TypeOK
    <2>2. TypeOK'
      BY <1>2, <2>1 DEF BufferOther, TypeOK
    <2>3. NewerQueued => NewerQueued'
      <3>1. chan' = Tail(chan) /\ current' = current /\ chan \in Seq(Goal) /\ chan # << >>
            /\ ~Supersedes(Head(chan), current)
        BY <1>2 DEF BufferOther, TypeOK
      <3>2. ASSUME NEW i \in 1 .. Len(chan), Supersedes(chan[i], current)
            PROVE  NewerQueued'
        <4>1. \E j \in 1 .. Len(Tail(chan)) : Supersedes(Tail(chan)[j], current)
          BY <3>1, <3>2, TailKeepsQueued
        <4>2. QED BY <3>1, <4>1 DEF NewerQueued, Supersedes
      <3>3. QED BY <3>2 DEF NewerQueued
    <2>4. StaleInv'
      BY <1>2, <2>3 DEF BufferOther, StaleInv
    <2>5. NewerNeverBuffered'
      BY <1>2 DEF BufferOther, NewerNeverBuffered, Supersedes
    <2>6. QED
      BY <1>2, <2>2, <2>4, <2>5 DEF BufferOther, LiveInv, BudgetInv, LateInv, RunsAccounted
  <1>3. CASE NoGoalQueued
    <2>1. ~NewerQueued
      BY <1>3 DEF NoGoalQueued, NewerQueued
    <2>2. QED
      BY <1>3, <2>1 DEF NoGoalQueued, TypeOK, LiveInv, BudgetInv, StaleInv, LateInv,
                        NewerNeverBuffered, RunsAccounted, NewerQueued, Supersedes
  <1>4. CASE Vetoed
    <2>1. TypeOK'
      BY <1>4 DEF Vetoed, TypeOK, Events, Ends
    <2>2. RunsAccounted'
      BY <1>4 DEF Vetoed, TypeOK, RunsAccounted, Events, LiveInv
    <2>3. QED
      BY <1>4, <2>1, <2>2 DEF Vetoed, TypeOK, LiveInv, BudgetInv, StaleInv, LateInv,
                              NewerNeverBuffered, Supersedes
  <1>5. CASE NotVetoed
    BY <1>5 DEF NotVetoed, TypeOK, LiveInv, BudgetInv, StaleInv, LateInv,
                NewerNeverBuffered, RunsAccounted, NewerQueued, Supersedes
  <1>6. CASE DecidePending
    BY <1>6 DEF DecidePending, TypeOK, LiveInv, BudgetInv, StaleInv, LateInv,
                NewerNeverBuffered, RunsAccounted, NewerQueued, Supersedes
  <1>7. CASE Wake
    BY <1>7 DEF Wake, TypeOK, LiveInv, BudgetInv, StaleInv, LateInv,
                NewerNeverBuffered, RunsAccounted, NewerQueued, Supersedes
  <1>8. QED BY <1>1, <1>2, <1>3, <1>4, <1>5, <1>6, <1>7 DEF Poll

\* The only step that adopts a decision, and so the only one that can lose a race.
LEMMA DecideKeeps == SpanInv /\ DecideReady => SpanInv'
  <1> SUFFICES ASSUME SpanInv, NEW n \in 0 .. MaxIntents, Decided(n) PROVE SpanInv'
    BY DEF DecideReady
  <1> USE SpanConstants DEF SpanInv, env, Emit, Waiting, Selecting, PCs, Decided
  <1>3. stale = 0 /\ late = 0
    BY DEF TypeOK, StaleInv, LateInv
  <1>1. TypeOK'
    <2>1. stale' \in Nat
      BY <1>3
    <2>2. late' \in Nat
      BY <1>3
    <2>3. adopted' \in Nat /\ tally' \in [Events -> Nat]
      BY DEF TypeOK, Events
    <2>4. QED BY <2>1, <2>2, <2>3 DEF TypeOK
  <1>2. RunsAccounted'
    BY DEF TypeOK, RunsAccounted, Events, LiveInv
  <1>4. StaleInv'
    BY <1>3 DEF StaleInv, NewerQueued, Supersedes
  <1>5. LateInv'
    BY <1>3 DEF LateInv
  <1>6. NewerNeverBuffered'
    BY DEF NewerNeverBuffered, Supersedes
  <1>7. QED BY <1>1, <1>2, <1>4, <1>5, <1>6 DEF TypeOK, LiveInv, BudgetInv

LEMMA EnactKeeps == SpanInv /\ Enact => SpanInv'
  <1> SUFFICES ASSUME SpanInv, Enact PROVE SpanInv'
    OBVIOUS
  <1> USE SpanConstants DEF SpanInv, env, history
  <1>1. /\ EnactIntent
        /\ outcome' \in Outcomes \cup {"None"}
        /\ acted' \in BOOLEAN
    BY DEF Enact, EnactInvoke, EnactExpress, EnactConclude, TypeOK
  <1>2. QED
    BY <1>1 DEF EnactIntent, TypeOK, LiveInv, BudgetInv, StaleInv, LateInv,
                NewerNeverBuffered, RunsAccounted, NewerQueued

\* tool_steps moves on with every decision that acts, and stops at the limit.
LEMMA AfterEnactKeeps == SpanInv /\ AfterEnact => SpanInv'
  <1> SUFFICES ASSUME SpanInv, AfterEnact PROVE SpanInv'
    OBVIOUS
  <1> USE SpanConstants DEF SpanInv, env, enactment, history, Emit, Waiting, Selecting, PCs
  <1>1. CASE Concludes
    <2>1. TypeOK'
      BY <1>1 DEF Concludes, TypeOK, Events, Ends
    <2>2. RunsAccounted'
      BY <1>1 DEF Concludes, TypeOK, RunsAccounted, Events, LiveInv
    <2>3. QED
      BY <1>1, <2>1, <2>2 DEF Concludes, TypeOK, LiveInv, BudgetInv, StaleInv, LateInv,
                              NewerNeverBuffered, NewerQueued, Supersedes
  <1>2. CASE StepLimit
    <2>1. TypeOK'
      BY <1>2 DEF StepLimit, TypeOK, Events, Ends, LiveInv
    <2>2. RunsAccounted'
      BY <1>2 DEF StepLimit, TypeOK, RunsAccounted, Events, LiveInv
    <2>3. QED
      BY <1>2, <2>1, <2>2 DEF StepLimit, TypeOK, LiveInv, BudgetInv, StaleInv, LateInv,
                              NewerNeverBuffered, NewerQueued, Supersedes
  <1>3. CASE Redecide
    <2>1. TypeOK'
      BY <1>3 DEF Redecide, TypeOK, Events
    <2>2. RunsAccounted'
      BY <1>3 DEF Redecide, TypeOK, RunsAccounted, Events, LiveInv
    <2>3. QED
      BY <1>3, <2>1, <2>2 DEF Redecide, TypeOK, LiveInv, BudgetInv, StaleInv, LateInv,
                              NewerNeverBuffered, NewerQueued, Supersedes
  <1>4. CASE AwaitNext
    BY <1>4 DEF AwaitNext, TypeOK, LiveInv, BudgetInv, StaleInv, LateInv,
                NewerNeverBuffered, RunsAccounted, NewerQueued, Supersedes
  <1>5. QED BY <1>1, <1>2, <1>3, <1>4 DEF AfterEnact

LEMMA StutterKeeps == SpanInv /\ UNCHANGED vars => SpanInv'
  BY DEF SpanInv, vars, env, enactment, history, TypeOK, LiveInv, BudgetInv, StaleInv,
         LateInv, NewerNeverBuffered, RunsAccounted, NewerQueued, Supersedes

-----------------------------------------------------------------------------
(* SpanInv is an inductive invariant of run_span.                          *)
THEOREM SpanInvariant == Spec => []SpanInv
  <1>1. SpanInv /\ [Next]_vars => SpanInv'
    BY SenderKeeps, ObserveKeeps, PollKeeps, DecideKeeps, EnactKeeps,
       AfterEnactKeeps, StutterKeeps DEF Next
  <1>2. QED BY InitInv, <1>1, PTL DEF Spec

(* The span's state keeps its type, for any number of goals and steps.     *)
THEOREM SpanTypeCorrect == Spec => []TypeOK
  <1>1. SpanInv => TypeOK
    BY DEF SpanInv
  <1>2. QED BY SpanInvariant, <1>1, PTL

(* However the senders' steps fall between the polls of the select, a      *)
(* newer revision in the channel loses the race at most once.              *)
THEOREM StaleDecisionBound == Spec => []AtMostOneStaleDecision
  <1>1. SpanInv => AtMostOneStaleDecision
    BY DEF SpanInv, StaleInv, AtMostOneStaleDecision
  <1>2. QED BY SpanInvariant, <1>1, PTL

(* At most one decision is enacted after the veto is raised.               *)
THEOREM VetoBound == Spec => []AtMostOneDecisionAfterVeto
  <1>1. SpanInv => AtMostOneDecisionAfterVeto
    BY DEF SpanInv, LateInv, AtMostOneDecisionAfterVeto
  <1>2. QED BY SpanInvariant, <1>1, PTL

(* The events of a span tell exactly one end for every run it started.     *)
THEOREM RunAccounting == Spec => []RunsAccounted
  <1>1. SpanInv => RunsAccounted
    BY DEF SpanInv
  <1>2. QED BY SpanInvariant, <1>1, PTL

(* A revision that supersedes the goal being deliberated on never lands in *)
(* the one-place buffer, where the select would not see it.                *)
THEOREM NewerStaysVisible == Spec => []NewerNeverBuffered
  <1>1. SpanInv => NewerNeverBuffered
    BY DEF SpanInv
  <1>2. QED BY SpanInvariant, <1>1, PTL

(* The ReAct loop stays within its budget for every value of the limit.    *)
THEOREM DecisionBudgetHolds == Spec => []DecisionBudget
  <1>1. SpanInv => DecisionBudget
    BY DEF SpanInv, BudgetInv, DecisionBudget
  <1>2. QED BY SpanInvariant, <1>1, PTL

-----------------------------------------------------------------------------
(* Every step of run_span is a step of the contract or leaves it alone.    *)
LEMMA StepImplements ==
    SpanInv /\ [Next]_vars => [Contracted!ContractNext]_(Contracted!contractVars)
  <1> SUFFICES ASSUME SpanInv, [Next]_vars
               PROVE  Contracted!ContractNext \/ UNCHANGED Contracted!contractVars
    OBVIOUS
  <1> USE SpanConstants DEF SpanInv, PhaseOf, Waiting, Selecting, BeginGoal,
          Contracted!contractVars
  <1>1. CASE Sender \/ Enact \/ UNCHANGED vars
    BY <1>1 DEF Sender, SendGoal, CloseStream, RaiseVeto, Enact, EnactInvoke,
                EnactExpress, EnactConclude, EnactIntent, vars, history
  <1>2. CASE Observe
    <2>1. CASE TakePending
      <3>1. Contracted!TakeUp(pending) /\ pending \in Goal
        BY <1>2, <2>1 DEF TakePending, TypeOK, Contracted!TakeUp
      <3>2. QED BY <3>1 DEF Contracted!ContractNext
    <2>2. CASE TakeNext
      <3>1. Contracted!TakeUp(Head(chan)) /\ Head(chan) \in Goal
        BY <1>2, <2>2 DEF TakeNext, TypeOK, Contracted!TakeUp
      <3>2. QED BY <3>1 DEF Contracted!ContractNext
    <2>3. CASE StreamEnds
      <3>1. Contracted!Finish
        BY <2>3 DEF StreamEnds, Contracted!Finish, history
      <3>2. QED BY <3>1 DEF Contracted!ContractNext
    <2>4. QED BY <1>2, <2>1, <2>2, <2>3 DEF Observe
  <1>3. CASE Poll
    <2>1. CASE Superseded
      <3>1. Contracted!TakeUp(Head(chan)) /\ Head(chan) \in Goal
        BY <2>1 DEF Superseded, TypeOK, Contracted!TakeUp
      <3>2. QED BY <3>1 DEF Contracted!ContractNext
    <2>2. CASE Vetoed
      <3>1. Contracted!Finish
        BY <2>2 DEF Vetoed, Contracted!Finish, history
      <3>2. QED BY <3>1 DEF Contracted!ContractNext
    <2>3. CASE BufferOther \/ NoGoalQueued \/ NotVetoed \/ DecidePending \/ Wake
      BY <2>3 DEF BufferOther, NoGoalQueued, NotVetoed, DecidePending, Wake, history
    <2>4. QED BY <1>3, <2>1, <2>2, <2>3 DEF Poll
  <1>4. CASE DecideReady
    <2>1. Contracted!Adopt
      BY <1>4 DEF DecideReady, Decided, LiveInv, BudgetInv, TypeOK, Contracted!Adopt
    <2>2. QED BY <2>1 DEF Contracted!ContractNext
  <1>5. CASE AfterEnact
    <2>1. Contracted!Finish \/ Contracted!Reconsider \/ Contracted!Yield
      BY <1>5 DEF AfterEnact, Concludes, StepLimit, Redecide, AwaitNext, history,
                  Contracted!Finish, Contracted!Reconsider, Contracted!Yield
    <2>2. QED BY <2>1 DEF Contracted!ContractNext
  <1>6. QED BY <1>1, <1>2, <1>3, <1>4, <1>5 DEF Next

(* run_span implements the contract its callers rely on.                   *)
THEOREM SpanImplementsContract == Spec => ImplementsContract
  <1>1. Init => Contracted!ContractInit
    BY DEF Init, Contracted!ContractInit, PhaseOf, Waiting
  <1>2. QED
    BY <1>1, StepImplements, SpanInvariant, PTL
       DEF Spec, ImplementsContract, Contracted!Contract
=============================================================================
