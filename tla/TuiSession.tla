----------------------------- MODULE TuiSession -----------------------------
(* The terminal UI (pan-tui/src/lib.rs): one loop that handles key events,   *)
(* tokens and the completion of the current run, the agent runs it spawns,   *)
(* and the files the runs write and /undo restores (module Workspace).  A    *)
(* run is a task of its own: it goes on whatever the UI shows.  Editing of   *)
(* the input line, scrolling and rendering are left out.                     *)
EXTENDS Workspace, Sequences

CONSTANTS
    Runs,       \* ids of runs: 1 .. n, in the order they are started
    UI,         \* the writer that is the UI itself
    Draft,      \* the content that runs write
    MaxLines,   \* bound on the lines the user enters
    MaxWrites   \* bound on the files a run writes

ASSUME TuiConstants ==
    /\ Runs \subseteq Nat \ {0} /\ Writers = Runs \cup {UI} /\ UI \notin Runs
    /\ Draft \in Values /\ MaxLines \in Nat /\ MaxWrites \in Nat

VARIABLES
    app,        \* the App: mode, running, transcript, channels
    span,       \* per run: the spawned task
    lines       \* lines entered so far

tuiVars == <<app, span, lines>>
vars == <<wsVars, tuiVars>>

None == 0

(* Of a message the model keeps its role, the run it was pushed for (None    *)
(* for a command's answer) and the runs whose text it shows.                 *)
Message(role, own) == [role |-> role, own |-> own, shows |-> {}]

(* A task: its mode is the App's when it was spawned.  `queued`: a token is  *)
(* in its channel.  `cancelled`: Ctrl-C was pressed while it ran.            *)
Task == [status |-> "none", mode |-> "build", expressed |-> FALSE, queued |-> FALSE,
         writes |-> 0, cancelled |-> FALSE]

NewApp == [mode |-> "build", running |-> FALSE, messages |-> <<>>, msg_idx |-> None,
           rx |-> None, thread_id |-> None, cancels |-> FALSE, quit |-> FALSE]

Init == WSInit /\ app = NewApp /\ span = [r \in Runs |-> Task] /\ lines = 0

-----------------------------------------------------------------------------
(* Keys.  handle_key awaits /undo, so that the UI handles nothing else       *)
(* while its own call is under way.                                          *)

UIFree == ~app.quit /\ op[UI].at = "idle"

Submit(messages) == app.messages \o <<Message("user", None)>> \o messages

\* Mutant: Enter is not held back by a run.
CanAlwaysEnter == UIFree /\ lines < MaxLines

\* Enter takes the input line when nothing runs.
CanEnter == UIFree /\ ~app.running /\ lines < MaxLines

\* A line that is a goal: run_agent.
RunAgent ==
    /\ CanEnter
    /\ \E r \in Runs :
          /\ r = app.thread_id + 1
          /\ app' = [app EXCEPT !.running = TRUE, !.thread_id = r, !.rx = r,
                                !.messages = Submit(<<Message("assistant", r)>>),
                                !.msg_idx = Len(app.messages) + 2]
          /\ span' = [span EXCEPT ![r].status = "live", ![r].mode = app.mode]
    /\ lines' = lines + 1
    /\ UNCHANGED wsVars

\* dispatch_capability: through a pipeline that allows all, whatever the mode.
DispatchCapability(p) == Undo(UI, p) \/ UndoTo(UI, p)

Answered(reply) == app' = [app EXCEPT !.messages = Submit(reply)]

\* /undo <path> [id]; without a snapshot it fails at once.
SlashUndo ==
    /\ CanEnter
    /\ lines' = lines + 1
    /\ \E p \in Paths :
          \/ DispatchCapability(p) /\ Answered(<<Message("assistant", None)>>)
          \/ List(p) = {} /\ Answered(<<Message("error", None)>>) /\ UNCHANGED wsVars
    /\ UNCHANGED span

\* A command that only answers: /undo list, or how it is used; /help; and a
\* command that is unknown or, like /quit, only puts itself on the transcript.
SlashList == \E role \in {"assistant", "error"} : Answered(<<Message(role, None)>>)
SlashHelp == Answered(<<Message("assistant", None)>>)
SlashOther == Answered(<<Message("error", None)>>) \/ Answered(<<>>)

SlashAnswer ==
    /\ CanEnter
    /\ lines' = lines + 1
    /\ SlashList \/ SlashHelp \/ SlashOther
    /\ UNCHANGED <<wsVars, span>>

SlashClear ==
    /\ CanEnter
    /\ lines' = lines + 1
    /\ app' = [app EXCEPT !.messages = <<>>]
    /\ UNCHANGED <<wsVars, span>>

\* Ctrl-C: the veto is sent on a channel no run listens to (they are given
\* NO_VETO), and the UI is ready for the next line while the run goes on.
CtrlC ==
    /\ UIFree /\ app.thread_id # None
    /\ app' = [app EXCEPT !.running = FALSE, !.cancels = TRUE]
    /\ span' = IF span[app.thread_id].status = "live"
               THEN [span EXCEPT ![app.thread_id].cancelled = TRUE] ELSE span
    /\ UNCHANGED <<wsVars, lines>>

CtrlL ==
    /\ UIFree /\ app.messages # <<>>
    /\ app' = [app EXCEPT !.messages = <<>>]
    /\ UNCHANGED <<wsVars, span, lines>>

Tab ==
    /\ UIFree /\ ~app.running
    /\ app' = [app EXCEPT !.mode = IF @ = "build" THEN "plan" ELSE "build"]
    /\ UNCHANGED <<wsVars, span, lines>>

\* Esc ends the loop and the process, with the runs and their calls.
Esc ==
    /\ UIFree
    /\ app' = [NewApp EXCEPT !.quit = TRUE]
    /\ span' = [r \in Runs |-> Task] /\ lines' = 0
    /\ Crash

-----------------------------------------------------------------------------
(* The other arms of the select!.  The App holds the receivers of the last   *)
(* run it started; those of earlier ones are gone.                           *)

Token ==
    /\ UIFree /\ app.rx # None /\ span[app.rx].queued
    /\ span' = [span EXCEPT ![app.rx].queued = FALSE]
    /\ app' = IF app.msg_idx # None /\ app.msg_idx <= Len(app.messages)
              THEN [app EXCEPT !.messages[app.msg_idx].shows = @ \cup {app.rx}] ELSE app
    /\ UNCHANGED <<wsVars, lines>>

LastAssistant ==
    {i \in DOMAIN app.messages :
        /\ app.messages[i].role = "assistant"
        /\ \A j \in i + 1 .. Len(app.messages) : app.messages[j].role # "assistant"}

\* Mutant: the App keeps the receiver and the index of the run.
FinalizeKeepsRun ==
    /\ UIFree /\ app.rx # None /\ span[app.rx].status = "done" /\ app.running
    /\ app' = [app EXCEPT !.running = FALSE]
    /\ UNCHANGED <<wsVars, span, lines>>

\* Mutant: a run whose message was cleared is not finalized.
FinalizeShownOnly ==
    /\ UIFree /\ app.rx # None /\ span[app.rx].status = "done"
    /\ app.msg_idx <= Len(app.messages)
    /\ app' = [app EXCEPT !.msg_idx = None, !.rx = None, !.running = FALSE]
    /\ UNCHANGED <<wsVars, span, lines>>

\* finalize_span: the report replaces the text of the last assistant message.
Finalize ==
    /\ UIFree /\ app.rx # None /\ span[app.rx].status = "done"
    /\ LET filled == IF span[app.rx].expressed THEN LastAssistant ELSE {}
       IN  app' = [app EXCEPT !.msg_idx = None, !.rx = None, !.running = FALSE,
                              !.messages = [i \in DOMAIN @ |->
                                  IF i \in filled THEN [@[i] EXCEPT !.shows = {app.rx}]
                                  ELSE @[i]]]
    /\ UNCHANGED <<wsVars, span, lines>>

-----------------------------------------------------------------------------
(* A spawned run.                                                            *)

Live(r) == ~app.quit /\ span[r].status = "live" /\ op[r].at = "idle"

\* The mind says something: a token for the UI and text of the report.
Express(r) ==
    /\ Live(r) /\ ~span[r].expressed
    /\ span' = [span EXCEPT ![r].expressed = TRUE, ![r].queued = TRUE]
    /\ UNCHANGED <<wsVars, app, lines>>

\* The governor of the mode in which the run was spawned; the plan governor
\* grants nothing.
MayAct(r) == span[r].mode = "build"

\* The mind writes a file; in plan mode the call is refused.
Act(r) ==
    /\ Live(r) /\ span[r].writes < MaxWrites /\ MayAct(r)
    /\ \E p \in Paths : FsWrite(r, p, Draft)
    /\ span' = [span EXCEPT ![r].writes = @ + 1]
    /\ UNCHANGED <<app, lines>>

\* The span ends and its report is sent.
Complete(r) ==
    /\ Live(r)
    /\ span' = [span EXCEPT ![r].status = "done"]
    /\ UNCHANGED <<wsVars, app, lines>>

\* The task panics, as openai.rs:222 can: no report is sent and the sender is
\* dropped.  The UI's loop ignores that (lib.rs:98-103): `running' stays set and
\* the receiver is kept.
Die(r) ==
    /\ Live(r)
    /\ span' = [span EXCEPT ![r].status = "dead"]
    /\ UNCHANGED <<wsVars, app, lines>>

FileStep(w) == CallGoesOn(w) /\ UNCHANGED tuiVars
FileFails(r) == CallFails(r) /\ UNCHANGED tuiVars

\* The answer that /undo has put up becomes an error.
UndoFails ==
    /\ CallFails(UI)
    /\ app' = [app EXCEPT !.messages[Len(app.messages)].role = "error"]
    /\ UNCHANGED <<span, lines>>

Clock == NextSecond /\ ~app.quit /\ UNCHANGED tuiVars

Keys == RunAgent \/ SlashUndo \/ SlashAnswer \/ SlashClear \/ CtrlC \/ CtrlL \/ Tab \/ Esc

Next ==
    \/ Keys \/ Token \/ Finalize \/ Clock \/ UndoFails
    \/ \E r \in Runs : Express(r) \/ Act(r) \/ Complete(r) \/ Die(r) \/ FileFails(r)
    \/ \E w \in Writers : FileStep(w)

(* The runtime polls the UI's loop and the runs, file calls return, and a    *)
(* mind that does not panic comes to an end.  Of the keys nothing is assumed. *)
Fairness ==
    /\ WF_vars(Finalize)
    /\ \A r \in Runs : WF_vars(Complete(r))
    /\ \A w \in Writers : WF_vars(FileStep(w))

Spec == Init /\ [][Next]_vars /\ Fairness

-----------------------------------------------------------------------------
MessageType == [role: {"user", "assistant", "error"}, own: Runs \cup {None}, shows: SUBSET Runs]

\* Type invariant.
TypeOK ==
    /\ WSTypeOK
    /\ app.mode \in {"build", "plan"} /\ app.running \in BOOLEAN
    /\ app.messages \in Seq(MessageType) /\ app.msg_idx \in Nat
    /\ app.rx \in Runs \cup {None} /\ app.thread_id \in Runs \cup {None}
    /\ \A r \in Runs : span[r].status \in {"none", "live", "done", "dead"}
    /\ lines \in 0 .. MaxLines

(* As long as the user has not pressed Ctrl-C, a message shows text of the   *)
(* run it was pushed for and of no other, whatever is cleared meanwhile.     *)
TranscriptIsFaithful ==
    ~app.cancels =>
        \A i \in DOMAIN app.messages :
            LET m == app.messages[i] IN
            m.shows \subseteq (IF m.own = None THEN {} ELSE {m.own})

(* Beside the run the UI shows, the only runs that are still alive are       *)
(* those whose cancellation the user asked for (and did not get).            *)
LiveRunsAreCurrentOrCancelled ==
    \A r \in Runs : span[r].status = "live" => r = app.rx \/ span[r].cancelled

\* The task of the run that the UI shows died.
ShownRunDied == app.rx # None /\ span[app.rx].status = "dead"

(* The UI does not stay busy, whatever is cleared and undone meanwhile: a    *)
(* run that is shown as running comes to an end and is finalized, or the     *)
(* user leaves, unless the run's task died.  Then nothing clears `running',  *)
(* and the user can enter no other line before a Ctrl-C (lib.rs:98-103).     *)
BusyEnds == app.running ~> (~app.running \/ app.quit \/ ShownRunDied)
=============================================================================
