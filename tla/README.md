# A formal model of Pan

Pan is an agent runtime in Rust. Goals arrive, a provider (a mind) decides, the
decision's intents go through a governed dispatch pipeline, and everything that
happens is told on an event stream. Front ends (a daemon that speaks the Soul
Protocol, an HTTP gateway, a terminal UI, a CLI) drive that core, and `cap.*`
components give it abilities.

This directory models Pan's core and its front ends: the parts whose
correctness depends on orders of events, failures and crashes that tests hardly
reach. TLC checks them on small instances, and TLAPS proves the central
invariants for every instance.

## 1. Inventory

| Component | State | Operations | What is hard | What makes it correct |
|---|---|---|---|---|
| Loop engine (`pan-core/loop_engine.rs`) | current goal, step count, one-place goal buffer, report | `run_span`, `enact`, `next_goal`, `superseded`, `vetoed` | a biased `select!` races a decide against newer goals and a veto; senders act between two polls | a decision is out of date at most once; the span ends; events add up |
| Pipeline (`pan-core/pipeline.rs`, `invoker.rs`) | stage tokens per dispatch, trail of stage events | `resolve`, `validate`, `govern`, `execute`, hooks, nested `invoke` | dispatches interleave; a capability dispatches others from inside its execution | nothing executes ungoverned; nested calls stay inside their parent and its scope |
| Governors (`pan-core/pipeline.rs`) | grants, path rules, host lists, chain | `grant`, `allow_path`, `deny_path`, `allow_hosts`, `push`, `govern` | wrapping and ordering; index arithmetic of the glob matcher | composition only narrows; globs mean what their comment says |
| Event stream (`pan-core/events.rs`) | counter, channel, consumer thread | `emit`, `shutdown`, `shutdown_timeout`, `Drop` | number and send are two steps; the sink may panic; a join can wait for ever | gaps are explainable, per-thread order, everything drained at flush |
| Daemon (`pan-daemon/session.rs`, `server.rs`) | registry, souls, revision ledger, counter, tasks | nine message types, the task of a perceive, `write_one` | minds overtake each other; two locks; shutdown with minds still thinking | one reply per line, no regress to old revisions |
| State capability (`pan-cap/state.rs`) | map, file | `set`, `delete`, load | the file is rewritten outside the lock and in place; crashes | no invented state; a lone mutation is durable |
| Files and snapshots (`pan-cap/fs.rs`, `snapshot.rs`) | files, snapshot files named by time | `write`, `undo`, `snapshot`, `restore`, `restore_latest` | calls of runs and of the UI overlap; writes in place; two snapshots within a second; crashes | what a write replaces can be had back |
| Plugins (`pan-core/plugind.rs`, `registry.rs`) | published set, lifecycle, `reloading` flag | `start`, `reload`, `shutdown`, `health` | any phase of any plugin fails; directories change between calls | phases in order, none dropped while up, what is published is what is driven |
| Assembly (`pan-agent/assembler.rs`, `manifest.rs`, `merge.rs`, `builtin.rs`, `pan-core/components.rs`, `toolbox.rs`) | name tables | build, merge, assemble | precedence, defaults, two assembling functions that differ | an agent can do what its manifest grants and no more |
| Context and session log (`pan-agent/context.rs`, `session.rs`) with the command line (`pan-cli`) | history, JSONL file, cache | `assemble`, `commit`, `append`, `turns` | trimming; two writes per line; several processes on one file; crashes | the recent conversation is replayed and survives |
| Delegation (`pan-agent/agent.rs`) | origin chain | `delegate` | agents that delegate to agents | bounded depth, no more rights than declared |
| Gateway (`pan-gateway`) | shared agents, metrics, SSE channels | chat, goals, delegate | concurrent requests on one agent, streams, panics, clients that leave | every request ends, a stream tells the report |
| LLM clients (`pan-llm`) | tokens used, attempts | `decide`, post, retry | a budget read before and charged after the request; retries | bounded overrun, bounded attempts, the prompt is the conversation |
| Terminal UI (`pan-tui`) | mode, transcript, channels, run tasks | keys, slash commands, tokens, completion | a run goes on whatever the UI shows | messages show their own run; the UI does not stay busy |
| Skills (`pan-cap/skill.rs`, `pan-skill`) | skill files, library file, child and its pipes | create, edit, delete, run | shared library rewritten by every run; both ends of two pipes wait | a run starts and ends |
| Other capabilities, daemon minds | none | I/O | - | - |

The parts meet as follows. A front end builds an agent (assembly), puts goals on
an observation stream and calls `run_span`; `run_span` calls the provider, then
`Pipeline::dispatch_with_invoker` for each Invoke; the pipeline asks a governor,
runs the executor (the toolbox), and a composite capability calls back into the
pipeline through a `PipelineInvoker`. Loop and pipeline emit on one
`EventStream`, which a thread of its own drains. The daemon does not use
`run_span`: each perceive is a task that decides once and dispatches. In the
gateway all requests for one agent name share one toolbox, so `cap.state` is
called concurrently; `MemoryRetrievalAssembler` reads its file directly.

## 2. Modules

`X.tla` models a component, `MCX.tla` gives it the values of a small instance,
`X.cfg` is the run. The theorems are in `XProofs.tla`; three proof modules serve
two components that share no state: PipelineProofs (Pipeline, Governors),
CapabilityProofs (StateStore, SkillRun) and FrontEndProofs (Gateway, CliSession),
and TuiSessionProofs holds those of Workspace too. So that one module can extend
both, Governors, SkillRun, CliSession and Workspace name their specifications
`PolicySpec`, `SkillSpec`, `CliSpec` and `WSSpec`. Mutants are operators marked as
such next to the action they distort; no specification uses them.

**SpanContract** - what a span promises: one goal at a time, replaced only while
deliberating and only by a newer revision of itself; a bounded number of
decisions per goal; an ended span stays ended.

**RunSpan** - `run_span` with `StreamingObservations` and `ChannelVeto`.
`pc` follows the code: `observe` and `next` wait in `next_goal`; `pollGoals`,
`pollVeto`, `pollDecide` are the arms of one poll of the biased `select!`;
`parked` is a select that waits to be woken; `enact` carries out a decision
intent by intent. Goals are `[id, rev]` records. The sender's actions
(`SendGoal`, `CloseStream`, `RaiseVeto`) interleave with everything. What a
decision contains is chosen as it is enacted. `adopted`, `stale` and `late` are
history. It implements SpanContract under the mapping
`goal <- current`, `phase <- PhaseOf`.

**GovernedEffect** - what the pipeline promises of one call: asked, then refused
or acting, then effected or broken; it acts only on a request that may act, and
the request acted on is the one that was judged.

**Pipeline** - any number of dispatches, each at its own stage. The borrowed
registry, schemas and governor are constants (`Registered`, `Valid`, `Policy`);
`trail[c]` is the sequence of StageCompleted events of call `c`. A nested call
has a `parent` and no invoker.

**Governors** - the policy under construction and the verdict it gives. Dotted
ids and host names are sequences of their parts; globs and paths are sequences
of characters because the matcher is defined on them. `GlobMatchRec` is
`glob_match_rec` as a recursive function on the positions of the glob: its value at
`pi` is the set of the `si` at which the call answers true, computed by
`GlobMatchFrom` from the later positions. `Denotes` is the meaning of a glob as a set
of paths, taken from the comment on `glob_match_simple` alone; code and comment part
at single stars and behind a `**` (section 5), and the property says exactly where.

**EventStream** - `emit` in its two steps (`Claim`, `Send`), the consumer
(`Consume`, `Flush`, `Die` for a panicking sink), and `Close` for the three ways
to shut down. `log` is everything ever sent, `taken` the consumer's position.

**DaemonSession** - one connection. `Handle` has one action per message type,
performed by the read loop under the session lock; `Dispatched` and
`FinishPerceive` are the task of a perceive; `Write` is `write_one`. A reply is
in `unwritten` between the two locks. `inbox` is the history of lines.

**StateStore** - `cap.state` with a file. `Mutate` is the critical section,
`OpenTruncate` and `WriteText` the two halves of `fs::write`, `PersistFails` an
I/O error in either, `Restart` a crash at any point followed by `with_file`.

**Workspace** - `cap.fs.write` and `cap.fs.undo` with a snapshot store. A call
is the steps of its `fs::write`s (`SnapOpen`, `SnapFill`, `Truncate`, `Put`), any
of which may fail or be the last before a `Crash`. The clock counts ticks of a
second because `restore_latest` compares whole seconds. `alone` records whether
another call on the path overlapped; `past`, `lost` and `undone` are history.

**TuiSession** - extends Workspace: the UI's loop and the runs it spawns. One
action per key or slash command, `Token` and `Finalize` for the two channels of
the run that is shown, `Express`, `Act`, `Complete` and `Die` (the task panics and
sends no report) for a run. Of a message the model keeps the run it was pushed for and the runs whose text it shows.

**CliSession** - `run_session` of several processes, each with no history, a
rolling one or a session file. The file is the sequence of pieces written to it:
a line, part of one, a newline; `ReadFile` is what `read_file` makes of them: the
turns of the pieces that are a line of their own (`Wholes`), in order, or nothing
if a character was cut in two anywhere in the file (`IsText`).

**Plugins** - `PluginManager` over `Lifecycle`. `call`, `phase` and `at` say where
an operation is; a call into a plugin is one step, which may fail (`MayFail`).
`Files`, `ManifestOf`, `LoadedPlugins` and `CapabilityIndex` are `discover_all`.

**AgentAssembly** - no state: what the built-in components provide and need, the
merge of settings, and both assembling functions as operators on a manifest
(`AssembleFault`/`Assembled`, and `FreshFault`/`AssembledFresh` for the one
without a global config), up to the gateway's pool (`PoolOf`). `Given` is what a
factory takes for a setting: the LLM providers refuse an empty one.

**Selection** - `Picked`: the elements of a sequence at some of its positions, in
their order, which is what the code's `filter` and `collect` leave. It is not
recursive, so that the modules that filter (LlmClient, Gateway, CliSession) can be
proved about.

**LlmClient** - the state of LLM calls: tokens used per provider instance and the
attempt of each call; the messages of a request and what a body is taken for are
operators.

**Gateway** - composes AgentAssembly and LlmClient: each client makes one request,
`frames` is the stack of its span and of the delegated spans inside its calls,
`chan` and `sse` are the two ends of a stream. A span here is what it decides,
calls and says; RunSpan and Pipeline have its detail. `dir` is what an agent's name
may lead to: the files of the agents directory, of which `Load` makes the pool, and
those `Outside`, which a delegation reaches with a name like `../x` because nothing
checks it. `Edit` changes the files while the gateway serves, and a child is
made of what its file holds at the call; `held` is the history of the manifests.
Assumed: `cap.agent` is given the pool's own directory, and no origin in a manifest
contains `.delegated.`, so that the delegation depth is the length of the chain.

**SkillRun** - `cap.skill` and the runner. A script is the sequence of what the
skill does (invoke, await, print, return, start a process that keeps its pipes open,
never end); pipes hold `Pipe` lines. What an invoke does is in Pipeline, here it
returns.

## 3. Runs

| Run | States | Instance |
|---|---|---|
| `run_span` | 107,000 | two goals, two revisions, three goals sent, two tool steps, two intents |
| `pipeline` | 15,000 | two calls, two hooks, seven requests covering every way to be refused |
| `governors` | 74,000 | every policy of two path rules, two links, all grants and host lists of two origins; every path of up to three characters |
| `event_stream` | 46,000 | three emitters, four events, panics and all shutdowns |
| `daemon` | 141,000 | four lines, one soul, one goal with two revisions, one capability that is registered or not |
| `state_store` | 19,000 | three callers, two keys |
| `state_store_durable` (violation) | | an acknowledged value is forgotten by a restart |
| `plugins` | 26,000 | ten contents of two directories, two native plugins, three reloads |
| `tui` | 999,000 | two runs and the UI on two paths that share a snapshot directory, two seconds of two ticks, an empty and a used workspace |
| `cli` | 2,529,000 | two processes, four turns, a window of one, two faults |
| `gateway` | 167,000 | two clients, eight contents of the agents directory of which one replaces another while the gateway serves, files outside it, ten requests, four bodies of a model, one retry, two steps, one level of delegation |
| `skill` | 50,000 | two callers, one name, seven scripts, pipes of one line, four calls |

What the properties say:

- *run_span*: at most one decision per goal is enacted although a newer revision
  is waiting (`AtMostOneStaleDecision`) and at most one after a veto
  (`AtMostOneDecisionAfterVeto`); each RunStarted is answered by one Decided or
  Abandoned (`RunsAccounted`); the span ends (`Terminates`) and so does
  deliberation after a veto (`VetoEndsDeliberation`); every step is one of
  SpanContract (`ImplementsContract`).
- *pipeline*: an executor runs only for a request that every stage and hook let
  through (`EffectsAreGoverned`); the trail tells how a call ended
  (`TrailTellsOutcome`); the refinement of GovernedEffect (`KeepsPromise`). Where
  nested calls run is left to the proofs (section 4).
- *governors*: only what was granted, to listed hosts, is allowed, whatever is
  wrapped around or chained to it (`OnlyGranted`); further rules and links only
  narrow (`RulesAndLinksNarrow`); the matcher finds every path that a glob stands
  for by its comment, unless a single star is followed by a slash, and no other,
  unless the glob has a single star or a slash behind a `**` (`GlobsAsDocumented`).
- *event_stream*: a missing number is in an emitter's hands (`GapsAreInFlight`);
  `PerEmitterOrder`; a shutdown returns, and a closed stream is drained and
  flushed unless the sink died (`ShutdownReturns`).
- *daemon*: each line is answered once (`AnsweredOnce`) and eventually
  (`EveryLineAnswered`); no number is lost or reused (`SeqsAccounted`); no
  decision for an older revision after a newer one (`DecisionsNeverRegress`); a
  decision fits the registry its perceive was begun with (`DecisionsFitSnapshot`).
- *state_store*: a reader finds nothing or a value the whole store once had
  (`ReadersSeeAPastStore`); a mutation that runs alone leaves the file equal to
  the store whatever happened before (`LoneMutationSettlesFile`).
- *plugins*: a plugin is up only while those before it are (`PhasesInOrder`); no
  plugin is dropped while up, and a failed operation leaves none up
  (`ReplacedAreDown`); the published set names what the lifecycle drives and
  routes a capability to a plugin that declares it (`PublishedIsDriven`).
- *tui*: what a write that nothing overlapped replaces is in a snapshot
  (`OverwrittenIsRecoverable`); undo writes something the file's directory once
  held, of the latest second (`UndoGoesBack`); before the first Ctrl-C a message
  shows its own run only (`TranscriptIsFaithful`); beside the run shown only
  cancelled ones are alive (`LiveRunsAreCurrentOrCancelled`); the UI does not stay
  busy unless the task of the run it shows died (`BusyEnds`).
- *cli*: a rolling history is the recent end of the conversation without holes
  (`HistoryIsRecentSuffix`); a process replays its own turns even if the file did
  not take them (`OwnTurnsRemembered`); as long as no append was cut inside a
  character, a reply the user has seen is read back after a restart, save for at
  most two turns per damaged append (`ShownTurnsSurvive`).
- *gateway*: effects are those that a manifest of the acting agent declared when its
  file was read, under the origin it declared, whichever file a delegation reached
  and whatever was edited since (`EffectsAreDeclared`); a stream is its tokens in order and
  then the report of as many (`StreamTellsTheReport`); a prompt is the
  conversation, each turn once, and the calls with their results
  (`PromptIsTheConversation`); a budget is overrun
  by at most one answer per concurrent request (`BudgetOverrunIsBounded`);
  `EveryRequestEnds`.
- *skill*: a run that no other call disturbed finds its skill and a whole library
  (`UndisturbedRunsStart`); a call ends, unless the child is blocked on a full
  stdout that the runner no longer reads, never ends, or leaves a process that keeps
  its pipes open (`CallsEndUnlessTheSkillHolds`): the protocol itself adds no other
  way to hang.

### Bounds

`MaxRev`, `MaxSent`, `MaxIntents`, `MaxToolSteps` bound RunSpan. Supersession
and buffering need two ids, two revisions and three goals (current, buffered,
overwriting); the step limit needs two steps. In Pipeline two calls give both
independent and nested dispatches; the theorems cover any number. `MaxEvents` =
4 with three emitters lets each be overtaken and one emit twice. `MaxIn` = 4
lines fit instantiate, two perceives and one line that disturbs them (register,
release, shutdown). StateStore needs no bound beyond its sets; a third caller is
needed to come after a race of two. `MaxRules` and `MaxLinks` = 2 show one rule
shadowing another and one link following another.

`MaxLoads` = 3 reloads allow a failed one between two that work. In TuiSession
two runs are what a Ctrl-C leaves alive beside a new one; `MaxClock` and
`TicksPerSecond` give two snapshots in one second and one in the next;
`MaxLines` and `MaxWrites` bound the keys and the files of a run. In CliSession
`MaxTurns` = 4 with a `Window` of 1 trims several times, and `MaxFaults` = 2 lets
one damaged append meet another. In the gateway `MaxSteps`, `MaxRetries` and
`MaxDelegationDepth` stand for the code's larger limits (8, 3 and 3): with 2, 1
and 1 each limit is reached and exceeded. The one edit takes grants back between
the start and a call; the proofs allow any edits. `Pipe` = 1 and scripts of up to six
steps fill both pipes; `MaxCalls` = 4 fits a create, two runs and a disturbance.

### Fairness

RunSpan: the task that runs the span is polled while it can move and the
provider and evaluator answer; nothing is assumed of the senders. EventStream:
threads are scheduled (`Send`, the consumer, the join); nobody is obliged to emit
or shut down, and the time-out needs no fairness because it may or may not fire.
DaemonSession: minds answer, tasks are polled and tokio's mutex, a FIFO queue,
lets every writer in. TuiSession: the UI's loop and the runs are polled, file
calls return and a mind that does not panic comes to an end; of the user nothing is
assumed, nor that a task dies.
Gateway: the task of a request goes on while it can, the HTTP exchange with
a model ends (reads time out; the async client's TLS handshake and write do not,
and count on the peer), and the capability calls of a span return: `cap.shell` has
no timeout and a skill may hang, and a request that waits for one does not end.
SkillRun: callers and children are scheduled and an invoke returns; that a skill
terminates is not assumed, because the runner has no timeout. These are what the tokio and OS schedulers
give to code that awaits or blocks only on the operations named; a provider that
hangs is outside of them.

`CHECK_DEADLOCK FALSE` stands where the system may stop: an ended span, settled
calls, a closed stream or connection, a finished policy, a UI that was left, a
request that was answered, calls that are used up.

## 4. Theorems

All theorems hold for every value of the constants under the named assumptions
of the module that declares them: bounds are naturals, model values are distinct
from the data, and inputs are of the types that the code parses them into
(`SpanConstants`, `PipelineConstants`, `PolicyConstants`, `WorkspaceConstants`,
`SkillConstants`, `CliConstants`, `GatewayConstants`, ...). `GatewayConstants`
also asks that there are finitely many clients and that `Costs`, the usage a
response may report, has a greatest element, as the `u64` it is read as does. Each
specification has its type invariant as a theorem.

- **RunSpanProofs**: `SpanInv` joins the types, `RunsAccounted` and
  `NewerNeverBuffered` with four parts: `LiveInv` (where the span stands and
  whether it has ended), `BudgetInv` (decisions adopted against the step count),
  `StaleInv` and `LateInv`. The bound on stale decisions is not inductive alone:
  one has to know that after a stale decision the newer revision is still queued
  and that the select has not got past its first arm since. `SpanTypeCorrect`,
  `StaleDecisionBound`, `VetoBound`, `RunAccounting`, `NewerStaysVisible`,
  `DecisionBudgetHolds`, `SpanImplementsContract`.
- **PipelineProofs**, pipeline: `PipeInv` ties the stage of a call to its trail,
  its hook counters and the stage of its parent. `PipeTypeCorrect`, `GovernedOnly`,
  `NestedCallsInside`, `NestingStops`, `TrailIsTruthful`, and
  `PipelineKeepsPromise`, the refinement of GovernedEffect.
- **PipelineProofs**, governors: what a policy allows is a function of its tables,
  so the types are invariant enough. `OnlyGrantedIsAllowed` goes from the chain's
  verdict to each link and from a wrapper to what it wraps. For
  `RulesAndLinksOnlyNarrow` the new rule either is the first to speak on a request,
  which can then only be refused by it, or leaves the one that was first; that
  there is a first one is the least-number principle.
- **PipelineProofs**, globs: `GlobsMatchAsDocumented` compares the matcher with the
  meaning that its comment gives a glob, without an assumption on the globs. Both are recursive functions on the
  positions of a glob, so the induction needed is one over numbers:
  `DownwardRecursion` shows that such a function exists, since its value at `n` is
  determined by those behind `n`, and `MatchTable` and `MeaningTable` that each
  therefore satisfies its equation; `MatchesWhatItDenotes` then compares the two
  from the end of the glob backwards, with `Cut`, which splits a text that is a
  concatenation where its first part ends. `Paths` may be every text; that it is
  closed under taking parts (`PolicyConstants`) is what the meaning of a `**` needs.
  What the matcher finds of a glob's meaning (`NothingMissed`) and beyond it
  (`NothingLoose`) are two claims, because code and comment part; that they part is
  three theorems: `StarBeforeSlashMatchesNothing`, `SlashBehindStarsIsSkipped` and
  `StarCrossesSlash` (section 5).
- **EventStreamProofs**: `StreamInv` accounts for every number: below the
  counter it is sent, in hand, or dropped on a dead consumer; the numbers of one
  emitter rise and its held number is above those it sent.
  `StreamTypeCorrect`, `GapsClose`, `EmitterOrderKept`, `FlushSeesAll`.
- **DaemonSessionProofs**: `SessionInv` says for every line whether it waits, is
  in flight or is answered, which numbers are issued, and that the ledger of a
  goal is at least every revision decided so far. `SessionTypeCorrect`,
  `RepliesOnce`, `SeqsAreAccounted`, `NoRegress`, `SnapshotRespected`.
- **CapabilityProofs**, state: `StoreInv` says that every clone in flight is a past
  store and that a lone caller holds the store as its clone and the file as it
  found it or empty. `StoreTypeCorrect`, `NoBlendedStore`,
  `LoneMutationRepairs`, `LoneCrashBound`.
- **CapabilityProofs**, skills: `RunsAreReady` follows an undisturbed run from its
  check to the start of its child: the file it checked is there from the check on,
  and the library is whole from its own write on. It also needs to know that a
  child belongs to a run that is past its spawn, or else a later call of the same
  caller could be blamed for it. `SkillTypes`, `UndisturbedStarts`.
- **TuiSessionProofs**, files and snapshots: `SafeInv` says that clock readings are
  used once, so that a snapshot being filled is nobody else's; that a call which is
  alone on its path overwrites what it has read; and that it has a complete snapshot
  of it when it truncates the file. `PastInv` follows contents from files to
  snapshots and back. `WorkspaceTypeCorrect`, `OverwrittenStaysRecoverable`,
  `UndoOnlyGoesBack`, for any writers, paths and sharing of directories, with
  failures and crashes.
- **TuiSessionProofs**, UI: `SessionUsesWorkspace` shows that the UI and its runs
  implement Workspace, so that `SessionLosesNothing` and `SessionUndoGoesBack`
  follow. `RunInv` (an uncancelled live run is the one the UI is running) gives
  `LiveRunsAreAccounted`; `FaithInv` (its message is the last one, unless the
  transcript was cleared, and no /undo is under way) gives
  `TranscriptStaysFaithful`.
- **PluginsProofs**: `LifeInv` says how far each phase has got: provision has the
  plugins before it up, cleanup has those behind it down. `LifecycleKeepsOrder`,
  `ReloadLeaksNothing`. `PublishInv` adds that set and lifecycle come from one
  discovery and that no step changes the identity of a plugin; ids are compared
  before the first plugin is provisioned, and plugins run only after that. The index of a set holds
  the last plugin that declares a capability, which exists by the least-number
  principle. `PublishedSetIsTrue`. That discovery yields a sequence of files is an
  assumption (`DiskAssumption`), because `Files` is recursive on the directories.
- **FrontEndProofs**, gateway: `GatewayInv` joins the types with `Nested` and
  `CountedOnce`. `Nested` says that the spans below the top one wait in a call, that
  a span is no deeper than its origin is long, so that the delegation limit bounds
  the stack, and that a span with the provider of an agent of the pool is one of
  that agent. `GatewayTypes`, `EffectsStayDeclared`, for any edits of the files.
  For `BudgetStaysBounded` the
  bound is strengthened to count what is in flight: tokens used plus the greatest
  cost for every call on the provider (`BudgetInv`); a call starts only below the
  budget, and when it reports it stops being in flight. For `StreamIsTheReport`,
  `StreamInv` says of each stage of a request what is sent and what waits: the
  tokens sent are numbered from one, those that wait go on from there, and together
  they are what the span has said. `PromptStaysTheConversation` rests on lemmas about
  filters: `Ranks` (every position of a set has a rank in it and every rank a
  position), `Filtered` (a filter keeps all of its roles and nothing else) and
  `LastFiltered` (the last user turn is the last turn, when that is a user's), so
  that the turn taken off the history is the one sent again after it.
- **FrontEndProofs**, command line: `AllRemember` says that a rolling history is the
  end of the conversation, that a cache ends with the process's own turns up to the
  window, and that the context in hand was made of the one or the other.
  `HistoryStaysRecent`, `OwnTurnsStayRemembered`. `ShownTurnsKeepSurviving` counts
  two turns for each damaged append against what is lost: `LossIsPaid` counts the
  turns that are shown or about to be and cannot be read while the file is a text,
  and, when nobody is between the two writes of an append, what the next line would
  cost (`Weight`): two turns when the file ends in a whole line without its newline, one when it ends in
  a part. `CliTypes`.

Only model-checked: all liveness (the prover has no support for fairness or
ENABLED), and `AcknowledgedSurvives`, which the code violates. Every invariant,
action property and refinement of a passing run is a theorem.

## 5. Where code and documentation disagree

With a run that shows it: `state.rs:4-5` says stored values survive a restart;
racing calls write the file in the wrong order (`state_store_durable`).

With theorems: `pipeline.rs:333-334` says `*` stands for any characters except `/` and
`**` for any characters, and nothing of a slash behind a `**`.

- `*/x` matches nothing (`StarBeforeSlashMatchesNothing`): the `continue` at 362 makes
  the `break` at 368 unreachable, and a star goes on only where no slash follows.
- `*` runs past slashes, so that `*b` matches `/b` and `a/b` (`StarCrossesSlash`).
- `**/b` matches `ab` (`SlashBehindStarsIsSkipped`): lines 348-353 step over the slash
  behind a `**`, which then matches without one and without a boundary.

A rule with the first kind of glob speaks of nothing, one with the others of more
paths than it says. `fs.rs` has a copy of the matcher.

Met while modelling, without a run or a theorem of its own:

- *Loop.* `loop_engine.rs:201` buffers a goal "for next_goal"; the buffer has one
  place, a second goal overwrites the first (202), and a supersession empties it
  (197). A decision that loses the tie against a newer revision is enacted
  (`loop_engine.rs:10-12`, bounded by `AtMostOneStaleDecision`).
  `Conclude(Continue)` ends the span although `schema.rs:216` says otherwise.
- *Pipeline and governors.* An aborting hook leaves `govern`/Ok as the last trail
  entry (`pipeline.rs:716-724`). `pipeline.rs:497-499` says an origin without a
  host list is denied all of `cap.http.*`, which holds only once some origin has
  a list.
- *Events.* `events.rs:9-10` and `81` say a sink consumes in `seq` order; the
  number is drawn with `fetch_add` and sent in a second step, so that two
  emitters can swap.
- *Daemon.* `session.rs:296-297` says `seq` is monotonically increasing on the
  wire; it is drawn under one lock and written under another. `session.rs:32` and
  `651-652` promise that the ack of shutdown is the end; perceive tasks still
  write. A message of unknown type is answered with `bad_frame`, not
  `unknown_type` (`server.rs:180-189`); a second connection does not drop the
  first (`pan-daemon/src/lib.rs:22`).
- *Capabilities.* `cap.state.list` and `namespaces` refuse calls without `key`,
  and `cap.fs.glob` calls without `path`, although their schemas do not ask for
  them. `a/b` and `a_b` share a snapshot directory (`snapshot.rs:88-93`), snapshots
  of one second have no order although `fs.rs:206` says "most recent", and a
  restore saves nothing that a further undo could bring back.
- *Plugins.* A failed `PluginManager::reload` leaves `reloading` set, so that each
  later one is refused; `health` reports the plugins of the published set alive
  after such a failure ("A degraded plugin would not be in the set",
  `plugind.rs:515`); `registry.rs:190` says a failed start cleans up the plugins
  provisioned so far, it cleans up all; `WasmPlugin` ignores the status that a
  plugin's exports return.
- *Terminal UI.* Ctrl-C sends a veto that no run looks at (`NO_VETO`,
  `lib.rs:359`; `lib.rs:205` and `494` say the run is aborted), so a cancelled run
  goes on writing beside the next; after a Ctrl-C a late report may be shown
  under another run's message; `/quit` does nothing. If a run's task panics, its
  report's channel yields None on every turn of the loop (`lib.rs:98-103`), `running`
  stays set and only Ctrl-C lets the user enter another line.
- *Sessions.* `writeln!` is two writes and a failed append is ignored. A line cut
  inside a character (a crash, a full disk; `serde_json` writes text that is not
  ASCII as it is) makes the file invalid UTF-8: `read_to_string` fails and
  the history is empty (`session.rs:94-97`), although an unparsable line costs only
  itself (98-100) and `session.rs:15-16` says that conversations survive restarts.
  `context.session` and `context.memory_retrieval` cannot be configured from an
  Agent.toml, because the assembler builds context assemblers without settings
  (`assembler.rs:99`, `156`; `docs/USER-GUIDE.md` shows it).
- *Gateway and delegation.* A delegated child is assembled without the global
  config (`handlers.rs:321`) and by file name, while the pool is keyed by
  `meta.name`. Its name is joined to the directory unchecked (`agent.rs:38-41`,
  `handlers.rs:315`), so that `../x` or an absolute path leads elsewhere, and its
  file is read at the call, when it may have changed since the pool was made: a
  child need not be an agent that the pool serves. An empty setting of the global
  config makes an agent of the pool fail to build where its child builds, because
  the LLM factories refuse it (`pan-llm/src/lib.rs:81-88`) and take no value of the
  environment for it. The child is denied everything unless its own label is the delegated
  origin, and has a token budget of its own. Only `requests` of the metrics is
  ever counted.
- *LLM clients.* The budget is read before and charged after a request; a response
  without choices concludes as achieved (`openai.rs:279-328`); tool outputs and
  error bodies are cut at byte offsets, which panics inside a character
  (`openai.rs:222`, `anthropic.rs:176`, `http.rs:177`); `provider.anthropic` blocks
  its thread (`anthropic.rs:62`).
- *Skills.* `runner.rs:75` says the library is materialized once; every run
  rewrites it in place. The runner waits for the child's exit without reading its
  stdout (`runner.rs:201-202`), and without a timeout: a skill that loops hangs the
  call at its next line (150) or at its exit (202), and a process of the skill's
  that keeps stderr open hangs it at 203.

## 6. Not modelled

- The bytes of HTTP, TLS, TOML and JSON; the text of bodies and messages; drawing.
- The calls of `cap.http`, `cap.shell`, `cap.lsp`, `cap.time`, `cap.format` into
  the outside world; `pan-daemon/llm.rs` and `conformance.rs`; `sandbox.rs`, which
  builds an argument list.
- In RunSpan the compactor, the evaluator's wording, token streaming and the stall
  detector (nothing but tests sets one); a panic in a provider, hook or executor.
- In DaemonSession the shape errors that an Envelope cannot have once parsed; a
  panic in a mind.
- Reads that change nothing: `get`, `list`, `namespaces` of `cap.state`, the reading
  operations of `cap.fs`, `cap.skill.list`, the gateway's `GET` routes.
- A gateway and a UI on the same files: the modules compose within one front end.

## 7. Plan

Done: RunSpan, Pipeline, EventStream, DaemonSession, StateStore, Governors,
Plugins, Workspace, TuiSession, CliSession, AgentAssembly, LlmClient, Gateway,
SkillRun, and the theorems of section 4. Next: a theorem about the attempts of a call
in LlmClient, and the claims of section 5 again once the code has changed.
