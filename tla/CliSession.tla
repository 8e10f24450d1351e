----------------------------- MODULE CliSession -----------------------------
(* The command line's conversation (pan-cli/src/lib.rs) with the context     *)
(* assemblers of pan-agent (context.rs, session.rs): each line typed becomes *)
(* a turn that is assembled, run, committed and shown.  Several processes    *)
(* may have the same session file; each append is two writes, the line and   *)
(* its newline, and a process may die or a write may fail at any point.      *)
EXTENDS Integers, Sequences, FiniteSets, Functions, Selection

CONSTANTS
    Terminals,  \* the processes
    Replies,    \* what a span may express: sequences of {"text", "blank"}
    Window,     \* max_turns
    MaxTurns,   \* bound on the turns taken by all processes
    MaxFaults   \* bound on crashes and failed writes

ASSUME CliConstants ==
    /\ Window \in Nat /\ MaxTurns \in Nat /\ MaxFaults \in Nat
    /\ Replies \subseteq Seq({"text", "blank"})

VARIABLES
    kind,       \* per terminal: the context assembler it was configured with
    pc,         \* per terminal: where run_session is
    turn,       \* per terminal: the turn in hand
    context,    \* per terminal: the history channel given to the provider
    history,    \* per terminal: RollingConversationHistory.history
    cache,      \* per terminal: SessionStore.cached
    file,       \* the session file, as the pieces written to it
    turns,      \* turns taken so far, by all processes
    faults,     \* crashes and failed writes so far
    conv,       \* history: per terminal, every entry of its conversation
    own,        \* history: per terminal, the turns this process committed
    shown,      \* history: turns of a session whose reply the user has seen
    broken      \* history: appends that failed, were cut short or overlapped

cliVars == <<kind, pc, turn, context, history, cache, file, turns, faults,
             conv, own, shown, broken>>

Kinds == {"none", "rolling", "session"}

\* The pieces of the file: a whole line's text, a newline, and part of a line's
\* text, cut between two characters or inside one (serde_json writes a text that
\* is not ASCII as it is).
Line(u) == [piece |-> "line", turn |-> u]
Newline == [piece |-> "newline"]
Partial == [piece |-> "partial"]
Torn == [piece |-> "torn"]
Parts == {Partial, Torn}

NoTurn == 0

LastN(s, n) == SubSeq(s, Len(s) - (IF n < Len(s) THEN n ELSE Len(s)) + 1, Len(s))

-----------------------------------------------------------------------------
(* SessionStore.  A line parses if it is one whole line's text.  But a file  *)
(* with a character cut in two is no text, and read_to_string's error makes  *)
(* an empty history of it.                                                   *)

\* The pieces of a file that are whole lines, and the turns of those lines.
Wholes(f) ==
    {i \in DOMAIN f : /\ f[i].piece = "line"
                      /\ i = 1 \/ f[i - 1] = Newline
                      /\ i = Len(f) \/ f[i + 1] = Newline}

IsText(f) == Torn \notin Range(f)

ReadFile(f) ==
    LET lines == Picked(f, Wholes(f))
    IN  IF IsText(f) THEN [k \in DOMAIN lines |-> lines[k].turn] ELSE <<>>

\* turns: the last max_turns of the cache.
CachedTurns(t) == LastN(cache[t], Window)

-----------------------------------------------------------------------------
(* A process starts: the rolling history is empty, the session store loads   *)
(* its file.                                                                 *)

CliInit ==
    /\ kind \in [Terminals -> Kinds]
    /\ pc = [t \in Terminals |-> "prompt"]
    /\ turn = [t \in Terminals |-> NoTurn]
    /\ context = [t \in Terminals |-> <<>>]
    /\ history = [t \in Terminals |-> <<>>]
    /\ cache = [t \in Terminals |-> <<>>]
    /\ file = <<>> /\ turns = 0 /\ faults = 0
    /\ conv = [t \in Terminals |-> <<>>] /\ own = [t \in Terminals |-> <<>>]
    /\ shown = {} /\ broken = 0

Restart(t) ==
    /\ pc[t] = "down"
    /\ pc' = [pc EXCEPT ![t] = "prompt"]
    /\ turn' = [turn EXCEPT ![t] = NoTurn]
    /\ context' = [context EXCEPT ![t] = <<>>]
    /\ history' = [history EXCEPT ![t] = <<>>]
    /\ cache' = [cache EXCEPT ![t] = IF kind[t] = "session" THEN ReadFile(file) ELSE <<>>]
    /\ conv' = [conv EXCEPT ![t] = <<>>] /\ own' = [own EXCEPT ![t] = <<>>]
    /\ UNCHANGED <<kind, file, turns, faults, shown, broken>>

-----------------------------------------------------------------------------
Entry(n, role) == [turn |-> n, role |-> role]

\* The session assembler replays each turn as one user and one assistant
\* message; the rolling one replays its entries.
SessionReplay(t) ==
    [i \in 1 .. 2 * Len(CachedTurns(t)) |->
        Entry(CachedTurns(t)[(i + 1) \div 2], IF i % 2 = 1 THEN "user" ELSE "assistant")]

Assemble(t) ==
    CASE kind[t] = "rolling" -> history[t]
      [] kind[t] = "session" -> SessionReplay(t)
      [] OTHER -> <<>>

\* A line that is neither blank nor /quit: assemble the context and run.
ReadLine(t) ==
    /\ pc[t] = "prompt" /\ turns < MaxTurns
    /\ turns' = turns + 1
    /\ context' = [context EXCEPT ![t] = Assemble(t)]
    /\ turn' = [turn EXCEPT ![t] = turns + 1]
    /\ pc' = [pc EXCEPT ![t] = CASE kind[t] = "rolling" -> "push"
                                 [] kind[t] = "session" -> "line"
                                 [] OTHER -> "show"]
    /\ UNCHANGED <<kind, history, cache, file, faults, conv, own, shown, broken>>

\* /quit, /exit or the end of the input.
Quit(t) ==
    /\ pc[t] = "prompt"
    /\ pc' = [pc EXCEPT ![t] = "down"]
    /\ UNCHANGED <<kind, turn, context, history, cache, file, turns, faults, conv,
                   own, shown, broken>>

-----------------------------------------------------------------------------
(* commit.                                                                   *)

\* What a turn adds to the conversation: the line and the replies that are
\* not blank.
Said(n, reply) ==
    LET texts == {i \in DOMAIN reply : reply[i] # "blank"}
    IN  <<Entry(n, "user")>> \o [i \in 1 .. Cardinality(texts) |-> Entry(n, "assistant")]

\* Mutant: `if` for `while` when the history is trimmed.
PushHistoryTrimsOnce(t) ==
    /\ pc[t] = "push"
    /\ \E r \in Replies :
          LET h == history[t] \o Said(turn[t], r) IN
          /\ history' = [history EXCEPT ![t] = IF Len(h) > 2 * Window THEN Tail(h) ELSE h]
          /\ conv' = [conv EXCEPT ![t] = @ \o Said(turn[t], r)]
    /\ pc' = [pc EXCEPT ![t] = "show"]
    /\ UNCHANGED <<kind, turn, context, cache, file, turns, faults, own, shown, broken>>

\* RollingConversationHistory: push what was said, then drop from the front.
PushHistory(t) ==
    /\ pc[t] = "push"
    /\ \E r \in Replies :
          /\ history' = [history EXCEPT ![t] = LastN(@ \o Said(turn[t], r), 2 * Window)]
          /\ conv' = [conv EXCEPT ![t] = @ \o Said(turn[t], r)]
    /\ pc' = [pc EXCEPT ![t] = "show"]
    /\ UNCHANGED <<kind, turn, context, cache, file, turns, faults, own, shown, broken>>

Appending == {t \in Terminals : pc[t] = "newline"}

\* SessionStore::append, the first write of writeln!: the line.
WriteLine(t) ==
    /\ pc[t] = "line"
    /\ file' = Append(file, Line(turn[t]))
    /\ pc' = [pc EXCEPT ![t] = "newline"]
    /\ broken' = IF Appending # {} THEN broken + 1 ELSE broken
    /\ UNCHANGED <<kind, turn, context, history, cache, turns, faults, conv, own, shown>>

\* Mutant: write! for writeln!.
NoNewline(t) ==
    /\ pc[t] = "newline"
    /\ pc' = [pc EXCEPT ![t] = "cache"]
    /\ UNCHANGED <<kind, turn, context, history, cache, file, turns, faults, conv,
                   own, shown, broken>>

\* The second: the newline.
WriteNewline(t) ==
    /\ pc[t] = "newline"
    /\ file' = Append(file, Newline)
    /\ pc' = [pc EXCEPT ![t] = "cache"]
    /\ UNCHANGED <<kind, turn, context, history, cache, turns, faults, conv, own,
                   shown, broken>>

\* Mutant: a turn that could not be written is not cached.
WriteFailsUncached(t) ==
    /\ pc[t] \in {"line", "newline"} /\ faults < MaxFaults
    /\ faults' = faults + 1 /\ broken' = broken + 1
    /\ pc' = [pc EXCEPT ![t] = "show"]
    /\ \/ file' = file
       \/ pc[t] = "line" /\ \E p \in Parts : file' = Append(file, p)
    /\ own' = [own EXCEPT ![t] = Append(@, turn[t])]
    /\ UNCHANGED <<kind, turn, context, history, cache, turns, conv, shown>>

\* The file cannot be opened or written: the error is dropped and the turn is
\* cached all the same.
WriteFails(t) ==
    /\ pc[t] \in {"line", "newline"} /\ faults < MaxFaults
    /\ faults' = faults + 1 /\ broken' = broken + 1
    /\ pc' = [pc EXCEPT ![t] = "cache"]
    /\ \/ file' = file
       \/ pc[t] = "line" /\ \E p \in Parts : file' = Append(file, p)
    /\ UNCHANGED <<kind, turn, context, history, cache, turns, conv, own, shown>>

\* The cache takes the turn and keeps the last max_turns.
UpdateCache(t) ==
    /\ pc[t] = "cache"
    /\ cache' = [cache EXCEPT ![t] = LastN(Append(@, turn[t]), Window)]
    /\ own' = [own EXCEPT ![t] = Append(@, turn[t])]
    /\ pc' = [pc EXCEPT ![t] = "show"]
    /\ UNCHANGED <<kind, turn, context, history, file, turns, faults, conv, shown, broken>>

-----------------------------------------------------------------------------
\* The reply is written and flushed; the prompt is back.
Show(t) ==
    /\ pc[t] = "show"
    /\ shown' = IF kind[t] = "session" THEN shown \cup {turn[t]} ELSE shown
    /\ pc' = [pc EXCEPT ![t] = "prompt"]
    /\ turn' = [turn EXCEPT ![t] = NoTurn] /\ context' = [context EXCEPT ![t] = <<>>]
    /\ UNCHANGED <<kind, history, cache, file, turns, faults, conv, own, broken>>

\* Standard output is gone: run_session returns the error and the process ends.
ShowFails(t) ==
    /\ pc[t] = "show" /\ faults < MaxFaults
    /\ faults' = faults + 1
    /\ pc' = [pc EXCEPT ![t] = "down"]
    /\ UNCHANGED <<kind, turn, context, history, cache, file, turns, conv, own,
                   shown, broken>>

\* The process dies, perhaps with part of a line written.
Crash(t) ==
    /\ pc[t] # "down" /\ faults < MaxFaults
    /\ faults' = faults + 1
    /\ pc' = [pc EXCEPT ![t] = "down"]
    /\ \/ file' = file /\ broken' = IF pc[t] = "newline" THEN broken + 1 ELSE broken
       \/ /\ pc[t] = "line" /\ broken' = broken + 1
          /\ \E p \in Parts : file' = Append(file, p)
    /\ UNCHANGED <<kind, turn, context, history, cache, turns, conv, own, shown>>

CliStep(t) == ReadLine(t) \/ PushHistory(t) \/ WriteLine(t) \/ WriteNewline(t)
                \/ WriteFails(t) \/ UpdateCache(t) \/ Show(t) \/ ShowFails(t)

CliNext == \E t \in Terminals : CliStep(t) \/ Quit(t) \/ Crash(t) \/ Restart(t)

CliSpec == CliInit /\ [][CliNext]_cliVars

-----------------------------------------------------------------------------
Turn == 1 .. MaxTurns
Entries == {Entry(u, role) : u \in Turn, role \in {"user", "assistant"}}

\* Type invariant.
CliTypeOK ==
    /\ kind \in [Terminals -> Kinds]
    /\ pc \in [Terminals -> {"prompt", "push", "line", "newline", "cache", "show", "down"}]
    /\ turn \in [Terminals -> Turn \cup {NoTurn}]
    /\ \A t \in Terminals : turn[t] = NoTurn => pc[t] \in {"prompt", "down"}
    /\ {context, history, conv} \subseteq [Terminals -> Seq(Entries)]
    /\ {cache, own} \subseteq [Terminals -> Seq(Turn)]
    /\ file \in Seq({Line(u) : u \in Turn} \cup {Newline} \cup Parts)
    /\ turns \in 0 .. MaxTurns /\ faults \in 0 .. MaxFaults
    /\ shown \subseteq Turn /\ broken \in Nat

(* A rolling history replays the most recent part of the conversation, in    *)
(* order and without holes, at most two entries per configured turn, however *)
(* many messages the turns expressed (context.rs:36-59).                     *)
HistoryIsRecentSuffix ==
    \A t \in Terminals :
        kind[t] = "rolling" /\ pc[t] = "push" => context[t] = LastN(conv[t], 2 * Window)

(* A process replays its own turns even when the file did not take them: the *)
(* context of a turn ends with the process's last turns, each as a user and  *)
(* an assistant message (session.rs:61-91, context.rs:182-199).              *)
OwnTurnsRemembered ==
    \A t \in Terminals :
        LET mine == LastN(own[t], Window)
        IN  pc[t] = "line" =>
               LastN(context[t], 2 * Len(mine)) =
                  [i \in 1 .. 2 * Len(mine) |->
                      Entry(mine[(i + 1) \div 2], IF i % 2 = 1 THEN "user" ELSE "assistant")]

(* "Conversations survive restarts" (session.rs:15-16): as long as no append *)
(* was cut inside a character, a reply the user has seen is read back from   *)
(* the file, save what damaged appends cost.  One that fails, is cut short   *)
(* by a crash or overlaps another process's loses at most its own turn and   *)
(* one other.  A character cut in two costs all of them (session.rs:94-97).  *)
ShownTurnsSurvive ==
    IsText(file) => Cardinality(shown \ Range(ReadFile(file))) <= 2 * broken
=============================================================================
