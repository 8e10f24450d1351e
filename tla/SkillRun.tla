------------------------------ MODULE SkillRun ------------------------------
(* cap.skill (pan-cap/src/skill.rs) and the subprocess bridge that runs a    *)
(* skill (pan-skill/src/runner.rs, protocol.rs, pan.py).  Concurrent callers *)
(* share the skill directory and the library directory; each run has a child *)
(* process and two pipes of bounded capacity.  What an invoke does is module *)
(* Pipeline's; here it returns.  Python and the skill's own code are         *)
(* external.                                                                 *)
EXTENDS Naturals, Sequences, FiniteSets

CONSTANTS
    SkillCallers, \* calls of cap.skill that may be in progress
    Names,      \* skill file names that pass the jail
    Scripts,    \* the sources: sequences of what a skill does, in order
    Pipe,       \* the lines a pipe holds
    MaxCalls    \* bound on the calls made

\* What a step of a skill may be: it writes a line to stdout, waits for the
\* result of its last call, starts a process of its own that inherits the pipes
\* and stays, or never ends.
Writes == {"invoke", "return", "blank", "print"}
Actions == Writes \cup {"await", "fork", "hang"}

Absent == <<"absent">>
Truncated == <<>>       \* an empty file is also an empty program

ASSUME SkillConstants ==
    /\ Pipe \in Nat \ {0} /\ MaxCalls \in Nat
    /\ Scripts \subseteq Seq(Actions) \ {Absent}

VARIABLES
    skill,      \* the skill directory: the source in each file
    lib,        \* pan.py in the library directory
    run,        \* per caller: the call in progress
    child,      \* per caller: its subprocess
    out, inp,   \* per caller: the child's stdout and stdin pipes
    calls,      \* calls made so far
    disturbed   \* history: runs whose library or skill another call took away

files == <<skill, lib>>
pipes == <<out, inp>>
skillVars == <<skill, lib, run, child, out, inp, calls, disturbed>>

NoRun == [at |-> "idle"]
NoChild == [at |-> "none"]

SkillInit ==
    /\ skill = [n \in Names |-> Absent] /\ lib = "absent"
    /\ run = [c \in SkillCallers |-> NoRun] /\ child = [c \in SkillCallers |-> NoChild]
    /\ out = [c \in SkillCallers |-> <<>>] /\ inp = [c \in SkillCallers |-> <<>>]
    /\ calls = 0 /\ disturbed = {}

Goto(c, r) == run' = [run EXCEPT ![c] = r]
Running(c) == run[c].at \notin {"idle", "truncate", "write"}

-----------------------------------------------------------------------------
(* The skill files.                                                          *)

Begin(c, r) ==
    /\ run[c] = NoRun /\ calls < MaxCalls
    /\ Goto(c, r) /\ calls' = calls + 1 /\ disturbed' = disturbed \ {c}
    /\ UNCHANGED <<files, child, pipes>>

\* create wants the file not to exist, edit wants it to; both then write it.
Create(c, n, s) ==
    /\ skill[n] = Absent
    /\ Begin(c, [at |-> "truncate", name |-> n, source |-> s])

Edit(c, n, s) ==
    /\ skill[n] # Absent
    /\ Begin(c, [at |-> "truncate", name |-> n, source |-> s])

\* fs::write truncates, then writes.
Truncate(c) ==
    /\ run[c].at = "truncate"
    /\ skill' = [skill EXCEPT ![run[c].name] = Truncated]
    /\ Goto(c, [run[c] EXCEPT !.at = "write"])
    /\ UNCHANGED <<lib, child, pipes, calls, disturbed>>

Write(c) ==
    /\ run[c].at = "write"
    /\ skill' = [skill EXCEPT ![run[c].name] =
                    IF @ = Absent THEN Absent ELSE run[c].source]   \* unlinked meanwhile
    /\ Goto(c, NoRun)
    /\ UNCHANGED <<lib, child, pipes, calls, disturbed>>

DeleteSkill(c, n) ==
    /\ skill[n] # Absent /\ run[c] = NoRun /\ calls < MaxCalls
    /\ skill' = [skill EXCEPT ![n] = Absent] /\ calls' = calls + 1
    /\ disturbed' = disturbed \cup {d \in SkillCallers : Running(d)}
    /\ UNCHANGED <<lib, run, child, pipes>>

-----------------------------------------------------------------------------
(* Starting a run: every one writes pan.py again.                            *)

\* Mutant: the run trusts that the library is there.
RunSkillUnprepared(c, n) ==
    skill[n] # Absent /\ Begin(c, [at |-> "spawn", name |-> n])

RunSkill(c, n) == skill[n] # Absent /\ Begin(c, [at |-> "lib", name |-> n])

LibTruncate(c) ==
    /\ run[c].at = "lib"
    /\ lib' = "empty" /\ Goto(c, [run[c] EXCEPT !.at = "libwrite"])
    /\ disturbed' = disturbed \cup {d \in SkillCallers \ {c} : Running(d)}
    /\ UNCHANGED <<skill, child, pipes, calls>>

LibWrite(c) ==
    /\ run[c].at = "libwrite"
    /\ lib' = "whole" /\ Goto(c, [run[c] EXCEPT !.at = "spawn"])
    /\ UNCHANGED <<skill, child, pipes, calls, disturbed>>

Spawn(c) ==
    /\ run[c].at = "spawn"
    /\ Goto(c, [at |-> "read"])
    /\ child' = [child EXCEPT ![c] = [at |-> "start", name |-> run[c].name]]
    /\ UNCHANGED <<files, pipes, calls, disturbed>>

\* A directory, a file or the interpreter is not to be had: the call answers
\* with the error, and a truncated file stays truncated.
IoFails(c) ==
    /\ run[c].at \in {"truncate", "write", "lib", "libwrite", "spawn"}
    /\ Goto(c, NoRun)
    /\ UNCHANGED <<files, child, pipes, calls, disturbed>>

-----------------------------------------------------------------------------
(* The child.  It runs the source it finds, and fails if the file is gone or *)
(* the library is not whole when it is imported.  A step "hang" is never     *)
(* taken: no timeout ends it (SkillRunner::run).                             *)

\* left: a process of the skill's own keeps stdout and stderr open.
Exited(why, left) == [at |-> "exited", why |-> why, left |-> left]

ChildStart(c) ==
    /\ child[c].at = "start"
    /\ LET source == skill[child[c].name] IN
       child' = [child EXCEPT ![c] =
          CASE source = Absent -> Exited("missing", FALSE)
            [] source # Absent /\ source # <<>> /\ lib # "whole" -> Exited("import", FALSE)
            [] OTHER -> [at |-> "up", todo |-> source, sent |-> 0, left |-> FALSE]]
    /\ UNCHANGED <<files, run, pipes, calls, disturbed>>

Todo(c) == IF child[c].todo = <<>> THEN "exit" ELSE Head(child[c].todo)

\* A step that writes a line to stdout waits while the pipe is full.
ChildWrite(c) ==
    /\ child[c].at = "up" /\ Todo(c) \in Writes /\ Len(out[c]) < Pipe
    /\ LET id == child[c].sent + (IF Todo(c) = "invoke" THEN 1 ELSE 0) IN
       /\ out' = [out EXCEPT ![c] = Append(@, [type |-> Todo(c), id |-> id])]
       /\ child' = [child EXCEPT ![c].todo = Tail(@), ![c].sent = id]
    /\ UNCHANGED <<files, run, inp, calls, disturbed>>

\* Mutant: stdin is still held while the child is waited for.
StdinHeld(c) == FALSE

\* run drops stdin when its loop is over.
StdinClosed(c) == run[c].at = "reap"

\* A step that waits for a result takes the next line of stdin.  An answer to
\* another call than the last one raises, like the end of stdin, and so does the
\* answer that the call was denied or failed.
ChildRead(c) ==
    /\ child[c].at = "up" /\ Todo(c) = "await"
    /\ \/ /\ inp[c] # <<>> /\ inp' = [inp EXCEPT ![c] = Tail(@)]
          /\ \/ /\ Head(inp[c]) = child[c].sent
                /\ child' = [child EXCEPT ![c].todo = Tail(@)]
             \/ child' = [child EXCEPT ![c] = Exited("raised", @.left)]
       \/ /\ inp[c] = <<>> /\ StdinClosed(c)
          /\ child' = [child EXCEPT ![c] = Exited("eof", @.left)]
          /\ UNCHANGED inp
    /\ UNCHANGED <<files, run, out, calls, disturbed>>

ChildFork(c) ==
    /\ child[c].at = "up" /\ Todo(c) = "fork"
    /\ child' = [child EXCEPT ![c].todo = Tail(@), ![c].left = TRUE]
    /\ UNCHANGED <<files, run, pipes, calls, disturbed>>

ChildExit(c) ==
    /\ child[c].at = "up" /\ Todo(c) = "exit"
    /\ child' = [child EXCEPT ![c] = Exited("done", @.left)]
    /\ UNCHANGED <<files, run, pipes, calls, disturbed>>

-----------------------------------------------------------------------------
(* The runner.                                                               *)

\* A line is an invoke, a return, blank, or no message at all.
ReadLine(c) ==
    /\ run[c].at = "read" /\ out[c] # <<>>
    /\ LET line == Head(out[c]) IN
       Goto(c, CASE line.type = "invoke" -> [at |-> "invoke", id |-> line.id]
                 [] line.type = "return" -> [at |-> "reap", result |-> "value"]
                 [] line.type = "blank" -> [at |-> "read"]
                 [] line.type = "print" -> [at |-> "reap", result |-> "Protocol"])
    /\ out' = [out EXCEPT ![c] = Tail(@)]
    /\ UNCHANGED <<files, child, inp, calls, disturbed>>

Closed(c) == child[c].at = "exited" /\ ~child[c].left

ReadEof(c) ==
    /\ run[c].at = "read" /\ out[c] = <<>> /\ Closed(c)
    /\ Goto(c, [at |-> "reap", result |-> "NoReturn"])
    /\ UNCHANGED <<files, child, pipes, calls, disturbed>>

\* invoker.invoke returns, with a value or with one of the error kinds.
Invoked(c) ==
    /\ run[c].at = "invoke"
    /\ Goto(c, [run[c] EXCEPT !.at = "reply"])
    /\ UNCHANGED <<files, child, pipes, calls, disturbed>>

\* The result line goes to stdin, which waits while the pipe is full and fails
\* once the child is gone.
Reply(c) ==
    /\ run[c].at = "reply"
    /\ \/ /\ child[c].at # "exited" /\ Len(inp[c]) < Pipe
          /\ inp' = [inp EXCEPT ![c] = Append(@, run[c].id)]
          /\ Goto(c, [at |-> "read"])
       \/ /\ child[c].at = "exited"
          /\ Goto(c, [at |-> "reap", result |-> "Io"])
          /\ UNCHANGED inp
    /\ UNCHANGED <<files, child, out, calls, disturbed>>

Gone(c) ==
    /\ Goto(c, NoRun) /\ child' = [child EXCEPT ![c] = NoChild]
    /\ out' = [out EXCEPT ![c] = <<>>] /\ inp' = [inp EXCEPT ![c] = <<>>]
    /\ UNCHANGED <<files, calls, disturbed>>

\* The end of run: the child is waited for and its stderr read to the end.
Reap(c) == run[c].at = "reap" /\ Closed(c) /\ Gone(c)

\* The caller's future is dropped at an await: kill_on_drop ends the child.
DropRun(c) == run[c].at \in {"read", "invoke", "reply", "reap"} /\ Gone(c)

-----------------------------------------------------------------------------
Step(c) ==
    \/ Truncate(c) \/ Write(c) \/ LibTruncate(c) \/ LibWrite(c) \/ Spawn(c) \/ IoFails(c)
    \/ ReadLine(c) \/ ReadEof(c) \/ Invoked(c) \/ Reply(c) \/ Reap(c)

ChildStep(c) ==
    ChildStart(c) \/ ChildWrite(c) \/ ChildRead(c) \/ ChildFork(c) \/ ChildExit(c)

SkillNext ==
    \E c \in SkillCallers :
        \/ \E n \in Names, s \in Scripts : Create(c, n, s) \/ Edit(c, n, s)
        \/ \E n \in Names : DeleteSkill(c, n) \/ RunSkill(c, n)
        \/ Step(c) \/ ChildStep(c) \/ DropRun(c)

\* The calls in progress and the children are scheduled, an invoke returns, and
\* a child takes its next step unless that step is one that never ends.
Fairness == \A c \in SkillCallers : WF_skillVars(Step(c)) /\ WF_skillVars(ChildStep(c))

SkillSpec == SkillInit /\ [][SkillNext]_skillVars /\ Fairness

-----------------------------------------------------------------------------
\* What a call, a child and a line on a pipe may be.
Runs ==
    {NoRun} \cup [at: {"truncate", "write"}, name: Names, source: Scripts]
        \cup [at: {"lib", "libwrite", "spawn"}, name: Names] \cup [at: {"read"}]
        \cup [at: {"invoke", "reply"}, id: Nat]
        \cup [at: {"reap"}, result: {"value", "Protocol", "NoReturn", "Io"}]

Children ==
    {NoChild} \cup [at: {"start"}, name: Names] \cup [at: {"up"}, todo: Seq(Actions), sent: Nat, left: BOOLEAN]
        \cup [at: {"exited"}, why: {"missing", "import", "raised", "eof", "done"}, left: BOOLEAN]

Lines == [type: Writes, id: Nat]

\* Type invariant.
SkillTypeOK ==
    /\ skill \in [Names -> Scripts \cup {Absent, Truncated}]
    /\ lib \in {"absent", "empty", "whole"}
    /\ run \in [SkillCallers -> Runs] /\ child \in [SkillCallers -> Children]
    /\ out \in [SkillCallers -> Seq(Lines)] /\ inp \in [SkillCallers -> Seq(Nat)]
    /\ \A c \in SkillCallers : Len(out[c]) <= Pipe /\ Len(inp[c]) <= Pipe
    /\ calls \in 0..MaxCalls /\ disturbed \subseteq SkillCallers

\* A run that no other call disturbed finds its skill and a whole library: an
\* import failure, or a skill that is gone, takes another run that rewrites
\* pan.py in the shared directory, or a delete, between the check and the start
\* (SkillRunner::with_program, cap.skill.run).
UndisturbedRunsStart ==
    \A c \in SkillCallers :
        child[c].at = "exited" /\ child[c].why \in {"import", "missing"} => c \in disturbed

\* The runner waits for the child: for a line, for room in its stdin, or for its
\* exit and the end of its stderr.
RunnerWaits(c) ==
    \/ run[c].at = "read" /\ out[c] = <<>>
    \/ run[c].at = "reply" /\ child[c].at = "up" /\ Len(inp[c]) = Pipe
    \/ run[c].at = "reap"

\* The child waits for the runner: its stdout is full.
BlockedOnStdout(c) == child[c].at = "up" /\ Todo(c) \in Writes /\ Len(out[c]) = Pipe

\* The skill does not end, or a process it started outlives it.
SkillStays(c) ==
    \/ child[c].at = "up" /\ Todo(c) = "hang"
    \/ child[c].at = "exited" /\ child[c].left

\* A call ends, or the runner waits for one of three things: a child blocked on
\* a stdout that the runner has stopped reading, a skill that never ends, or a
\* process of the skill's that keeps its pipes open.  A child that waits for a
\* result is always answered or told the end of stdin, and nothing else holds a
\* call (SkillRunner::run: the loop, drop(stdin), child.wait(), stderr_task).
CallsEndUnlessTheSkillHolds ==
    \A c \in SkillCallers :
        run[c] # NoRun ~>
            (run[c] = NoRun \/ (RunnerWaits(c) /\ (BlockedOnStdout(c) \/ SkillStays(c))))
=============================================================================
