----------------------------- MODULE Workspace -----------------------------
(* cap.fs with a snapshot store (pan-cap/src/fs.rs, snapshot.rs): writes     *)
(* that save the old content first, and undo.  Writers (agent runs, the UI)  *)
(* share the files and take the steps of their calls in any interleaving;    *)
(* std::fs::write truncates, then writes; calls fail and the process dies    *)
(* between any two steps.                                                    *)
EXTENDS Naturals, FiniteSets

CONSTANTS
    Writers,        \* who calls cap.fs
    Paths,          \* paths inside the jail
    Values,         \* contents
    SnapDir,        \* snap_dir_for: path to the directory of its snapshots
    TicksPerSecond, \* clock readings to a second
    MaxClock,       \* bound on the clock
    Absent, Empty,  \* no file; a file that was truncated and not yet written
    Workspaces      \* the files and snapshots a session may start with

VARIABLES
    file,       \* what each path holds
    snaps,      \* the .snap files: directory, id (a clock reading), content
    clock,      \* SystemTime::now
    op,         \* per writer: the call in progress
    past,       \* history: contents the files of a snapshot directory have had
    lost,       \* history: contents that a lone write replaced and no snapshot has
    undone      \* history: which snapshot each undo took, and which it could see

wsVars == <<file, snaps, clock, op, past, lost, undone>>

Contents == Values \cup {Empty}
Dirs == {SnapDir[p] : p \in Paths}
Snap == [dir: Dirs, id: Nat, content: Contents]

ASSUME WorkspaceConstants ==
    /\ TicksPerSecond \in Nat \ {0} /\ MaxClock \in Nat
    /\ Absent \notin Values \cup {Empty} /\ Empty \notin Values
    /\ \A s \in Workspaces :
          /\ s.file \in [Paths -> Values \cup {Absent}]
          /\ \A x \in s.snaps : x \in Snap /\ x.id < TicksPerSecond

Second(id) == id \div TicksPerSecond

\* at: what the call does next.  alone: no other call on the path overlapped.
Call(at, kind, path, value, seen, id, alone) ==
    [at |-> at, kind |-> kind, path |-> path, value |-> value, seen |-> seen,
     id |-> id, alone |-> alone]

NoCall == [at |-> "idle"]

\* A workspace as earlier sessions left it.
WSInit ==
    /\ \E s \in Workspaces : file = s.file /\ snaps = s.snaps
    /\ clock = TicksPerSecond /\ op = [w \in Writers |-> NoCall]
    /\ past = [d \in Dirs |-> ({file[p] : p \in {p \in Paths : SnapDir[p] = d}} \ {Absent})
                                \cup {s.content : s \in {s \in snaps : s.dir = d}}]
    /\ lost = {} /\ undone = {}

-----------------------------------------------------------------------------
BusyOn(p) == {w \in Writers : op[w].at # "idle" /\ op[w].path = p}

\* A call begins: it and every call under way on its path overlap.
Begin(w, p, c) ==
    op' = [x \in Writers |->
             IF x = w THEN [c EXCEPT !.alone = BusyOn(p) = {}]
             ELSE IF x \in BusyOn(p) THEN [op[x] EXCEPT !.alone = FALSE] ELSE op[x]]

End(w) == op' = [op EXCEPT ![w] = NoCall]

\* Mutant: the file is overwritten before the old content is saved.
FsWriteThenSnapshot(w, p, v) ==
    /\ op[w].at = "idle" /\ clock < MaxClock
    /\ Begin(w, p, Call("open", "write", p, v, file[p], 0, TRUE))
    /\ UNCHANGED <<file, snaps, clock, past, lost, undone>>

\* cap.fs.write up to the read of the old content; a new file has none.
FsWrite(w, p, v) ==
    /\ op[w].at = "idle" /\ clock < MaxClock
    /\ Begin(w, p, Call(IF file[p] = Absent THEN "open" ELSE "snap",
                        "write", p, v, file[p], 0, TRUE))
    /\ UNCHANGED <<file, snaps, clock, past, lost, undone>>

\* The snapshot file is created under the time of now, empty at first.
SnapOpen(w) ==
    /\ op[w].at = "snap"
    /\ snaps' = snaps \cup {[dir |-> SnapDir[op[w].path], id |-> clock, content |-> Empty]}
    /\ op' = [op EXCEPT ![w].at = "fill", ![w].id = clock]
    /\ clock' = clock + 1
    /\ UNCHANGED <<file, past, lost, undone>>

SnapFill(w) ==
    /\ op[w].at = "fill"
    /\ LET s == [dir |-> SnapDir[op[w].path], id |-> op[w].id, content |-> Empty]
       IN  snaps' = (snaps \ {s}) \cup {[s EXCEPT !.content = op[w].seen]}
    /\ op' = [op EXCEPT ![w].at = "open"]
    /\ UNCHANGED <<file, clock, past, lost, undone>>

\* A snapshot that cannot be taken or a file that cannot be opened or written
\* ends the call with an error; what is on disk stays as it is.
CallFails(w) ==
    /\ op[w].at \in {"snap", "fill", "open", "put"}
    /\ End(w)
    /\ UNCHANGED <<file, snaps, clock, past, lost, undone>>

Recoverable(p, v) == \E s \in snaps : s.dir = SnapDir[p] /\ s.content = v

\* fs::write opens with truncation ...
Truncate(w) ==
    /\ op[w].at = "open"
    /\ LET p == op[w].path IN
       /\ file' = [file EXCEPT ![p] = Empty]
       /\ past' = [past EXCEPT ![SnapDir[p]] = @ \cup {Empty}]
       /\ lost' = IF /\ op[w].kind = "write" /\ op[w].alone
                     /\ file[p] # Absent /\ ~Recoverable(p, file[p])
                  THEN lost \cup {<<p, file[p]>>} ELSE lost
    /\ op' = [op EXCEPT ![w].at = "put"]
    /\ UNCHANGED <<snaps, clock, undone>>

\* ... and writes.
Put(w) ==
    /\ op[w].at = "put"
    /\ LET p == op[w].path IN
       /\ file' = [file EXCEPT ![p] = op[w].value]
       /\ past' = [past EXCEPT ![SnapDir[p]] = @ \cup {op[w].value}]
    /\ End(w)
    /\ UNCHANGED <<snaps, clock, lost, undone>>

-----------------------------------------------------------------------------
\* list: the snapshots of the path's directory.
List(p) == {s \in snaps : s.dir = SnapDir[p]}

\* Mutant: restore_latest takes the minimum.
LatestIsFirst(p) == {s \in List(p) : \A t \in List(p) : Second(s.id) <= Second(t.id)}

\* restore_latest compares whole seconds: among the snapshots of the last
\* second the order of the directory decides.
Latest(p) == {s \in List(p) : \A t \in List(p) : Second(s.id) >= Second(t.id)}

\* restore: write the snapshot's content over the file, saving nothing.
Restore(w, p, s, how) ==
    /\ op[w].at = "idle"
    /\ Begin(w, p, Call("open", "undo", p, s.content, s.content, s.id, TRUE))
    /\ undone' = undone \cup {[how |-> how, took |-> s, among |-> List(p)]}
    /\ UNCHANGED <<file, snaps, clock, past, lost>>

\* cap.fs.undo, with the latest snapshot; without one it is an error.
Undo(w, p) == \E s \in Latest(p) : Restore(w, p, s, "latest")

\* cap.fs.undo with a snapshot_id.
UndoTo(w, p) == \E s \in List(p) : Restore(w, p, s, "id")

\* Time passes: the next reading lies in another second.
NextSecond ==
    /\ clock % TicksPerSecond # 0 /\ clock < MaxClock
    /\ clock' = (Second(clock) + 1) * TicksPerSecond
    /\ UNCHANGED <<file, snaps, op, past, lost, undone>>

\* The process dies: the calls are gone, the files stay.
Crash ==
    /\ op' = [w \in Writers |-> NoCall]
    /\ UNCHANGED <<file, snaps, clock, past, lost, undone>>

CallGoesOn(w) == SnapOpen(w) \/ SnapFill(w) \/ Truncate(w) \/ Put(w)

WSNext ==
    \/ \E w \in Writers, p \in Paths :
          \/ \E v \in Values : FsWrite(w, p, v)
          \/ Undo(w, p)
          \/ UndoTo(w, p)
    \/ \E w \in Writers : CallGoesOn(w) \/ CallFails(w)
    \/ NextSecond
    \/ Crash

WSSpec == WSInit /\ [][WSNext]_wsVars

-----------------------------------------------------------------------------
CallType ==
    [at: {"snap", "fill", "open", "put"}, kind: {"write", "undo"}, path: Paths,
     value: Contents, seen: Contents \cup {Absent}, id: Nat, alone: BOOLEAN]

\* Type invariant.
WSTypeOK ==
    /\ file \in [Paths -> Contents \cup {Absent}]
    /\ snaps \subseteq Snap /\ clock \in Nat
    /\ op \in [Writers -> {NoCall} \cup CallType]
    /\ past \in [Dirs -> SUBSET Contents]
    /\ lost \subseteq Paths \X Contents
    /\ undone \subseteq [how: {"latest", "id"}, took: Snap, among: SUBSET Snap]

(* A content that cap.fs.write replaces is in a snapshot of that path, also  *)
(* when earlier calls failed half-way or the process died, and whatever      *)
(* other writers do to other paths: only a call that overlaps on the same    *)
(* path can make a write lose something.                                     *)
OverwrittenIsRecoverable == lost = {}

(* Whatever undo writes is a content that a file of that snapshot directory  *)
(* once had, or the empty content of a snapshot that was never completed;    *)
(* and an undo to the latest one never passes over a later second.           *)
UndoGoesBack ==
    \A u \in undone :
        /\ u.took.content \in past[u.took.dir] \cup {Empty}
        /\ u.how = "latest" => \A s \in u.among : Second(s.id) <= Second(u.took.id)
=============================================================================
