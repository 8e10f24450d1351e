-------------------------- MODULE TuiSessionProofs --------------------------
(***************************************************************************)
(* Proofs about modules Workspace and TuiSession, for any number of        *)
(* writers, runs, paths, snapshot directories and lines entered: the paths *)
(* may share directories in any way, and calls fail and the process dies   *)
(* between any two steps.                                                  *)
(*                                                                         *)
(* A content is not lost because the snapshot a write has taken keeps its  *)
(* name to itself: clock readings are not repeated (IdInv), so that no     *)
(* other write replaces it while it is filled.  That it is the content     *)
(* which is overwritten needs the write to be alone on its path (FileInv). *)
(*                                                                         *)
(* The UI and its runs use cap.fs as module Workspace says, so that what   *)
(* is proved in the first part holds for a session too.                    *)
(***************************************************************************)
EXTENDS TuiSession, TLAPS

-----------------------------------------------------------------------------
(* The workspace.                                                          *)

Busy(w) == op[w].at # "idle"
Saving(w) == Busy(w) /\ op[w].kind = "write" /\ op[w].at \in {"snap", "fill", "open"}
HasSnap(w) == Saving(w) /\ op[w].at # "snap" /\ op[w].seen # Absent
SnapOf(w, content) == [dir |-> SnapDir[op[w].path], id |-> op[w].id, content |-> content]

\* Readings of the clock are used once.
IdInv ==
    /\ \A s \in snaps : s.id < clock
    /\ \A w \in Writers : HasSnap(w) => op[w].id < clock
    /\ \A v, w \in Writers : HasSnap(v) /\ HasSnap(w) /\ op[v].id = op[w].id => v = w

\* A call that is alone on its path is.
AloneInv ==
    \A v, w \in Writers :
        Busy(v) /\ Busy(w) /\ op[v].path = op[w].path /\ op[w].alone => v = w

\* A lone write overwrites what it has read, and has saved it by then.
FileInv ==
    \A w \in Writers : Saving(w) =>
        /\ op[w].alone => file[op[w].path] = op[w].seen
        /\ op[w].at \in {"snap", "fill"} => op[w].seen # Absent
        /\ op[w].at = "open" /\ op[w].seen # Absent => SnapOf(w, op[w].seen) \in snaps

\* Only writes take snapshots.
OnlyWritesSave ==
    \A w \in Writers : op[w].at \in {"snap", "fill"} => op[w].kind = "write"

\* The inductive invariant of OverwrittenIsRecoverable.
SafeInv == WSTypeOK /\ IdInv /\ AloneInv /\ FileInv /\ OnlyWritesSave /\ lost = {}

\* The call x goes on as it was, except that it may no longer be alone.
Same(x) ==
    /\ op'[x].at = op[x].at
    /\ Busy(x) => /\ op'[x].kind = op[x].kind /\ op'[x].path = op[x].path
                  /\ op'[x].seen = op[x].seen /\ op'[x].id = op[x].id
                  /\ op'[x].value = op[x].value
                  /\ op'[x].alone => op[x].alone

-----------------------------------------------------------------------------
LEMMA CallTyped ==
    ASSUME WSTypeOK, NEW w \in Writers, Busy(w)
    PROVE  op[w] \in CallType
  BY DEF WSTypeOK, Busy, NoCall

LEMMA NextSecondLater ==
    ASSUME NEW n \in Nat, NEW t \in Nat \ {0}
    PROVE  (n \div t + 1) * t \in Nat /\ n < (n \div t + 1) * t
  OBVIOUS

LEMMA ContentsDistinct ==
    /\ Absent \notin Contents
    /\ \A p \in Paths : SnapDir[p] \in Dirs
  BY WorkspaceConstants DEF Contents, Dirs

\* A call begins: it is alone only if its path is free, and whoever is under
\* way on that path is no longer.
LEMMA BeginFacts ==
    ASSUME WSTypeOK, AloneInv, NEW w \in Writers, ~Busy(w), NEW p \in Paths,
           NEW c \in CallType, c.path = p, Begin(w, p, c)
    PROVE  /\ op' \in [Writers -> {NoCall} \cup CallType]
           /\ op'[w] \in CallType /\ op'[w].at = c.at /\ op'[w].kind = c.kind /\ op'[w].path = p
           /\ op'[w].seen = c.seen /\ op'[w].id = c.id /\ op'[w].value = c.value
           /\ \A x \in Writers \ {w} : Same(x)
           /\ AloneInv'
  <1>1. op'[w] = [c EXCEPT !.alone = (BusyOn(p) = {})]
    BY DEF Begin
  <1>2. /\ op'[w] \in CallType /\ op'[w].at = c.at /\ op'[w].kind = c.kind /\ op'[w].path = p
        /\ op'[w].seen = c.seen /\ op'[w].id = c.id /\ op'[w].value = c.value
        /\ op'[w].alone <=> BusyOn(p) = {}
    BY <1>1 DEF CallType
  <1>3. ASSUME NEW x \in Writers, x # w, ~Busy(x)
        PROVE  op'[x] = op[x] /\ op'[x].at = op[x].at
    BY <1>3 DEF Begin, Busy, BusyOn
  <1>4. ASSUME NEW x \in Writers, x # w, Busy(x)
        PROVE  /\ op'[x] \in CallType
               /\ op'[x].at = op[x].at /\ op'[x].kind = op[x].kind /\ op'[x].path = op[x].path
               /\ op'[x].seen = op[x].seen /\ op'[x].id = op[x].id /\ op'[x].value = op[x].value
               /\ op'[x].alone => op[x].alone /\ op[x].path # p
    <2>1. op[x] \in CallType
      BY <1>4, CallTyped
    <2>2. CASE op[x].path = p
      <3>1. x \in BusyOn(p)
        BY <1>4, <2>2 DEF Busy, BusyOn
      <3>2. op'[x] = [op[x] EXCEPT !.alone = FALSE]
        BY <1>4, <3>1 DEF Begin
      <3> QED BY <2>1, <3>2 DEF CallType
    <2>3. CASE op[x].path # p
      <3>1. x \notin BusyOn(p)
        BY <2>3 DEF BusyOn
      <3>2. op'[x] = op[x]
        BY <1>4, <3>1 DEF Begin
      <3> QED BY <2>1, <2>3, <3>2
    <2> QED BY <2>2, <2>3
  <1>5. op' \in [Writers -> {NoCall} \cup CallType]
    <2>1. \A x \in Writers : op'[x] \in {NoCall} \cup CallType
      <3> TAKE x \in Writers
      <3>1. CASE x = w
        BY <1>2, <3>1
      <3>2. CASE x # w /\ ~Busy(x)
        BY <1>3, <3>2 DEF WSTypeOK
      <3>3. CASE x # w /\ Busy(x)
        BY <1>4, <3>3
      <3> QED BY <3>1, <3>2, <3>3
    <2>2. op' = [x \in Writers |-> op'[x]]
      BY DEF Begin
    <2> QED BY <2>1, <2>2
  <1>6. \A x \in Writers : x # w => op'[x].at = op[x].at
    BY <1>3, <1>4
  <1>7. AloneInv'
    <2> SUFFICES ASSUME NEW v \in Writers, NEW x \in Writers,
                        op'[v].at # "idle", op'[x].at # "idle",
                        op'[v].path = op'[x].path, op'[x].alone
                 PROVE  v = x
      BY DEF AloneInv, Busy
    <2>1. CASE v = w /\ x # w
      BY <1>2, <1>4, <1>6, <2>1 DEF Busy
    <2>2. CASE x = w /\ v # w
      <3>1. Busy(v) /\ op[v].path = p
        BY <1>2, <1>4, <1>6, <2>2 DEF Busy
      <3>2. v \in BusyOn(p)
        BY <3>1 DEF Busy, BusyOn
      <3> QED BY <1>2, <2>2, <3>2
    <2>3. CASE v # w /\ x # w
      <3>1. Busy(v) /\ Busy(x) /\ op[v].path = op[x].path /\ op[x].alone
        BY <1>4, <1>6, <2>3 DEF Busy
      <3> QED BY <3>1 DEF AloneInv
    <2> QED BY <2>1, <2>2, <2>3
  <1> QED BY <1>2, <1>4, <1>5, <1>6, <1>7 DEF Same

LEMMA SameKept ==
    ASSUME NEW x \in Writers, Same(x)
    PROVE  /\ Busy(x)' = Busy(x) /\ Saving(x)' = Saving(x) /\ HasSnap(x)' = HasSnap(x)
           /\ Busy(x) => /\ op'[x].at = op[x].at /\ op'[x].path = op[x].path
                         /\ op'[x].kind = op[x].kind
                         /\ op'[x].seen = op[x].seen /\ op'[x].id = op[x].id
                         /\ op'[x].value = op[x].value
                         /\ op'[x].alone => op[x].alone
                         /\ \A k : SnapOf(x, k)' = SnapOf(x, k)
  BY DEF Same, Busy, Saving, HasSnap, SnapOf

\* What the calls other than w promise survives a step of w, if the step leaves
\* the snapshots they have taken and the files they are alone on.
LEMMA OthersKeepFileInv ==
    ASSUME FileInv, NEW w \in Writers,
           \A x \in Writers \ {w} : Same(x),
           \A x \in Writers \ {w} : Busy(x) /\ op[x].alone =>
              file'[op[x].path] = file[op[x].path],
           \A x \in Writers \ {w} : HasSnap(x) /\ SnapOf(x, op[x].seen) \in snaps =>
              SnapOf(x, op[x].seen) \in snaps'
    PROVE  \A x \in Writers \ {w} : Saving(x)' =>
              /\ op'[x].alone => file'[op'[x].path] = op'[x].seen
              /\ op'[x].at \in {"snap", "fill"} => op'[x].seen # Absent
              /\ op'[x].at = "open" /\ op'[x].seen # Absent => SnapOf(x, op[x].seen)' \in snaps'
  <1> SUFFICES ASSUME NEW x \in Writers \ {w}, Saving(x)'
               PROVE  /\ op'[x].alone => file'[op'[x].path] = op'[x].seen
                      /\ op'[x].at \in {"snap", "fill"} => op'[x].seen # Absent
                      /\ op'[x].at = "open" /\ op'[x].seen # Absent =>
                            SnapOf(x, op[x].seen)' \in snaps'
    OBVIOUS
  <1>1. /\ Busy(x) /\ Saving(x)
        /\ op'[x].at = op[x].at /\ op'[x].path = op[x].path /\ op'[x].seen = op[x].seen
        /\ op'[x].alone => op[x].alone
        /\ SnapOf(x, op[x].seen)' = SnapOf(x, op[x].seen)
    <2>1. Saving(x) /\ Busy(x)
      BY SameKept DEF Saving
    <2>2. op'[x].seen = op[x].seen
      BY <2>1, SameKept
    <2>3. SnapOf(x, op[x].seen)' = SnapOf(x, op[x].seen)
      BY <2>1, <2>2, SameKept DEF SnapOf
    <2> QED BY <2>1, <2>2, <2>3, SameKept
  <1>2. op'[x].at = "open" /\ op'[x].seen # Absent => HasSnap(x)
    BY <1>1 DEF HasSnap
  <1> QED BY <1>1, <1>2 DEF FileInv

LEMMA OthersSave ==
    ASSUME OnlyWritesSave, NEW w \in Writers, \A x \in Writers \ {w} : Same(x),
           op'[w].at \in {"snap", "fill"} => op'[w].kind = "write"
    PROVE  OnlyWritesSave'
  <1> SUFFICES ASSUME NEW x \in Writers, op'[x].at \in {"snap", "fill"}
               PROVE  op'[x].kind = "write"
    BY DEF OnlyWritesSave
  <1>1. CASE x = w
    BY <1>1
  <1>2. CASE x # w
    <2>1. Same(x)
      BY <1>2
    <2> QED BY <2>1 DEF Same, Busy, OnlyWritesSave
  <1> QED BY <1>1, <1>2

LEMMA FsWriteKeeps ==
    ASSUME SafeInv, NEW w \in Writers, NEW p \in Paths, NEW v \in Values, FsWrite(w, p, v)
    PROVE  SafeInv' /\ op'[w].seen = file[p] /\ op'[w].path = p /\ \A x \in Writers \ {w} : Same(x)
  <1> USE DEF SafeInv
  <1> DEFINE c == Call(IF file[p] = Absent THEN "open" ELSE "snap", "write", p, v, file[p], 0, TRUE)
  <1>1. /\ ~Busy(w) /\ Begin(w, p, c)
        /\ file' = file /\ snaps' = snaps /\ clock' = clock
        /\ past' = past /\ lost' = lost /\ undone' = undone
    BY DEF FsWrite, Busy
  <1>2. /\ c \in CallType /\ c.path = p /\ c.kind = "write" /\ c.seen = file[p]
        /\ c.at = IF file[p] = Absent THEN "open" ELSE "snap"
    BY DEF WSTypeOK, CallType, Call, Contents
  <1> HIDE DEF c
  <1>3. /\ op' \in [Writers -> {NoCall} \cup CallType]
        /\ op'[w] \in CallType /\ op'[w].at = c.at /\ op'[w].kind = "write" /\ op'[w].path = p
        /\ op'[w].seen = file[p]
        /\ \A x \in Writers \ {w} : Same(x)
        /\ AloneInv'
    BY <1>1, <1>2, BeginFacts
  <1>4. WSTypeOK'
    BY <1>1, <1>3 DEF WSTypeOK
  <1>5. ~HasSnap(w)'
    BY <1>2, <1>3 DEF HasSnap, Saving, Busy
  <1>6. IdInv'
    BY <1>1, <1>3, <1>5, SameKept DEF IdInv, HasSnap, Saving
  <1>7. FileInv'
    <2>1. /\ op'[w].alone => file'[op'[w].path] = op'[w].seen
          /\ op'[w].at \in {"snap", "fill"} => op'[w].seen # Absent
          /\ ~(op'[w].at = "open" /\ op'[w].seen # Absent)
      BY <1>1, <1>2, <1>3
    <2> QED BY <1>1, <1>3, <2>1, OthersKeepFileInv DEF FileInv
  <1>8. OnlyWritesSave'
    BY <1>3, OthersSave
  <1> QED BY <1>1, <1>3, <1>4, <1>6, <1>7, <1>8

LEMMA RestoreKeeps ==
    ASSUME SafeInv, NEW w \in Writers, NEW p \in Paths, NEW s \in List(p),
           NEW how \in {"latest", "id"}, Restore(w, p, s, how)
    PROVE  SafeInv' /\ op'[w].seen = s.content /\ op'[w].path = p /\ \A x \in Writers \ {w} : Same(x)
  <1> USE DEF SafeInv
  <1> DEFINE c == Call("open", "undo", p, s.content, s.content, s.id, TRUE)
  <1>1. /\ ~Busy(w) /\ Begin(w, p, c)
        /\ file' = file /\ snaps' = snaps /\ clock' = clock
        /\ past' = past /\ lost' = lost
        /\ undone' = undone \cup {[how |-> how, took |-> s, among |-> List(p)]}
    BY DEF Restore, Busy
  <1>2. s \in Snap /\ s.content \in Contents /\ s.id \in Nat /\ List(p) \in SUBSET Snap
    BY DEF WSTypeOK, List, Snap
  <1>3. /\ c \in CallType /\ c.path = p /\ c.kind = "undo" /\ c.seen = s.content
        /\ c.at = "open"
    BY <1>2 DEF CallType, Call
  <1> HIDE DEF c
  <1>4. /\ op' \in [Writers -> {NoCall} \cup CallType]
        /\ op'[w] \in CallType /\ op'[w].at = "open" /\ op'[w].kind = "undo"
        /\ op'[w].seen = s.content /\ op'[w].path = p
        /\ \A x \in Writers \ {w} : Same(x)
        /\ AloneInv'
    BY <1>1, <1>3, BeginFacts
  <1>5. undone' \subseteq [how: {"latest", "id"}, took: Snap, among: SUBSET Snap]
    BY <1>1, <1>2 DEF WSTypeOK
  <1>6. WSTypeOK'
    BY <1>1, <1>4, <1>5 DEF WSTypeOK
  <1>7. ~Saving(w)'
    BY <1>4 DEF Saving
  <1>8. IdInv'
    BY <1>1, <1>4, <1>7, SameKept DEF IdInv, HasSnap, Saving
  <1>9. FileInv'
    BY <1>1, <1>4, <1>7, OthersKeepFileInv DEF FileInv
  <1>10. OnlyWritesSave'
    BY <1>4, OthersSave
  <1> QED BY <1>1, <1>4, <1>6, <1>8, <1>9, <1>10

\* A step of a call that is under way disturbs no other.
LEMMA StepSame ==
    ASSUME AloneInv, NEW w \in Writers, Busy(w),
           \A x \in Writers \ {w} : op'[x] = op[x],
           Busy(w)' => op'[w].path = op[w].path /\ op'[w].alone = op[w].alone
    PROVE  AloneInv' /\ \A x \in Writers \ {w} : Same(x)
  <1>1. \A x \in Writers \ {w} : Same(x) /\ Busy(x)' = Busy(x)
    BY DEF Same, Busy
  <1>2. AloneInv'
    <2> SUFFICES ASSUME NEW v \in Writers, NEW x \in Writers,
                        Busy(v)', Busy(x)', op'[v].path = op'[x].path, op'[x].alone
                 PROVE  v = x
      BY DEF AloneInv
    <2>1. Busy(v) /\ Busy(x) /\ op[v].path = op[x].path /\ op[x].alone
      BY <1>1
    <2> QED BY <2>1 DEF AloneInv
  <1> QED BY <1>1, <1>2

LEMMA SnapOpenKeeps ==
    ASSUME SafeInv, NEW w \in Writers, SnapOpen(w)
    PROVE  /\ SafeInv' /\ \A x \in Writers \ {w} : Same(x)
           /\ op'[w].seen = op[w].seen /\ op'[w].path = op[w].path
  <1> USE DEF SafeInv
  <1> DEFINE s == [dir |-> SnapDir[op[w].path], id |-> clock, content |-> Empty]
  <1>1. /\ op[w].at = "snap" /\ op[w].kind = "write" /\ Busy(w) /\ Saving(w)
        /\ op[w] \in CallType /\ op[w].seen # Absent
    <2>1. op[w].at = "snap" /\ op[w].kind = "write" /\ Busy(w) /\ Saving(w)
      BY DEF SnapOpen, OnlyWritesSave, Busy, Saving
    <2> QED BY <2>1, CallTyped DEF FileInv
  <1>2. /\ snaps' = snaps \cup {s} /\ clock' = clock + 1
        /\ op' = [op EXCEPT ![w].at = "fill", ![w].id = clock]
        /\ UNCHANGED <<file, past, lost, undone>>
    BY DEF SnapOpen
  <1>3. s \in Snap /\ s.id = clock
    BY <1>1, ContentsDistinct DEF Snap, CallType, WSTypeOK, Contents
  <1> HIDE DEF s
  <1>4. /\ op'[w] \in CallType /\ op'[w].at = "fill" /\ op'[w].id = clock
        /\ op'[w].path = op[w].path /\ op'[w].kind = op[w].kind
        /\ op'[w].seen = op[w].seen /\ op'[w].alone = op[w].alone
    BY <1>1, <1>2 DEF WSTypeOK, CallType
  <1>5. \A x \in Writers \ {w} : op'[x] = op[x]
    BY <1>2 DEF WSTypeOK
  <1>6. WSTypeOK'
    <2>1. op' \in [Writers -> {NoCall} \cup CallType]
      BY <1>2, <1>4, <1>5 DEF WSTypeOK
    <2>2. clock' \in Nat
      BY <1>2 DEF WSTypeOK
    <2> QED BY <1>2, <1>3, <2>1, <2>2 DEF WSTypeOK
  <1>7. AloneInv' /\ \A x \in Writers \ {w} : Same(x)
    BY <1>1, <1>4, <1>5, StepSame
  <1>8. IdInv'
    <2>1. clock \in Nat /\ (\A t \in snaps : t.id \in Nat)
          /\ \A x \in Writers : Busy(x) => op[x].id \in Nat
      <3>1. clock \in Nat /\ \A t \in snaps : t.id \in Nat
        BY DEF WSTypeOK, Snap
      <3>2. \A x \in Writers : Busy(x) => op[x].id \in Nat
        BY CallTyped DEF CallType
      <3> QED BY <3>1, <3>2
    <2>2. \A t \in snaps' : t.id < clock'
      BY <1>2, <1>3, <2>1 DEF IdInv
    <2>3. \A x \in Writers \ {w} : HasSnap(x)' => HasSnap(x) /\ op'[x].id = op[x].id
                                                  /\ op[x].id < clock /\ Busy(x)
      BY <1>5, <1>7, SameKept DEF IdInv, HasSnap, Saving
    <2>4. \A x \in Writers : HasSnap(x)' => op'[x].id < clock'
      <3> SUFFICES ASSUME NEW x \in Writers, HasSnap(x)' PROVE op'[x].id < clock'
        OBVIOUS
      <3>1. CASE x = w
        BY <1>2, <1>4, <2>1, <3>1
      <3>2. CASE x # w
        <4>1. op'[x].id = op[x].id /\ op[x].id < clock /\ op[x].id \in Nat
          BY <2>1, <2>3, <3>2
        <4> QED BY <1>2, <2>1, <4>1
      <3> QED BY <3>1, <3>2
    <2>5. \A v, x \in Writers : HasSnap(v)' /\ HasSnap(x)' /\ op'[v].id = op'[x].id => v = x
      BY <1>4, <2>1, <2>3 DEF IdInv
    <2> QED BY <2>2, <2>4, <2>5 DEF IdInv
  <1>9. FileInv'
    <2>1. /\ op'[w].alone => file'[op'[w].path] = op'[w].seen
          /\ op'[w].seen # Absent /\ op'[w].at # "open"
      BY <1>1, <1>2, <1>4 DEF FileInv
    <2> QED BY <1>2, <1>7, <2>1, OthersKeepFileInv DEF FileInv
  <1>10. OnlyWritesSave'
    BY <1>1, <1>4, <1>7, OthersSave
  <1> QED BY <1>2, <1>4, <1>6, <1>7, <1>8, <1>9, <1>10

LEMMA SnapFillKeeps ==
    ASSUME SafeInv, NEW w \in Writers, SnapFill(w)
    PROVE  /\ SafeInv' /\ \A x \in Writers \ {w} : Same(x)
           /\ op'[w].seen = op[w].seen /\ op'[w].path = op[w].path
  <1> USE DEF SafeInv
  <1>1. /\ op[w].at = "fill" /\ op[w].kind = "write" /\ Busy(w) /\ Saving(w)
        /\ op[w] \in CallType /\ op[w].seen # Absent /\ HasSnap(w)
    <2>1. op[w].at = "fill" /\ op[w].kind = "write" /\ Busy(w) /\ Saving(w)
      BY DEF SnapFill, OnlyWritesSave, Busy, Saving
    <2> QED BY <2>1, CallTyped DEF FileInv, HasSnap
  <1>2. /\ snaps' = (snaps \ {SnapOf(w, Empty)}) \cup {SnapOf(w, op[w].seen)}
        /\ op' = [op EXCEPT ![w].at = "open"]
        /\ UNCHANGED <<file, clock, past, lost, undone>>
    BY DEF SnapFill, SnapOf
  <1>3. SnapOf(w, op[w].seen) \in Snap /\ SnapOf(w, op[w].seen).id = op[w].id
    BY <1>1, ContentsDistinct DEF Snap, SnapOf, CallType, Contents
  <1>4. /\ op'[w] \in CallType /\ op'[w].at = "open" /\ op'[w].id = op[w].id
        /\ op'[w].path = op[w].path /\ op'[w].kind = op[w].kind
        /\ op'[w].seen = op[w].seen /\ op'[w].alone = op[w].alone
    BY <1>1, <1>2 DEF WSTypeOK, CallType
  <1>5. \A x \in Writers \ {w} : op'[x] = op[x]
    BY <1>2 DEF WSTypeOK
  <1>6. WSTypeOK'
    <2>1. op' \in [Writers -> {NoCall} \cup CallType]
      BY <1>2, <1>4, <1>5 DEF WSTypeOK
    <2> QED BY <1>2, <1>3, <2>1 DEF WSTypeOK
  <1>7. AloneInv' /\ \A x \in Writers \ {w} : Same(x)
    BY <1>1, <1>4, <1>5, StepSame
  <1>8. IdInv'
    <2>1. \A t \in snaps' : t.id < clock'
      BY <1>1, <1>2, <1>3 DEF IdInv
    <2>2. \A x \in Writers \ {w} : HasSnap(x)' => HasSnap(x) /\ op'[x].id = op[x].id
      BY <1>5, <1>7, SameKept
    <2> QED BY <1>1, <1>2, <1>4, <2>1, <2>2 DEF IdInv
  <1>9. FileInv'
    <2>1. \A x \in Writers \ {w} : HasSnap(x) => SnapOf(x, op[x].seen) # SnapOf(w, Empty)
      <3> SUFFICES ASSUME NEW x \in Writers \ {w}, HasSnap(x)
                   PROVE  SnapOf(x, op[x].seen) # SnapOf(w, Empty)
        OBVIOUS
      <3>1. op[x].id # op[w].id
        BY <1>1 DEF IdInv
      <3>2. SnapOf(x, op[x].seen).id = op[x].id /\ SnapOf(w, Empty).id = op[w].id
        BY DEF SnapOf
      <3> QED BY <3>1, <3>2
    <2>2. /\ op'[w].alone => file'[op'[w].path] = op'[w].seen
          /\ op'[w].at = "open" /\ SnapOf(w, op[w].seen)' \in snaps'
      <3>1. SnapOf(w, op[w].seen)' = SnapOf(w, op[w].seen)
        BY <1>4 DEF SnapOf
      <3>2. op'[w].alone => file'[op'[w].path] = op'[w].seen
        BY <1>1, <1>2, <1>4 DEF FileInv
      <3> QED BY <1>2, <1>4, <3>1, <3>2
    <2> QED BY <1>2, <1>7, <2>1, <2>2, OthersKeepFileInv DEF FileInv
  <1>10. OnlyWritesSave'
    BY <1>4, <1>7, OthersSave
  <1> QED BY <1>2, <1>4, <1>6, <1>7, <1>8, <1>9, <1>10

\* A step that leaves w without a snapshot of its own and keeps all the others.
LEMMA LeavesKeep ==
    ASSUME SafeInv, NEW w \in Writers, Busy(w), ~Saving(w)',
           snaps' = snaps, clock' = clock, WSTypeOK',
           \A x \in Writers \ {w} : op'[x] = op[x],
           Busy(w)' => /\ op'[w].path = op[w].path /\ op'[w].alone = op[w].alone
                       /\ op'[w].at = "put",
           ~Busy(w)' => op'[w].at = "idle",
           \A q \in Paths : q # op[w].path => file'[q] = file[q],
           lost' = {}
    PROVE  SafeInv' /\ \A x \in Writers \ {w} : Same(x)
  <1> USE DEF SafeInv
  <1>1. AloneInv' /\ \A x \in Writers \ {w} : Same(x)
    BY StepSame
  <1>2. IdInv'
    BY <1>1, SameKept DEF IdInv, HasSnap, Saving
  <1>3. \A x \in Writers \ {w} : Busy(x) /\ op[x].alone => op[x].path # op[w].path
    BY DEF AloneInv
  <1>4. \A x \in Writers : Busy(x) => op[x].path \in Paths
    BY CallTyped DEF CallType
  <1>5. FileInv'
    BY <1>1, <1>3, <1>4, OthersKeepFileInv DEF FileInv
  <1>6. OnlyWritesSave'
    BY <1>1, OthersSave DEF Busy
  <1> QED BY <1>1, <1>2, <1>5, <1>6

LEMMA TruncateKeeps ==
    ASSUME SafeInv, NEW w \in Writers, Truncate(w)
    PROVE  /\ SafeInv' /\ \A x \in Writers \ {w} : Same(x)
           /\ op'[w].seen = op[w].seen /\ op'[w].path = op[w].path
  <1> USE DEF SafeInv
  <1> DEFINE p == op[w].path
  <1>1. op[w].at = "open" /\ Busy(w) /\ op[w] \in CallType /\ p \in Paths
    <2>1. op[w].at = "open" /\ Busy(w)
      BY DEF Truncate, Busy
    <2> QED BY <2>1, CallTyped DEF CallType
  <1>2. /\ file' = [file EXCEPT ![p] = Empty]
        /\ past' = [past EXCEPT ![SnapDir[p]] = @ \cup {Empty}]
        /\ op' = [op EXCEPT ![w].at = "put"]
        /\ UNCHANGED <<snaps, clock, undone>>
    BY DEF Truncate
  <1>3. lost' = {}
    <2>1. ASSUME op[w].kind = "write", op[w].alone, file[p] # Absent PROVE Recoverable(p, file[p])
      <3>1. Saving(w)
        BY <1>1, <2>1 DEF Saving
      <3>2. file[p] = op[w].seen /\ SnapOf(w, op[w].seen) \in snaps
        BY <1>1, <2>1, <3>1 DEF FileInv
      <3>3. /\ SnapOf(w, op[w].seen).dir = SnapDir[p]
            /\ SnapOf(w, op[w].seen).content = op[w].seen
        BY DEF SnapOf
      <3> QED BY <3>2, <3>3 DEF Recoverable
    <2> QED BY <2>1 DEF Truncate
  <1>4. /\ op'[w] \in CallType /\ op'[w].at = "put" /\ op'[w].path = p
        /\ op'[w].seen = op[w].seen /\ op'[w].alone = op[w].alone
    BY <1>1, <1>2 DEF WSTypeOK, CallType
  <1>5. \A x \in Writers \ {w} : op'[x] = op[x]
    BY <1>2 DEF WSTypeOK
  <1>6. WSTypeOK'
    <2>1. op' \in [Writers -> {NoCall} \cup CallType]
      BY <1>2, <1>4, <1>5 DEF WSTypeOK
    <2>2. file' \in [Paths -> Contents \cup {Absent}]
      BY <1>1, <1>2 DEF WSTypeOK, Contents
    <2>3. past' \in [Dirs -> SUBSET Contents]
      BY <1>1, <1>2 DEF WSTypeOK, Contents
    <2> QED BY <1>2, <1>3, <2>1, <2>2, <2>3 DEF WSTypeOK
  <1>7. \A q \in Paths : q # op[w].path => file'[q] = file[q]
    BY <1>2 DEF WSTypeOK
  <1>8. ~Saving(w)' /\ Busy(w)'
    BY <1>4 DEF Saving, Busy
  <1> QED BY <1>1, <1>2, <1>3, <1>4, <1>5, <1>6, <1>7, <1>8, LeavesKeep

LEMMA PutKeeps ==
    ASSUME SafeInv, NEW w \in Writers, Put(w)
    PROVE  SafeInv' /\ op'[w] = NoCall /\ \A x \in Writers \ {w} : Same(x)
  <1> USE DEF SafeInv
  <1> DEFINE p == op[w].path
  <1>1. Busy(w) /\ op[w] \in CallType /\ p \in Paths /\ op[w].value \in Contents
    <2>1. Busy(w)
      BY DEF Put, Busy
    <2> QED BY <2>1, CallTyped DEF CallType
  <1>2. /\ file' = [file EXCEPT ![p] = op[w].value]
        /\ past' = [past EXCEPT ![SnapDir[p]] = @ \cup {op[w].value}]
        /\ op' = [op EXCEPT ![w] = NoCall]
        /\ UNCHANGED <<snaps, clock, lost, undone>>
    BY DEF Put, End
  <1>3. op'[w] = NoCall /\ \A x \in Writers \ {w} : op'[x] = op[x]
    BY <1>2 DEF WSTypeOK
  <1>4. WSTypeOK'
    <2>1. op' \in [Writers -> {NoCall} \cup CallType]
      BY <1>2 DEF WSTypeOK
    <2>2. file' \in [Paths -> Contents \cup {Absent}]
      BY <1>1, <1>2 DEF WSTypeOK
    <2>3. past' \in [Dirs -> SUBSET Contents]
      BY <1>1, <1>2 DEF WSTypeOK
    <2> QED BY <1>2, <2>1, <2>2, <2>3 DEF WSTypeOK
  <1>5. \A q \in Paths : q # op[w].path => file'[q] = file[q]
    BY <1>2 DEF WSTypeOK
  <1>6. ~Saving(w)' /\ ~Busy(w)' /\ op'[w].at = "idle"
    BY <1>3 DEF Saving, Busy, NoCall
  <1> QED BY <1>1, <1>2, <1>3, <1>4, <1>5, <1>6, LeavesKeep

LEMMA CallFailsKeeps ==
    ASSUME SafeInv, NEW w \in Writers, CallFails(w)
    PROVE  SafeInv' /\ op'[w] = NoCall /\ \A x \in Writers \ {w} : Same(x)
  <1> USE DEF SafeInv
  <1>1. /\ Busy(w) /\ op' = [op EXCEPT ![w] = NoCall]
        /\ UNCHANGED <<file, snaps, clock, past, lost, undone>>
    BY DEF CallFails, End, Busy
  <1>2. op'[w] = NoCall /\ \A x \in Writers \ {w} : op'[x] = op[x]
    BY <1>1 DEF WSTypeOK
  <1>3. WSTypeOK'
    BY <1>1 DEF WSTypeOK
  <1>4. ~Saving(w)' /\ ~Busy(w)' /\ op'[w].at = "idle"
    BY <1>2 DEF Saving, Busy, NoCall
  <1> QED BY <1>1, <1>2, <1>3, <1>4, LeavesKeep

LEMMA NextSecondKeeps == SafeInv /\ NextSecond => SafeInv'
  <1> SUFFICES ASSUME SafeInv, NextSecond PROVE SafeInv'
    OBVIOUS
  <1> USE DEF SafeInv
  <1>1. UNCHANGED <<file, snaps, op, past, lost, undone>>
    BY DEF NextSecond
  <1>2. clock' \in Nat /\ clock < clock'
    <2>1. clock \in Nat /\ TicksPerSecond \in Nat \ {0}
      BY WorkspaceConstants DEF WSTypeOK
    <2>2. clock' = (clock \div TicksPerSecond + 1) * TicksPerSecond
      BY DEF NextSecond, Second
    <2> QED BY <2>1, <2>2, NextSecondLater
  <1>3. WSTypeOK'
    BY <1>1, <1>2 DEF WSTypeOK
  <1>4. AloneInv' /\ FileInv' /\ OnlyWritesSave' /\ lost' = {}
    BY <1>1 DEF AloneInv, FileInv, OnlyWritesSave, Saving, Busy, SnapOf
  <1>5. \A x \in Writers : HasSnap(x)' = HasSnap(x)
    BY <1>1 DEF HasSnap, Saving, Busy
  <1>6. IdInv'
    <2>1. clock \in Nat /\ \A t \in snaps : t.id \in Nat
      BY DEF WSTypeOK, Snap
    <2>2. \A x \in Writers : HasSnap(x) => op[x].id \in Nat
      BY CallTyped DEF CallType, HasSnap, Saving
    <2> QED BY <1>1, <1>2, <1>5, <2>1, <2>2 DEF IdInv
  <1> QED BY <1>3, <1>4, <1>6

LEMMA CrashKeeps == SafeInv /\ Crash => SafeInv'
  <1> SUFFICES ASSUME SafeInv, Crash PROVE SafeInv'
    OBVIOUS
  <1> USE DEF SafeInv
  <1>1. \A x \in Writers : ~Busy(x)' /\ ~Saving(x)' /\ ~HasSnap(x)' /\ op'[x].at = "idle"
    BY DEF Crash, NoCall, Busy, Saving, HasSnap
  <1>2. UNCHANGED <<file, snaps, clock, past, lost, undone>>
    BY DEF Crash
  <1>3. WSTypeOK'
    BY DEF Crash, WSTypeOK
  <1> QED BY <1>1, <1>2, <1>3 DEF IdInv, AloneInv, FileInv, OnlyWritesSave

LEMMA SafeInit == WSInit => SafeInv
  <1> SUFFICES ASSUME WSInit PROVE SafeInv
    OBVIOUS
  <1>1. PICK s \in Workspaces : file = s.file /\ snaps = s.snaps
    BY DEF WSInit
  <1>2. /\ file \in [Paths -> Values \cup {Absent}]
        /\ \A t \in snaps : t \in Snap /\ t.id < TicksPerSecond
    BY <1>1, WorkspaceConstants
  <1>3. op = [w \in Writers |-> NoCall] /\ clock = TicksPerSecond /\ clock \in Nat
        /\ lost = {} /\ undone = {}
    BY WorkspaceConstants DEF WSInit
  <1>4. past \in [Dirs -> SUBSET Contents]
    <2>1. \A d \in Dirs : past[d] \subseteq Contents
      <3> TAKE d \in Dirs
      <3>1. past[d] = ({file[p] : p \in {p \in Paths : SnapDir[p] = d}} \ {Absent})
                                \cup {t.content : t \in {t \in snaps : t.dir = d}}
        BY DEF WSInit
      <3>2. \A p \in Paths : file[p] # Absent => file[p] \in Contents
        BY <1>2 DEF Contents
      <3>3. \A t \in snaps : t.content \in Contents
        BY <1>2 DEF Snap
      <3> QED BY <3>1, <3>2, <3>3
    <2>2. past = [d \in Dirs |-> past[d]]
      BY DEF WSInit
    <2> QED BY <2>1, <2>2
  <1>5. WSTypeOK
    BY <1>2, <1>3, <1>4 DEF WSTypeOK, Contents
  <1>6. \A x \in Writers : ~Busy(x) /\ ~Saving(x) /\ ~HasSnap(x) /\ op[x].at = "idle"
    BY <1>3 DEF NoCall, Busy, Saving, HasSnap
  <1> QED BY <1>2, <1>3, <1>5, <1>6 DEF SafeInv, IdInv, AloneInv, FileInv, OnlyWritesSave

LEMMA SafeStep == SafeInv /\ [WSNext]_wsVars => SafeInv'
  <1> SUFFICES ASSUME SafeInv, [WSNext]_wsVars PROVE SafeInv'
    OBVIOUS
  <1>1. ASSUME NEW w \in Writers, NEW p \in Paths, NEW v \in Values, FsWrite(w, p, v)
        PROVE  SafeInv'
    BY <1>1, FsWriteKeeps
  <1>2. ASSUME NEW w \in Writers, NEW p \in Paths, Undo(w, p) PROVE SafeInv'
    BY <1>2, RestoreKeeps DEF Undo, Latest
  <1>3. ASSUME NEW w \in Writers, NEW p \in Paths, UndoTo(w, p) PROVE SafeInv'
    BY <1>3, RestoreKeeps DEF UndoTo
  <1>4. ASSUME NEW w \in Writers, CallGoesOn(w) \/ CallFails(w) PROVE SafeInv'
    BY <1>4, SnapOpenKeeps, SnapFillKeeps, TruncateKeeps, PutKeeps, CallFailsKeeps
       DEF CallGoesOn
  <1>5. CASE UNCHANGED wsVars
    BY <1>5 DEF wsVars, SafeInv, WSTypeOK, IdInv, AloneInv, FileInv, OnlyWritesSave,
                HasSnap, Saving, Busy, SnapOf
  <1> QED
    BY <1>1, <1>2, <1>3, <1>4, <1>5, NextSecondKeeps, CrashKeeps DEF WSNext

(* The state of the files, the snapshots and the calls on them stays of its  *)
(* types, however the calls of cap.fs interleave and fail.                   *)
THEOREM WorkspaceTypeCorrect == WSSpec => []WSTypeOK
  <1>1. SafeInv => WSTypeOK
    BY DEF SafeInv
  <1> QED BY <1>1, SafeInit, SafeStep, PTL DEF WSSpec

(* cap.fs.write never loses the content it replaces, unless another call on  *)
(* the same path overlaps it: the snapshot is complete before the file is    *)
(* truncated, and no other write, failure or crash takes it away.            *)
THEOREM OverwrittenStaysRecoverable == WSSpec => []OverwrittenIsRecoverable
  <1>1. SafeInv => OverwrittenIsRecoverable
    BY DEF SafeInv, OverwrittenIsRecoverable
  <1> QED BY <1>1, SafeInit, SafeStep, PTL DEF WSSpec

-----------------------------------------------------------------------------
(* What undo writes.                                                       *)

Known(d) == past[d] \cup {Empty}

\* The inductive invariant of UndoGoesBack, beside SafeInv: what a file, a
\* snapshot or a call that reads or restores has is known.
PastInv ==
    /\ \A p \in Paths : file[p] # Absent => file[p] \in Known(SnapDir[p])
    /\ \A s \in snaps : s.content \in Known(s.dir)
    /\ \A w \in Writers : Busy(w) /\ op[w].seen # Absent =>
          op[w].seen \in Known(SnapDir[op[w].path])
    /\ UndoGoesBack

\* Nothing is forgotten: what is known stays known.
LEMMA PastGrows ==
    ASSUME SafeInv, [WSNext]_wsVars
    PROVE  \A d \in Dirs : past[d] \subseteq past'[d]
  <1>1. past \in [Dirs -> SUBSET Contents]
    BY DEF SafeInv, WSTypeOK
  <1>2. CASE past' = past
    BY <1>2
  <1>3. ASSUME NEW w \in Writers, Truncate(w) \/ Put(w)
        PROVE  \A d \in Dirs : past[d] \subseteq past'[d]
    BY <1>1, <1>3 DEF Truncate, Put
  <1> QED
    BY <1>2, <1>3 DEF WSNext, wsVars, FsWrite, Undo, UndoTo, Restore, CallGoesOn, SnapOpen,
                      SnapFill, CallFails, NextSecond, Crash

\* A step of w keeps PastInv if what it adds is known.
LEMMA PastKept ==
    ASSUME SafeInv, PastInv, NEW w \in Writers,
           \A d \in Dirs : past[d] \subseteq past'[d],
           \A x \in Writers \ {w} : Same(x),
           \A p \in Paths : file'[p] = file[p] \/ file'[p] \in Known(SnapDir[p])',
           \A s \in snaps' : s \in snaps \/ s.content \in Known(s.dir)',
           (Busy(w) /\ op[w].seen # Absent => op[w].seen \in Known(SnapDir[op[w].path]))',
           \A u \in undone' : u \in undone \/
               /\ u.took.content \in Known(u.took.dir)'
               /\ u.how = "latest" => \A s \in u.among : Second(s.id) <= Second(u.took.id)
    PROVE  PastInv'
  <1>1. \A d \in Dirs : \A k \in Known(d) : k \in Known(d)'
    BY DEF Known
  <1>2. /\ \A p \in Paths : SnapDir[p] \in Dirs
        /\ \A s \in snaps : s.dir \in Dirs
        /\ \A u \in undone : u.took.dir \in Dirs
        /\ \A x \in Writers : Busy(x) => op[x].path \in Paths
    <2>1. \A p \in Paths : SnapDir[p] \in Dirs
      BY ContentsDistinct
    <2>2. snaps \subseteq Snap /\ \A u \in undone : u.took \in Snap
      BY DEF SafeInv, WSTypeOK
    <2>3. \A s \in Snap : s.dir \in Dirs
      BY DEF Snap
    <2>4. \A x \in Writers : Busy(x) => op[x].path \in Paths
      BY CallTyped DEF SafeInv, CallType
    <2> QED BY <2>1, <2>2, <2>3, <2>4
  <1>3. \A p \in Paths : file'[p] # Absent => file'[p] \in Known(SnapDir[p])'
    BY <1>1, <1>2 DEF PastInv
  <1>4. \A s \in snaps' : s.content \in Known(s.dir)'
    BY <1>1, <1>2 DEF PastInv
  <1>5. ASSUME NEW x \in Writers, Busy(x)', op'[x].seen # Absent
        PROVE  (op[x].seen \in Known(SnapDir[op[x].path]))'
    <2>1. CASE x = w
      BY <1>5, <2>1
    <2>2. CASE x # w
      <3>1. Busy(x) /\ op'[x].seen = op[x].seen /\ op'[x].path = op[x].path
        BY <1>5, <2>2, SameKept
      <3>2. op[x].seen \in Known(SnapDir[op[x].path]) /\ SnapDir[op[x].path] \in Dirs
        BY <1>2, <1>5, <3>1 DEF PastInv
      <3> QED BY <1>1, <3>1, <3>2
    <2> QED BY <2>1, <2>2
  <1>6. UndoGoesBack'
    <2> SUFFICES ASSUME NEW u \in undone'
                 PROVE  /\ u.took.content \in Known(u.took.dir)'
                        /\ u.how = "latest" =>
                              \A s \in u.among : Second(s.id) <= Second(u.took.id)
      BY DEF UndoGoesBack, Known
    <2>1. CASE u \in undone
      <3>1. /\ u.took.content \in Known(u.took.dir)
            /\ u.how = "latest" => \A s \in u.among : Second(s.id) <= Second(u.took.id)
        BY <2>1 DEF PastInv, UndoGoesBack, Known
      <3> QED BY <1>1, <1>2, <2>1, <3>1
    <2>2. CASE u \notin undone
      BY <2>2
    <2> QED BY <2>1, <2>2
  <1> QED BY <1>3, <1>4, <1>5, <1>6 DEF PastInv

LEMMA PastAfterRestore ==
    ASSUME SafeInv, PastInv, \A d \in Dirs : past[d] \subseteq past'[d],
           NEW w \in Writers, NEW p \in Paths, NEW s \in List(p), NEW how \in {"latest", "id"},
           how = "latest" => s \in Latest(p), Restore(w, p, s, how)
    PROVE  PastInv'
  <1>1. /\ file' = file /\ snaps' = snaps /\ past' = past
        /\ undone' = undone \cup {[how |-> how, took |-> s, among |-> List(p)]}
    BY DEF Restore
  <1>2. s \in snaps /\ s.dir = SnapDir[p] /\ s.content \in Known(s.dir)
    BY DEF List, PastInv
  <1>3. Known(s.dir)' = Known(s.dir)
    BY <1>1 DEF Known
  <1>4. /\ op'[w].seen = s.content /\ op'[w].path = p
        /\ \A x \in Writers \ {w} : Same(x)
    BY RestoreKeeps
  <1>5. how = "latest" => \A t \in List(p) : Second(t.id) <= Second(s.id)
    <2>1. \A t \in snaps : Second(t.id) \in Nat
      BY WorkspaceConstants DEF SafeInv, WSTypeOK, Snap, Second
    <2> QED BY <1>2, <2>1 DEF Latest, List
  <1>6. \A u \in undone' : u \in undone \/
               /\ u.took.content \in Known(u.took.dir)'
               /\ u.how = "latest" => \A t \in u.among : Second(t.id) <= Second(u.took.id)
    <2> SUFFICES ASSUME NEW u \in undone', u \notin undone
                 PROVE  /\ u.took.content \in Known(u.took.dir)'
                        /\ u.how = "latest" =>
                              \A t \in u.among : Second(t.id) <= Second(u.took.id)
      OBVIOUS
    <2>1. u.how = how /\ u.took = s /\ u.among = List(p)
      BY <1>1
    <2> QED BY <1>2, <1>3, <1>5, <2>1
  <1> QED BY <1>1, <1>2, <1>3, <1>4, <1>6, PastKept

\* A call that goes on or ends.
LEMMA PastAfterStep ==
    ASSUME SafeInv, PastInv, \A d \in Dirs : past[d] \subseteq past'[d],
           NEW w \in Writers, CallGoesOn(w) \/ CallFails(w)
    PROVE  PastInv'
  <1>1. Busy(w) /\ op[w] \in CallType /\ op[w].path \in Paths
    <2>1. Busy(w)
      BY DEF CallGoesOn, SnapOpen, SnapFill, Truncate, Put, CallFails, Busy
    <2> QED BY <2>1, CallTyped DEF SafeInv, CallType
  <1>2. /\ \A x \in Writers \ {w} : Same(x)
        /\ op'[w] = NoCall \/ (op'[w].seen = op[w].seen /\ op'[w].path = op[w].path)
    BY SnapOpenKeeps, SnapFillKeeps, TruncateKeeps, PutKeeps, CallFailsKeeps DEF CallGoesOn
  <1>3. SnapDir[op[w].path] \in Dirs
    BY <1>1, ContentsDistinct
  <1>4. op[w].seen # Absent => op[w].seen \in past'[SnapDir[op[w].path]] \cup {Empty}
    BY <1>1, <1>3 DEF PastInv, Known
  <1>5. (Busy(w) /\ op[w].seen # Absent => op[w].seen \in Known(SnapDir[op[w].path]))'
    <2>1. CASE op'[w] = NoCall
      BY <2>1 DEF NoCall, Busy
    <2>2. CASE op'[w].seen = op[w].seen /\ op'[w].path = op[w].path
      BY <1>4, <2>2 DEF Known
    <2> QED BY <1>2, <2>1, <2>2
  <1>6. undone' = undone
    BY DEF CallGoesOn, SnapOpen, SnapFill, Truncate, Put, CallFails
  <1>7. \A p \in Paths : file'[p] = file[p] \/ file'[p] \in Known(SnapDir[p])'
    <2>1. CASE file' = file
      BY <2>1
    <2>2. CASE Truncate(w)
      <3>1. file' = [file EXCEPT ![op[w].path] = Empty]
        BY <2>2 DEF Truncate
      <3> QED BY <1>1, <3>1 DEF SafeInv, WSTypeOK, Known
    <2>3. CASE Put(w)
      <3>1. /\ file' = [file EXCEPT ![op[w].path] = op[w].value]
            /\ past' = [past EXCEPT ![SnapDir[op[w].path]] = @ \cup {op[w].value}]
        BY <2>3 DEF Put
      <3>2. op[w].value \in past'[SnapDir[op[w].path]]
        BY <1>3, <3>1 DEF SafeInv, WSTypeOK
      <3> QED BY <1>1, <3>1, <3>2 DEF SafeInv, WSTypeOK, Known
    <2> QED BY <2>1, <2>2, <2>3 DEF CallGoesOn, SnapOpen, SnapFill, CallFails
  <1>8. \A s \in snaps' : s \in snaps \/ s.content \in Known(s.dir)'
    <2>1. CASE snaps' = snaps
      BY <2>1
    <2>2. CASE SnapOpen(w)
      <3> SUFFICES ASSUME NEW s \in snaps', s \notin snaps PROVE s.content \in Known(s.dir)'
        OBVIOUS
      <3>1. s.content = Empty
        BY <2>2 DEF SnapOpen
      <3> QED BY <3>1 DEF Known
    <2>3. CASE SnapFill(w)
      <3> SUFFICES ASSUME NEW s \in snaps', s \notin snaps PROVE s.content \in Known(s.dir)'
        OBVIOUS
      <3>1. s.dir = SnapDir[op[w].path] /\ s.content = op[w].seen
        BY <2>3 DEF SnapFill
      <3>2. op[w].seen # Absent
        BY <1>1, <2>3 DEF SafeInv, SnapFill, OnlyWritesSave, FileInv, Saving
      <3> QED BY <1>4, <3>1, <3>2 DEF Known
    <2> QED BY <2>1, <2>2, <2>3 DEF CallGoesOn, Truncate, Put, CallFails
  <1> QED BY <1>2, <1>5, <1>6, <1>7, <1>8, PastKept

LEMMA PastStep == SafeInv /\ PastInv /\ [WSNext]_wsVars => PastInv'
  <1> SUFFICES ASSUME SafeInv, PastInv, [WSNext]_wsVars PROVE PastInv'
    OBVIOUS
  <1>1. \A d \in Dirs : past[d] \subseteq past'[d]
    BY PastGrows
  <1>2. ASSUME NEW w \in Writers, NEW p \in Paths, NEW v \in Values, FsWrite(w, p, v)
        PROVE  PastInv'
    <2>1. file' = file /\ snaps' = snaps /\ past' = past /\ undone' = undone
      BY <1>2 DEF FsWrite
    <2>2. /\ op'[w].seen = file[p] /\ op'[w].path = p
          /\ \A x \in Writers \ {w} : Same(x)
      BY <1>2, FsWriteKeeps
    <2>3. (Busy(w) /\ op[w].seen # Absent => op[w].seen \in Known(SnapDir[op[w].path]))'
      BY <2>1, <2>2 DEF PastInv, Known
    <2> QED BY <1>1, <2>1, <2>2, <2>3, PastKept
  <1>3. ASSUME NEW w \in Writers, NEW p \in Paths, Undo(w, p) PROVE PastInv'
    <2>1. PICK s \in Latest(p) : Restore(w, p, s, "latest")
      BY <1>3 DEF Undo
    <2>2. s \in List(p)
      BY DEF Latest
    <2> QED BY <1>1, <2>1, <2>2, PastAfterRestore
  <1>4. ASSUME NEW w \in Writers, NEW p \in Paths, UndoTo(w, p) PROVE PastInv'
    <2>1. PICK s \in List(p) : Restore(w, p, s, "id")
      BY <1>4 DEF UndoTo
    <2> QED BY <1>1, <2>1, PastAfterRestore
  <1>5. ASSUME NEW w \in Writers, CallGoesOn(w) \/ CallFails(w) PROVE PastInv'
    BY <1>1, <1>5, PastAfterStep
  <1>6. CASE UNCHANGED <<file, snaps, past, undone, op>>
    BY <1>6 DEF PastInv, Known, Busy, UndoGoesBack
  <1>7. CASE Crash
    <2>1. \A x \in Writers : ~Busy(x)'
      BY <1>7 DEF Crash, NoCall, Busy
    <2>2. file' = file /\ snaps' = snaps /\ past' = past /\ undone' = undone
      BY <1>7 DEF Crash
    <2> QED BY <2>1, <2>2 DEF PastInv, Known, UndoGoesBack
  <1> QED BY <1>2, <1>3, <1>4, <1>5, <1>6, <1>7 DEF WSNext, wsVars, NextSecond

LEMMA PastInit == WSInit => PastInv
  <1> SUFFICES ASSUME WSInit PROVE PastInv
    OBVIOUS
  <1>1. WSTypeOK
    BY SafeInit DEF SafeInv
  <1>2. \A d \in Dirs :
           past[d] = ({file[p] : p \in {p \in Paths : SnapDir[p] = d}} \ {Absent})
                        \cup {s.content : s \in {s \in snaps : s.dir = d}}
    BY DEF WSInit
  <1>3. \A p \in Paths : file[p] # Absent => file[p] \in Known(SnapDir[p])
    BY <1>2, ContentsDistinct DEF Known
  <1>4. \A s \in snaps : s.content \in Known(s.dir)
    BY <1>1, <1>2 DEF WSTypeOK, Snap, Known
  <1>5. \A w \in Writers : ~Busy(w)
    BY DEF WSInit, NoCall, Busy
  <1>6. UndoGoesBack
    BY DEF WSInit, UndoGoesBack
  <1> QED BY <1>3, <1>4, <1>5, <1>6 DEF PastInv

(* What cap.fs.undo writes is a content that a file of that snapshot         *)
(* directory once had, or the empty content of an unfinished snapshot, and   *)
(* restore_latest never passes over a later second.                          *)
THEOREM UndoOnlyGoesBack == WSSpec => []UndoGoesBack
  <1>1. SafeInv /\ PastInv => UndoGoesBack
    BY DEF PastInv
  <1> QED BY <1>1, SafeInit, SafeStep, PastInit, PastStep, PTL DEF WSSpec

-----------------------------------------------------------------------------
(* The session.                                                            *)

LEMMA UIWrites == UI \in Writers /\ \A r \in Runs : r \in Writers
  BY TuiConstants

LEMMA StepIsWorkspaceStep == Next => WSNext \/ UNCHANGED wsVars
  <1> SUFFICES ASSUME Next PROVE WSNext \/ UNCHANGED wsVars
    OBVIOUS
  <1> USE UIWrites
  <1>1. CASE SlashUndo
    BY <1>1 DEF SlashUndo, DispatchCapability, WSNext
  <1>2. CASE RunAgent \/ SlashAnswer \/ SlashClear \/ CtrlC \/ CtrlL \/ Tab \/ Token \/ Finalize
    BY <1>2 DEF RunAgent, SlashAnswer, SlashClear, CtrlC, CtrlL, Tab, Token, Finalize
  <1>3. CASE Esc \/ Clock \/ UndoFails
    BY <1>3 DEF Esc, Clock, UndoFails, WSNext
  <1>4. ASSUME NEW r \in Runs, Express(r) \/ Complete(r) \/ Die(r) PROVE UNCHANGED wsVars
    BY <1>4 DEF Express, Complete, Die
  <1>5. ASSUME NEW r \in Runs, Act(r) PROVE WSNext
    <2>1. PICK p \in Paths : FsWrite(r, p, Draft)
      BY <1>5 DEF Act
    <2>2. Draft \in Values
      BY TuiConstants
    <2> QED BY <2>1, <2>2 DEF WSNext
  <1>6. ASSUME NEW w \in Writers, CallGoesOn(w) \/ CallFails(w) PROVE WSNext
    BY <1>6 DEF WSNext
  <1> QED
    BY <1>1, <1>2, <1>3, <1>4, <1>5, <1>6 DEF Next, Keys, FileFails, FileStep

(* A session of the terminal UI, with its runs and its /undo, does to the    *)
(* files and snapshots only what the cap.fs of module Workspace does.        *)
THEOREM SessionUsesWorkspace == Spec => WSSpec
  <1>1. Init => WSInit
    BY DEF Init
  <1>2. [Next]_vars => [WSNext]_wsVars
    BY StepIsWorkspaceStep DEF vars
  <1> QED BY <1>1, <1>2, PTL DEF Spec, WSSpec

(* In a session no lone write loses the content it replaces.                 *)
THEOREM SessionLosesNothing == Spec => []OverwrittenIsRecoverable
  BY SessionUsesWorkspace, OverwrittenStaysRecoverable, PTL

(* In a session /undo writes only what a file once had.                      *)
THEOREM SessionUndoGoesBack == Spec => []UndoGoesBack
  BY SessionUsesWorkspace, UndoOnlyGoesBack, PTL

-----------------------------------------------------------------------------
(* Runs that are alive.                                                    *)

AppType ==
    [mode: {"build", "plan"}, running: BOOLEAN, messages: Seq(MessageType), msg_idx: Nat,
     rx: Runs \cup {None}, thread_id: Runs \cup {None}, cancels: BOOLEAN, quit: BOOLEAN]

SpanType ==
    [status: {"none", "live", "done", "dead"}, mode: {"build", "plan"}, expressed: BOOLEAN,
     queued: BOOLEAN, writes: Nat, cancelled: BOOLEAN]

\* A live run that was not cancelled is the one that the UI is running.
RunInv ==
    /\ app \in AppType /\ span \in [Runs -> SpanType]
    /\ \A r \in Runs : span[r].status = "live" =>
          span[r].cancelled \/ (r = app.rx /\ r = app.thread_id /\ app.running)

LEMMA MessageTyped ==
    ASSUME NEW role \in {"user", "assistant", "error"}, NEW own \in Runs \cup {None}
    PROVE  Message(role, own) \in MessageType /\ <<Message(role, own)>> \in Seq(MessageType)
  BY DEF Message, MessageType

LEMMA SubmitTyped ==
    ASSUME app \in AppType, NEW reply \in Seq(MessageType)
    PROVE  Submit(reply) \in Seq(MessageType)
  <1>1. app.messages \in Seq(MessageType)
    BY DEF AppType
  <1>2. <<Message("user", None)>> \in Seq(MessageType)
    BY MessageTyped
  <1>3. app.messages \o <<Message("user", None)>> \in Seq(MessageType)
    BY <1>1, <1>2
  <1> QED BY <1>3 DEF Submit

LEMMA AnsweredTyped ==
    ASSUME app \in AppType,
           \/ \E role \in {"assistant", "error"} : Answered(<<Message(role, None)>>)
           \/ Answered(<<>>)
    PROVE  app' \in AppType /\ \E l \in Seq(MessageType) : app' = [app EXCEPT !.messages = l]
  <1>1. \E l \in Seq(MessageType) : app' = [app EXCEPT !.messages = l]
    <2>1. CASE Answered(<<>>)
      <3>1. <<>> \in Seq(MessageType)
        OBVIOUS
      <3> QED BY <2>1, <3>1, SubmitTyped DEF Answered
    <2>2. CASE \E role \in {"assistant", "error"} : Answered(<<Message(role, None)>>)
      <3>1. PICK role \in {"assistant", "error"} : Answered(<<Message(role, None)>>)
        BY <2>2
      <3>2. Submit(<<Message(role, None)>>) \in Seq(MessageType)
        BY MessageTyped, SubmitTyped
      <3> QED BY <3>1, <3>2 DEF Answered
    <2> QED BY <2>1, <2>2
  <1> QED BY <1>1 DEF AppType

LEMMA NewTyped ==
    NewApp \in AppType /\ Task \in SpanType /\ Task.status = "none" /\ <<>> \in Seq(MessageType)
  BY DEF NewApp, AppType, Task, SpanType, None

\* One task changes, and stays a task.
LEMMA SpanUpdated ==
    ASSUME span \in [Runs -> SpanType], NEW r \in Runs, NEW t \in SpanType,
           span' = [span EXCEPT ![r] = t]
    PROVE  /\ span' \in [Runs -> SpanType] /\ span'[r] = t
           /\ \A x \in Runs \ {r} : span'[x] = span[x]
  OBVIOUS

LEMMA RunInit == Init => RunInv
  <1> SUFFICES ASSUME Init PROVE RunInv
    OBVIOUS
  <1>1. app = NewApp /\ span = [r \in Runs |-> Task]
    BY DEF Init
  <1> QED BY <1>1, NewTyped DEF RunInv

\* finalize_span changes only what a message shows.
LEMMA FinalizeTyped ==
    ASSUME app \in AppType, Finalize
    PROVE  /\ app' \in AppType /\ app'.rx = None /\ app'.running = FALSE
           /\ app'.cancels = app.cancels
           /\ Len(app'.messages) = Len(app.messages)
           /\ \A i \in 1 .. Len(app.messages) :
                 /\ app'.messages[i].own = app.messages[i].own
                 /\ \/ app'.messages[i].shows = app.messages[i].shows
                    \/ i \in LastAssistant /\ app'.messages[i].shows = {app.rx}
  <1> DEFINE filled == IF span[app.rx].expressed THEN LastAssistant ELSE {}
             msgs == [i \in DOMAIN app.messages |->
                        IF i \in filled THEN [app.messages[i] EXCEPT !.shows = {app.rx}]
                        ELSE app.messages[i]]
  <1>1. /\ app' = [app EXCEPT !.msg_idx = None, !.rx = None, !.running = FALSE,
                              !.messages = msgs]
        /\ app.rx # None
    BY DEF Finalize
  <1>2. app.messages \in Seq(MessageType) /\ app.rx \in Runs
    BY <1>1 DEF AppType
  <1>3. \A i \in 1 .. Len(app.messages) :
           /\ msgs[i] \in MessageType /\ msgs[i].own = app.messages[i].own
           /\ \/ msgs[i].shows = app.messages[i].shows
              \/ i \in filled /\ msgs[i].shows = {app.rx}
    <2> TAKE i \in 1 .. Len(app.messages)
    <2>1. app.messages[i] \in MessageType /\ i \in DOMAIN app.messages
      BY <1>2
    <2>2. CASE i \in filled
      <3>1. msgs[i] = [app.messages[i] EXCEPT !.shows = {app.rx}]
        BY <2>1, <2>2
      <3> HIDE DEF msgs, filled
      <3> QED BY <1>2, <2>1, <2>2, <3>1 DEF MessageType
    <2>3. CASE i \notin filled
      BY <2>1, <2>3
    <2> QED BY <2>2, <2>3
  <1>4. msgs \in Seq(MessageType) /\ Len(msgs) = Len(app.messages)
    <2>1. DOMAIN app.messages = 1 .. Len(app.messages) /\ Len(app.messages) \in Nat
      BY <1>2
    <2>2. msgs \in [1 .. Len(app.messages) -> MessageType]
      BY <1>3, <2>1
    <2> HIDE DEF msgs
    <2> QED BY <2>1, <2>2
  <1> HIDE DEF msgs
  <1>5. /\ app' \in AppType /\ app'.rx = None /\ app'.running = FALSE
        /\ app'.cancels = app.cancels /\ app'.messages = msgs
    BY <1>1, <1>4 DEF AppType, None
  <1> QED BY <1>3, <1>4, <1>5

LEMMA TokenTyped ==
    ASSUME app \in AppType, Token
    PROVE  /\ app' \in AppType /\ app'.rx = app.rx /\ app'.running = app.running
           /\ app'.thread_id = app.thread_id /\ app'.cancels = app.cancels
           /\ app'.msg_idx = app.msg_idx /\ Len(app'.messages) = Len(app.messages)
           /\ \A i \in 1 .. Len(app.messages) :
                 /\ app'.messages[i].own = app.messages[i].own
                 /\ app'.messages[i].role = app.messages[i].role
                 /\ \/ app'.messages[i].shows = app.messages[i].shows
                    \/ i = app.msg_idx /\ app'.messages[i].shows = app.messages[i].shows \cup {app.rx}
  <1> DEFINE k == app.msg_idx
             m == [app.messages[k] EXCEPT !.shows = @ \cup {app.rx}]
             msgs == [app.messages EXCEPT ![k] = m]
  <1>1. app.messages \in Seq(MessageType) /\ app.rx \in Runs /\ k \in Nat
    BY DEF AppType, Token
  <1>2. CASE app' = app
    BY <1>2
  <1>3. CASE k # None /\ k <= Len(app.messages) /\ app' = [app EXCEPT !.messages = msgs]
    <2>1. k \in 1 .. Len(app.messages)
      BY <1>1, <1>3 DEF None
    <2>2. app.messages[k] \in MessageType
      BY <1>1, <2>1
    <2>3. /\ m \in MessageType /\ m.own = app.messages[k].own /\ m.role = app.messages[k].role
          /\ m.shows = app.messages[k].shows \cup {app.rx}
      BY <1>1, <2>2 DEF MessageType
    <2> HIDE DEF m
    <2>4. /\ msgs \in Seq(MessageType) /\ Len(msgs) = Len(app.messages)
          /\ msgs[k] = m /\ \A i \in 1 .. Len(app.messages) : i # k => msgs[i] = app.messages[i]
      BY <1>1, <2>1, <2>3
    <2> HIDE DEF msgs
    <2>5. /\ app' \in AppType /\ app'.rx = app.rx /\ app'.running = app.running
          /\ app'.thread_id = app.thread_id /\ app'.cancels = app.cancels
          /\ app'.msg_idx = app.msg_idx /\ app'.messages = msgs
      BY <1>3, <2>4 DEF AppType
    <2> QED BY <2>3, <2>4, <2>5
  <1> QED BY <1>2, <1>3 DEF Token

LEMMA UndoFailsTyped ==
    ASSUME app \in AppType, UndoFails
    PROVE  /\ app' \in AppType /\ app'.rx = app.rx /\ app'.running = app.running
           /\ app'.thread_id = app.thread_id /\ app'.cancels = app.cancels
           /\ Len(app'.messages) = Len(app.messages)
           /\ \A i \in 1 .. Len(app.messages) :
                 /\ app'.messages[i].own = app.messages[i].own
                 /\ app'.messages[i].shows = app.messages[i].shows
  <1> DEFINE k == Len(app.messages)
             m == [app.messages[k] EXCEPT !.role = "error"]
             msgs == [app.messages EXCEPT ![k] = m]
  <1>1. app.messages \in Seq(MessageType) /\ k \in Nat
    BY DEF AppType
  <1>2. app' = [app EXCEPT !.messages = msgs]
    BY DEF UndoFails
  <1>3. /\ msgs \in Seq(MessageType) /\ Len(msgs) = k
        /\ \A i \in 1 .. k : /\ msgs[i].own = app.messages[i].own
                             /\ msgs[i].shows = app.messages[i].shows
    <2>1. CASE k = 0
      <3> HIDE DEF m
      <3>1. DOMAIN app.messages = {} /\ DOMAIN msgs = DOMAIN app.messages
        BY <1>1, <2>1
      <3>2. msgs = app.messages
        BY <1>1, <3>1
      <3> QED BY <1>1, <3>2
    <2>2. CASE k # 0
      <3>1. k \in 1 .. k /\ app.messages[k] \in MessageType
        BY <1>1, <2>2
      <3>2. m \in MessageType /\ m.own = app.messages[k].own /\ m.shows = app.messages[k].shows
        BY <3>1 DEF MessageType
      <3> HIDE DEF m
      <3>3. /\ msgs \in Seq(MessageType) /\ Len(msgs) = k /\ msgs[k] = m
            /\ \A i \in 1 .. k : i # k => msgs[i] = app.messages[i]
        BY <1>1, <3>1, <3>2
      <3> QED BY <3>2, <3>3
    <2> QED BY <2>1, <2>2
  <1> HIDE DEF msgs
  <1>4. /\ app' \in AppType /\ app'.rx = app.rx /\ app'.running = app.running
        /\ app'.thread_id = app.thread_id /\ app'.cancels = app.cancels
        /\ app'.messages = msgs
    BY <1>2, <1>3 DEF AppType
  <1> QED BY <1>3, <1>4

LEMMA RunStep == RunInv /\ [Next]_vars => RunInv'
  <1> SUFFICES ASSUME RunInv, [Next]_vars PROVE RunInv'
    OBVIOUS
  <1> USE DEF RunInv
  <1>1. CASE RunAgent
    <2>1. PICK r \in Runs :
             /\ app' = [app EXCEPT !.running = TRUE, !.thread_id = r, !.rx = r,
                                   !.messages = Submit(<<Message("assistant", r)>>),
                                   !.msg_idx = Len(app.messages) + 2]
             /\ span' = [span EXCEPT ![r].status = "live", ![r].mode = app.mode]
      BY <1>1 DEF RunAgent
    <2>2. ~app.running
      BY <1>1 DEF RunAgent, CanEnter
    <2>3. Submit(<<Message("assistant", r)>>) \in Seq(MessageType)
      BY MessageTyped, SubmitTyped
    <2>4. app' \in AppType /\ app'.running /\ app'.thread_id = r /\ app'.rx = r
      <3>1. app.messages \in Seq(MessageType)
        BY DEF AppType
      <3>2. Len(app.messages) + 2 \in Nat
        BY <3>1
      <3> QED BY <2>1, <2>3, <3>2 DEF AppType
    <2> DEFINE t == [span[r] EXCEPT !.status = "live", !.mode = app.mode]
    <2>5. t \in SpanType /\ span' = [span EXCEPT ![r] = t]
      BY <2>1 DEF SpanType, AppType
    <2> HIDE DEF t
    <2>6. span' \in [Runs -> SpanType] /\ \A x \in Runs \ {r} : span'[x] = span[x]
      BY <2>5, SpanUpdated
    <2> QED BY <2>2, <2>4, <2>6
  <1>2. CASE /\ span' = span /\ app' \in AppType /\ app'.rx = app.rx
             /\ app'.thread_id = app.thread_id /\ app'.running = app.running
    BY <1>2
  <1>3. CASE CtrlC
    <2>1. /\ app.thread_id # None
          /\ app' = [app EXCEPT !.running = FALSE, !.cancels = TRUE]
          /\ span' = IF span[app.thread_id].status = "live"
                     THEN [span EXCEPT ![app.thread_id].cancelled = TRUE] ELSE span
      BY <1>3 DEF CtrlC
    <2>2. app' \in AppType
      BY <2>1 DEF AppType
    <2>3. CASE span[app.thread_id].status # "live"
      BY <2>1, <2>2, <2>3
    <2>4. CASE span[app.thread_id].status = "live"
      <3> DEFINE r == app.thread_id
                 t == [span[r] EXCEPT !.cancelled = TRUE]
      <3>1. r \in Runs
        BY <2>1 DEF AppType
      <3>2. t \in SpanType /\ t.cancelled /\ span' = [span EXCEPT ![r] = t]
        <4>1. span' = [span EXCEPT ![r] = t]
          BY <2>1, <2>4
        <4>2. span[r] \in SpanType
          BY <3>1
        <4> HIDE DEF RunInv, r
        <4>3. t \in SpanType /\ t.cancelled
          BY <4>2 DEF SpanType
        <4> QED BY <4>1, <4>3
      <3> HIDE DEF t, r
      <3>3. /\ span' \in [Runs -> SpanType] /\ span'[r].cancelled
            /\ \A x \in Runs \ {r} : span'[x] = span[x]
        BY <3>1, <3>2, SpanUpdated
      <3> QED BY <2>2, <3>3 DEF r
    <2> QED BY <2>3, <2>4
  <1>4. CASE Esc
    <2>1. app' = [NewApp EXCEPT !.quit = TRUE] /\ span' = [r \in Runs |-> Task]
      BY <1>4 DEF Esc
    <2>2. app' \in AppType
      BY <2>1, NewTyped DEF AppType
    <2> QED BY <2>1, <2>2, NewTyped
  <1>5. CASE Token
    <2> DEFINE r == app.rx
               t == [span[r] EXCEPT !.queued = FALSE]
    <2>1. r \in Runs /\ span' = [span EXCEPT ![r] = t]
      BY <1>5 DEF Token, AppType
    <2>2. t \in SpanType /\ t.status = span[r].status /\ t.cancelled = span[r].cancelled
      <3>1. span[r] \in SpanType
        BY <2>1
      <3> HIDE DEF r, RunInv
      <3> QED BY <3>1 DEF SpanType
    <2> HIDE DEF t, r
    <2>3. /\ span' \in [Runs -> SpanType] /\ span'[r] = t
          /\ \A x \in Runs \ {r} : span'[x] = span[x]
      BY <2>1, <2>2, SpanUpdated
    <2> QED BY <1>5, <2>2, <2>3, TokenTyped
  <1>6. CASE Finalize
    <2>1. app.rx # None /\ span[app.rx].status = "done" /\ span' = span
      BY <1>6 DEF Finalize
    <2> QED BY <1>6, <2>1, FinalizeTyped
  <1>7. ASSUME NEW r \in Runs, Express(r) \/ Act(r) \/ Complete(r) \/ Die(r) PROVE RunInv'
    <2>1. PICK t \in SpanType :
             /\ span' = [span EXCEPT ![r] = t]
             /\ t.status = "live" => span[r].status = "live"
             /\ t.cancelled = span[r].cancelled
      <3>1. span[r] \in SpanType
        OBVIOUS
      <3>2. CASE Express(r)
        <4>1. [span[r] EXCEPT !.expressed = TRUE, !.queued = TRUE] \in SpanType
          BY <3>1 DEF SpanType
        <4> QED BY <3>1, <3>2, <4>1 DEF Express, SpanType
      <3>3. CASE Act(r)
        <4>1. [span[r] EXCEPT !.writes = @ + 1] \in SpanType
          BY <3>1 DEF SpanType
        <4> QED BY <3>1, <3>3, <4>1 DEF Act, SpanType
      <3>4. CASE Complete(r)
        <4>1. [span[r] EXCEPT !.status = "done"] \in SpanType
          BY <3>1 DEF SpanType
        <4> QED BY <3>1, <3>4, <4>1 DEF Complete, SpanType
      <3>5. CASE Die(r)
        <4>1. [span[r] EXCEPT !.status = "dead"] \in SpanType
          BY <3>1 DEF SpanType
        <4> QED BY <3>1, <3>5, <4>1 DEF Die, SpanType
      <3> QED BY <1>7, <3>2, <3>3, <3>4, <3>5
    <2>2. app' = app
      BY <1>7 DEF Express, Act, Complete, Die
    <2>3. /\ span' \in [Runs -> SpanType] /\ span'[r] = t
          /\ \A x \in Runs \ {r} : span'[x] = span[x]
      BY <2>1, SpanUpdated
    <2> QED BY <2>1, <2>2, <2>3
  <1>8. CASE SlashUndo \/ SlashAnswer \/ SlashClear \/ CtrlL \/ Tab
    <2>1. span' = span
      BY <1>8 DEF SlashUndo, SlashAnswer, SlashClear, CtrlL, Tab
    <2>2. CASE Tab
      BY <1>2, <2>1, <2>2 DEF Tab, AppType
    <2>3. CASE SlashClear \/ CtrlL
      BY <1>2, <2>1, <2>3, NewTyped DEF SlashClear, CtrlL, AppType
    <2>4. CASE SlashUndo \/ SlashAnswer
      <3>1. \/ \E role \in {"assistant", "error"} : Answered(<<Message(role, None)>>)
            \/ Answered(<<>>)
        BY <2>4 DEF SlashUndo, SlashAnswer, SlashList, SlashHelp, SlashOther
      <3>2. \E l \in Seq(MessageType) : app' = [app EXCEPT !.messages = l]
        BY <3>1, AnsweredTyped
      <3> QED BY <1>2, <2>1, <3>2 DEF AppType
    <2> QED BY <1>8, <2>2, <2>3, <2>4
  <1>9. CASE UndoFails
    <2>1. span' = span
      BY <1>9 DEF UndoFails
    <2> QED BY <1>2, <1>9, <2>1, UndoFailsTyped
  <1>10. CASE UNCHANGED <<app, span>>
    BY <1>2, <1>10
  <1> QED
    BY <1>1, <1>3, <1>4, <1>5, <1>6, <1>7, <1>8, <1>9, <1>10
       DEF Next, Keys, Clock, FileFails, FileStep, vars, tuiVars

(* Whatever keys are pressed and however the runs go on behind the UI, a run *)
(* that is alive and not shown is one whose cancellation was asked for.      *)
THEOREM LiveRunsAreAccounted == Spec => []LiveRunsAreCurrentOrCancelled
  <1>1. RunInv => LiveRunsAreCurrentOrCancelled
    BY DEF RunInv, LiveRunsAreCurrentOrCancelled
  <1> QED BY <1>1, RunInit, RunStep, PTL DEF Spec

-----------------------------------------------------------------------------
(* What the transcript shows.                                              *)

ShowsOwn(m) == m.shows \subseteq (IF m.own = None THEN {} ELSE {m.own})

(* Without Ctrl-C, a run whose channels the UI holds is the one it is        *)
(* running, and its message is the last one, unless the transcript was       *)
(* cleared; /undo is not under way then.                                     *)
FaithInv ==
    ~app.cancels =>
        /\ app.rx # None =>
              /\ app.running /\ op[UI].at = "idle"
              /\ \/ Len(app.messages) = 0
                 \/ /\ Len(app.messages) # 0 /\ app.msg_idx = Len(app.messages)
                    /\ app.messages[Len(app.messages)].own = app.rx
                    /\ app.messages[Len(app.messages)].role = "assistant"
        /\ \A i \in 1 .. Len(app.messages) : ShowsOwn(app.messages[i])

\* The runs and the clock do not make the UI busy.
LEMMA UIStaysIdle ==
    ASSUME SafeInv, op[UI].at = "idle",
           \/ UNCHANGED wsVars \/ Clock
           \/ \E r \in Runs : Act(r) \/ FileFails(r)
           \/ \E w \in Writers : FileStep(w)
    PROVE  op'[UI].at = "idle"
  <1>1. UI \in Writers /\ \A r \in Runs : r \in Writers /\ r # UI
    BY TuiConstants
  <1>2. CASE UNCHANGED wsVars \/ Clock
    BY <1>2 DEF wsVars, Clock, NextSecond
  <1>3. ASSUME NEW r \in Runs, Act(r) PROVE op'[UI].at = "idle"
    <2>1. PICK p \in Paths : FsWrite(r, p, Draft)
      BY <1>3 DEF Act
    <2>2. Same(UI)
      BY <1>1, <2>1, TuiConstants, FsWriteKeeps
    <2> QED BY <2>2 DEF Same
  <1>4. ASSUME NEW w \in Writers, CallGoesOn(w) \/ CallFails(w) PROVE op'[UI].at = "idle"
    <2>1. w # UI
      BY <1>4 DEF CallGoesOn, SnapOpen, SnapFill, Truncate, Put, CallFails
    <2>2. Same(UI)
      BY <1>1, <1>4, <2>1, SnapOpenKeeps, SnapFillKeeps, TruncateKeeps, PutKeeps, CallFailsKeeps
         DEF CallGoesOn
    <2> QED BY <2>2 DEF Same
  <1> QED BY <1>1, <1>2, <1>3, <1>4 DEF FileFails, FileStep

LEMMA SubmitShows ==
    ASSUME app \in AppType, NEW reply \in Seq(MessageType),
           \A i \in 1 .. Len(app.messages) : ShowsOwn(app.messages[i]),
           \A i \in 1 .. Len(reply) : ShowsOwn(reply[i])
    PROVE  /\ Len(Submit(reply)) = Len(app.messages) + 1 + Len(reply)
           /\ \A i \in 1 .. Len(reply) : Submit(reply)[Len(app.messages) + 1 + i] = reply[i]
           /\ \A i \in 1 .. Len(Submit(reply)) : ShowsOwn(Submit(reply)[i])
  <1> DEFINE u == Message("user", None)
             l == app.messages
             k == l \o <<u>>
             s == k \o reply
  <1>1. l \in Seq(MessageType) /\ u \in MessageType /\ ShowsOwn(u)
    BY MessageTyped DEF AppType, Message, ShowsOwn
  <1> HIDE DEF l, u
  <1>2. k \in Seq(MessageType) /\ Len(k) = Len(l) + 1 /\ k[Len(l) + 1] = u
        /\ \A i \in 1 .. Len(l) : k[i] = l[i]
    BY <1>1
  <1>3. \A i \in 1 .. Len(k) : ShowsOwn(k[i])
    BY <1>1, <1>2 DEF l
  <1> HIDE DEF k
  <1>4. /\ s \in Seq(MessageType) /\ Len(s) = Len(k) + Len(reply)
        /\ \A i \in 1 .. Len(k) : s[i] = k[i]
        /\ \A i \in 1 .. Len(reply) : s[Len(k) + i] = reply[i]
    <2>1. s \in Seq(MessageType) /\ Len(s) = Len(k) + Len(reply)
      BY <1>2, SMTT(30)
    <2>2. \A i \in 1 .. Len(k) + Len(reply) : s[i] = IF i <= Len(k) THEN k[i] ELSE reply[i - Len(k)]
      BY <1>2
    <2>3. Len(k) \in Nat /\ Len(reply) \in Nat
      BY <1>2
    <2> HIDE DEF s
    <2>4. \A i \in 1 .. Len(k) : s[i] = k[i]
      BY <2>2, <2>3
    <2>5. ASSUME NEW i \in 1 .. Len(reply) PROVE s[Len(k) + i] = reply[i]
      <3>1. /\ Len(k) + i \in 1 .. Len(k) + Len(reply) /\ ~(Len(k) + i <= Len(k))
            /\ (Len(k) + i) - Len(k) = i
        BY <2>3
      <3> QED BY <2>2, <3>1
    <2> QED BY <2>1, <2>4, <2>5
  <1> HIDE DEF s
  <1>5. ASSUME NEW i \in 1 .. Len(s) PROVE ShowsOwn(s[i])
    <2>1. CASE i \in 1 .. Len(k)
      BY <1>3, <1>4, <2>1
    <2>2. CASE i \notin 1 .. Len(k)
      <3>1. i - Len(k) \in 1 .. Len(reply) /\ i = Len(k) + (i - Len(k))
        BY <1>2, <1>4, <2>2
      <3>2. s[i] = reply[i - Len(k)]
        BY <1>4, <3>1
      <3> QED BY <3>1, <3>2
    <2> QED BY <2>1, <2>2
  <1>6. s = Submit(reply)
    BY DEF s, k, l, u, Submit
  <1>7. Len(s) = Len(l) + 1 + Len(reply)
    BY <1>2, <1>4
  <1> QED BY <1>2, <1>4, <1>5, <1>6, <1>7 DEF l

LEMMA FaithStep == SafeInv /\ RunInv /\ FaithInv /\ [Next]_vars => FaithInv'
  <1> SUFFICES ASSUME SafeInv, RunInv, FaithInv, [Next]_vars, ~app'.cancels PROVE FaithInv'
    BY DEF FaithInv
  <1>1. app \in AppType /\ app.messages \in Seq(MessageType) /\ Len(app.messages) \in Nat
        /\ 0 \notin Runs
    BY TuiConstants DEF RunInv, AppType
  <1>2. CASE RunAgent
    <2>1. PICK r \in Runs :
             /\ app' = [app EXCEPT !.running = TRUE, !.thread_id = r, !.rx = r,
                                   !.messages = Submit(<<Message("assistant", r)>>),
                                   !.msg_idx = Len(app.messages) + 2]
      BY <1>2 DEF RunAgent
    <2> DEFINE reply == <<Message("assistant", r)>>
    <2>2. /\ app'.running /\ app'.rx = r /\ app'.messages = Submit(reply)
          /\ app'.msg_idx = Len(app.messages) + 2 /\ app'.cancels = app.cancels
      BY <1>1, <2>1 DEF AppType
    <2>3. op'[UI].at = "idle"
      BY <1>2 DEF RunAgent, CanEnter, UIFree, wsVars
    <2>4. /\ reply \in Seq(MessageType) /\ Len(reply) = 1 /\ reply[1] = Message("assistant", r)
      BY MessageTyped
    <2>5. /\ Message("assistant", r).own = r /\ Message("assistant", r).role = "assistant"
          /\ ShowsOwn(Message("assistant", r))
      BY DEF Message, ShowsOwn
    <2> HIDE DEF reply
    <2>6. \A i \in 1 .. Len(app.messages) : ShowsOwn(app.messages[i])
      BY <2>2 DEF FaithInv
    <2>7. /\ Len(Submit(reply)) = Len(app.messages) + 1 + Len(reply)
          /\ \A i \in 1 .. Len(reply) : Submit(reply)[Len(app.messages) + 1 + i] = reply[i]
          /\ \A i \in 1 .. Len(Submit(reply)) : ShowsOwn(Submit(reply)[i])
      <3>1. \A i \in 1 .. Len(reply) : ShowsOwn(reply[i])
        BY <2>4, <2>5
      <3> QED BY <1>1, <2>4, <2>6, <3>1, SubmitShows
    <2>8. /\ Len(Submit(reply)) = Len(app.messages) + 2 /\ Len(Submit(reply)) # 0
          /\ Submit(reply)[Len(app.messages) + 2] = Message("assistant", r)
      <3>1. 1 \in 1 .. Len(reply) /\ Len(app.messages) + 1 + 1 = Len(app.messages) + 2
        BY <1>1, <2>4
      <3> QED BY <1>1, <2>4, <2>7, <3>1
    <2> QED BY <2>2, <2>3, <2>5, <2>7, <2>8 DEF FaithInv
  <1>3. CASE SlashUndo \/ SlashAnswer
    <2>1. PICK reply : /\ Answered(reply) /\ reply \in Seq(MessageType)
                       /\ \A i \in 1 .. Len(reply) : ShowsOwn(reply[i])
      <3>1. \A role \in {"assistant", "error"} :
               /\ <<Message(role, None)>> \in Seq(MessageType)
               /\ \A i \in 1 .. Len(<<Message(role, None)>>) : ShowsOwn(<<Message(role, None)>>[i])
        <4> TAKE role \in {"assistant", "error"}
        <4>1. ShowsOwn(Message(role, None))
          BY DEF Message, ShowsOwn
        <4> QED BY <4>1, MessageTyped
      <3>2. <<>> \in Seq(MessageType) /\ \A i \in 1 .. Len(<<>>) : ShowsOwn(<<>>[i])
        OBVIOUS
      <3>3. \/ \E role \in {"assistant", "error"} : Answered(<<Message(role, None)>>)
            \/ Answered(<<>>)
        BY <1>3 DEF SlashUndo, SlashAnswer, SlashList, SlashHelp, SlashOther
      <3> QED BY <3>1, <3>2, <3>3
    <2>2. app'.messages = Submit(reply) /\ app'.rx = app.rx /\ app'.cancels = app.cancels
      BY <1>1, <2>1 DEF Answered, AppType
    <2>3. app.rx = None
      BY <1>3, <2>2 DEF SlashUndo, SlashAnswer, CanEnter, FaithInv
    <2>4. \A i \in 1 .. Len(Submit(reply)) : ShowsOwn(Submit(reply)[i])
      BY <1>1, <2>1, <2>2, SubmitShows DEF FaithInv
    <2> QED BY <2>2, <2>3, <2>4 DEF FaithInv
  <1>4. CASE SlashClear \/ CtrlL
    <2>1. app' = [app EXCEPT !.messages = <<>>] /\ UNCHANGED wsVars
      BY <1>4 DEF SlashClear, CtrlL
    <2>2. /\ app'.messages = <<>> /\ app'.rx = app.rx /\ app'.cancels = app.cancels
          /\ app'.running = app.running /\ op' = op
      BY <1>1, <2>1 DEF AppType, wsVars
    <2>3. Len(app'.messages) = 0
      BY <2>2
    <2> QED BY <2>2, <2>3 DEF FaithInv
  <1>5. CASE CtrlC
    BY <1>1, <1>5 DEF CtrlC, AppType
  <1>6. CASE Tab
    <2>1. /\ app'.messages = app.messages /\ app'.rx = app.rx /\ app'.cancels = app.cancels
          /\ app'.running = app.running /\ app'.msg_idx = app.msg_idx /\ op' = op
      BY <1>1, <1>6 DEF Tab, AppType, wsVars
    <2> QED BY <2>1 DEF FaithInv
  <1>7. CASE Esc
    <2>1. app' = [NewApp EXCEPT !.quit = TRUE]
      BY <1>7 DEF Esc
    <2>2. app'.rx = None /\ app'.messages = <<>>
      BY <2>1 DEF NewApp
    <2>3. Len(app'.messages) = 0
      BY <2>2
    <2> QED BY <2>2, <2>3 DEF FaithInv
  <1>8. CASE Token
    <2>1. app.rx # None /\ app.rx \in Runs /\ op' = op
      BY <1>1, <1>8 DEF Token, AppType, wsVars
    <2>2. app'.cancels = app.cancels
      BY <1>1, <1>8, TokenTyped
    <2>3. /\ app.running /\ op[UI].at = "idle"
          /\ \/ Len(app.messages) = 0
             \/ /\ Len(app.messages) # 0 /\ app.msg_idx = Len(app.messages)
                /\ app.messages[Len(app.messages)].own = app.rx
                /\ app.messages[Len(app.messages)].role = "assistant"
          /\ \A i \in 1 .. Len(app.messages) : ShowsOwn(app.messages[i])
      BY <2>1, <2>2 DEF FaithInv
    <2>4. ASSUME NEW i \in 1 .. Len(app'.messages) PROVE ShowsOwn(app'.messages[i])
      <3>1. i \in 1 .. Len(app.messages) /\ app'.messages[i].own = app.messages[i].own
        BY <1>1, <1>8, TokenTyped
      <3>2. CASE app'.messages[i].shows = app.messages[i].shows
        BY <2>3, <3>1, <3>2 DEF ShowsOwn
      <3>3. CASE i = app.msg_idx /\ app'.messages[i].shows = app.messages[i].shows \cup {app.rx}
        <4>1. app.messages[i].own = app.rx /\ ShowsOwn(app.messages[i])
          BY <1>1, <2>3, <3>1, <3>3
        <4> QED BY <2>1, <3>1, <3>3, <4>1 DEF ShowsOwn
      <3> QED BY <1>1, <1>8, <3>1, <3>2, <3>3, TokenTyped
    <2>5. Len(app.messages) # 0 => Len(app.messages) \in 1 .. Len(app.messages)
      BY <1>1
    <2>6. /\ app'.rx = app.rx /\ app'.running = app.running /\ app'.msg_idx = app.msg_idx
          /\ Len(app'.messages) = Len(app.messages)
          /\ Len(app.messages) # 0 =>
                /\ app'.messages[Len(app.messages)].own = app.messages[Len(app.messages)].own
                /\ app'.messages[Len(app.messages)].role = app.messages[Len(app.messages)].role
      BY <1>1, <1>8, <2>5, TokenTyped
    <2> QED BY <2>1, <2>3, <2>4, <2>6 DEF FaithInv
  <1>9. CASE Finalize
    <2>1. app.rx # None
      BY <1>9 DEF Finalize
    <2>2. app'.cancels = app.cancels /\ app'.rx = None
      BY <1>1, <1>9, FinalizeTyped
    <2>3. /\ \/ Len(app.messages) = 0
             \/ /\ app.messages[Len(app.messages)].own = app.rx
                /\ app.messages[Len(app.messages)].role = "assistant"
          /\ \A i \in 1 .. Len(app.messages) : ShowsOwn(app.messages[i])
      BY <2>1, <2>2 DEF FaithInv
    <2>4. ASSUME NEW i \in 1 .. Len(app'.messages) PROVE ShowsOwn(app'.messages[i])
      <3>1. i \in 1 .. Len(app.messages) /\ app'.messages[i].own = app.messages[i].own
        BY <1>1, <1>9, FinalizeTyped
      <3>2. CASE app'.messages[i].shows = app.messages[i].shows
        BY <2>3, <3>1, <3>2 DEF ShowsOwn
      <3>3. CASE i \in LastAssistant /\ app'.messages[i].shows = {app.rx}
        <4>1. i = Len(app.messages)
          <5> SUFFICES ASSUME i # Len(app.messages) PROVE FALSE
            OBVIOUS
          <5>1. Len(app.messages) \in i + 1 .. Len(app.messages) /\ Len(app.messages) # 0
            BY <1>1, <3>1
          <5>2. app.messages[Len(app.messages)].role # "assistant"
            BY <3>3, <5>1 DEF LastAssistant
          <5> QED BY <2>3, <5>1, <5>2
        <4>2. app.messages[i].own = app.rx
          BY <1>1, <2>3, <3>1, <4>1
        <4> QED BY <2>1, <3>1, <3>3, <4>2 DEF ShowsOwn
      <3> QED BY <1>1, <1>9, <3>1, <3>2, <3>3, FinalizeTyped
    <2> QED BY <2>2, <2>4 DEF FaithInv
  <1>10. CASE UndoFails
    <2>1. op[UI].at # "idle"
      BY <1>10 DEF UndoFails, CallFails
    <2>2. app'.cancels = app.cancels /\ app'.rx = app.rx
      BY <1>1, <1>10, UndoFailsTyped
    <2>3. app.rx = None /\ \A i \in 1 .. Len(app.messages) : ShowsOwn(app.messages[i])
      BY <2>1, <2>2 DEF FaithInv
    <2>4. \A i \in 1 .. Len(app'.messages) : ShowsOwn(app'.messages[i])
      BY <1>1, <1>10, <2>3, UndoFailsTyped DEF ShowsOwn
    <2> QED BY <2>2, <2>3, <2>4 DEF FaithInv
  <1>11. CASE /\ app' = app
              /\ \/ UNCHANGED wsVars \/ Clock
                 \/ \E r \in Runs : Act(r) \/ FileFails(r)
                 \/ \E w \in Writers : FileStep(w)
    <2>1. op[UI].at = "idle" => op'[UI].at = "idle"
      BY <1>11, UIStaysIdle
    <2> QED BY <1>11, <2>1 DEF FaithInv
  <1>12. ASSUME NEW r \in Runs, Express(r) \/ Complete(r) \/ Die(r) PROVE app' = app /\ UNCHANGED wsVars
    BY <1>12 DEF Express, Complete, Die
  <1>13. ASSUME NEW r \in Runs, Act(r) \/ FileFails(r) PROVE app' = app
    BY <1>13 DEF Act, FileFails, tuiVars
  <1>14. ASSUME Clock \/ (\E w \in Writers : FileStep(w)) PROVE app' = app
    BY <1>14 DEF Clock, FileStep, tuiVars
  <1>15. ASSUME UNCHANGED vars PROVE app' = app /\ UNCHANGED wsVars
    BY <1>15 DEF vars, tuiVars
  <1> QED
    BY <1>2, <1>3, <1>4, <1>5, <1>6, <1>7, <1>8, <1>9, <1>10, <1>11, <1>12, <1>13, <1>14, <1>15
       DEF Next, Keys

LEMMA FaithInit == Init => FaithInv
  <1> SUFFICES ASSUME Init PROVE FaithInv
    OBVIOUS
  <1>1. app.rx = None /\ app.messages = <<>>
    BY DEF Init, NewApp
  <1>2. Len(app.messages) = 0
    BY <1>1
  <1> QED BY <1>1, <1>2 DEF FaithInv

(* Until Ctrl-C is pressed, no message of the transcript shows the text of a *)
(* run other than its own: run_agent, the token arm and finalize_span agree  *)
(* on the message, also when the transcript is cleared during the run.       *)
THEOREM TranscriptStaysFaithful == Spec => []TranscriptIsFaithful
  <1>1. RunInv /\ FaithInv => TranscriptIsFaithful
    <2> SUFFICES ASSUME RunInv, FaithInv PROVE TranscriptIsFaithful
      OBVIOUS
    <2>1. DOMAIN app.messages = 1 .. Len(app.messages)
      BY DEF RunInv, AppType
    <2> QED BY <2>1 DEF FaithInv, TranscriptIsFaithful, ShowsOwn
  <1>2. Init => SafeInv
    BY SafeInit DEF Init
  <1>3. SafeInv /\ [Next]_vars => SafeInv'
    BY SafeStep, StepIsWorkspaceStep DEF vars
  <1> QED BY <1>1, <1>2, <1>3, RunInit, RunStep, FaithInit, FaithStep, PTL DEF Spec
=============================================================================
