----------------------------- MODULE StateStore -----------------------------
(***************************************************************************)
(* cap.state with a backing file (pan-cap/src/state.rs).  The store is a   *)
(* map behind a mutex; `set' and `delete' change it and clone it under the *)
(* lock, then rewrite the whole file from their clone AFTER releasing the  *)
(* lock.  One StateCaps is shared by every request that a gateway runs on  *)
(* the same agent, so several callers can be between the clone and the     *)
(* rewrite at once, and the process can die anywhere in between.           *)
(*                                                                         *)
(* std::fs::write is two system calls: an open that truncates, and a write *)
(* at offset zero.  They are two steps here.  `get', `list' and            *)
(* `namespaces' change nothing and are left out; an in-memory store        *)
(* (path = None) never leaves its mutex and is left out too.               *)
(***************************************************************************)
EXTENDS Naturals

CONSTANTS Callers,   \* calls that may be under way at the same time
          Keys,      \* keys of the store
          Vals,      \* values a key can hold
          NoVal      \* the key has no entry

ASSUME StoreAssumption == NoVal \notin Vals

VARIABLES
    store,   \* StateCaps::store
    file,    \* what is on disk at `path'
    pc,      \* where each caller stands in `execute'
    snap,    \* the clone each caller took under the lock
    past,    \* history: every value the store has had, in any lifetime
    before,  \* history: what the file held when the last mutation began
    exposed, \* history: the last mutation was not alone, or a write failed since
    failed   \* history: some write failed in this lifetime

storeVars == <<store, file, pc, snap, past, before, exposed, failed>>

Stores == [Keys -> Vals \cup {NoVal}]

EmptyStore == [k \in Keys |-> NoVal]

\* The file is absent or empty, holds text that is no JSON object, or holds
\* exactly one store.
Blank == [kind |-> "blank", map |-> EmptyStore]

Garbled == [kind |-> "garbled", map |-> EmptyStore]

Json(s) == [kind |-> "json", map |-> s]

Contents == {Blank, Garbled} \cup {Json(s) : s \in Stores}

\* with_file, and MemoryRetrievalAssembler::read_state: what does not parse
\* counts as no entries.
Load(f) == IF f.kind = "json" THEN f.map ELSE EmptyStore

InFlight == {p \in Callers : pc[p] # "idle"}

-----------------------------------------------------------------------------
Init ==
    /\ store = EmptyStore
    /\ file = Blank
    /\ pc = [p \in Callers |-> "idle"]
    /\ snap = [p \in Callers |-> EmptyStore]
    /\ past = {EmptyStore}
    /\ before = EmptyStore
    /\ exposed = FALSE
    /\ failed = FALSE

\* The critical section: change the map and clone it.
Mutate(p, new) ==
    /\ pc[p] = "idle"
    /\ store' = new
    /\ snap' = [snap EXCEPT ![p] = new]
    /\ pc' = [pc EXCEPT ![p] = "open"]
    /\ past' = past \cup {new}
    /\ before' = Load(file)
    /\ exposed' = (InFlight # {})
    /\ UNCHANGED <<file, failed>>

\* Mutants: `set' hands persist only the entry it changed; `delete' forgets to
\* persist.
SetClonesEntry(p, k, v) ==
    /\ pc[p] = "idle"
    /\ store' = [store EXCEPT ![k] = v]
    /\ snap' = [snap EXCEPT ![p] = [EmptyStore EXCEPT ![k] = v]]
    /\ pc' = [pc EXCEPT ![p] = "open"]
    /\ past' = past \cup {store'}
    /\ before' = Load(file)
    /\ exposed' = (InFlight # {})
    /\ UNCHANGED <<file, failed>>

DeleteInMemory(p, k) ==
    /\ pc[p] = "idle"
    /\ store' = [store EXCEPT ![k] = NoVal]
    /\ past' = past \cup {store'}
    /\ before' = Load(file)
    /\ exposed' = (InFlight # {})
    /\ UNCHANGED <<file, failed, pc, snap>>

\* cap.state.set
Set(p, k, v) == Mutate(p, [store EXCEPT ![k] = v])

\* cap.state.delete
Delete(p, k) == Mutate(p, [store EXCEPT ![k] = NoVal])

\* persist, first half: fs::write opens the file and truncates it.
OpenTruncate(p) ==
    /\ pc[p] = "open"
    /\ pc' = [pc EXCEPT ![p] = "write"]
    /\ file' = Blank
    /\ UNCHANGED <<store, snap, past, before, exposed, failed>>

\* What a write at offset zero leaves of a file that is not empty any more
\* because another caller has written since this one truncated: the new text
\* if it is at least as long, otherwise the new text and the rest of the old
\* one, which is no JSON.
Overwrite(old, new) ==
    IF old = Blank \/ old = Json(new) THEN {Json(new)} ELSE {Json(new), Garbled}

\* persist, second half: the text is written and the call is answered with ok.
WriteText(p) ==
    /\ pc[p] = "write"
    /\ file' \in Overwrite(file, snap[p])
    /\ pc' = [pc EXCEPT ![p] = "idle"]
    /\ UNCHANGED <<store, snap, past, before, exposed, failed>>

\* The open or the write fails and the call is answered with an ExecError; the
\* map keeps the change.  A write that fails has written nothing or a part.
PersistFails(p) ==
    /\ pc[p] \in {"open", "write"}
    /\ pc[p] = "open" => file' = file
    /\ pc[p] = "write" => file' \in {file, Garbled}
    /\ pc' = [pc EXCEPT ![p] = "idle"]
    /\ exposed' = TRUE
    /\ failed' = TRUE
    /\ UNCHANGED <<store, snap, past, before>>

\* The process dies and is started again: with_file reads what the disk holds.
Restart ==
    /\ store' = Load(file)
    /\ pc' = [p \in Callers |-> "idle"]
    /\ snap' = [p \in Callers |-> EmptyStore]
    /\ before' = Load(file)
    /\ exposed' = FALSE
    /\ failed' = FALSE
    /\ UNCHANGED <<file, past>>

Next ==
    \/ \E p \in Callers, k \in Keys, v \in Vals : Set(p, k, v)
    \/ \E p \in Callers, k \in Keys : Delete(p, k)
    \/ \E p \in Callers : OpenTruncate(p)
    \/ \E p \in Callers : WriteText(p)
    \/ \E p \in Callers : PersistFails(p)
    \/ Restart

Spec == Init /\ [][Next]_storeVars

-----------------------------------------------------------------------------
\* Every variable keeps its type.
TypeOK ==
    /\ store \in Stores
    /\ file \in Contents
    /\ pc \in [Callers -> {"idle", "open", "write"}]
    /\ snap \in [Callers -> Stores]
    /\ past \subseteq Stores
    /\ before \in Stores
    /\ exposed \in BOOLEAN
    /\ failed \in BOOLEAN

\* Whoever reads the file, at whatever moment - a restart, or the memory
\* retrieval assembler while callers are writing - finds nothing or a value
\* the whole store once had: callers racing through `persist' may lose each
\* other's updates but never blend two maps into one that never existed.
ReadersSeeAPastStore == Load(file) \in past

\* A mutation that began while no other was under way and whose write did not
\* fail leaves the file equal to the store, whatever races, failed writes or
\* crashes went before: the next lone `set' or `delete' repairs them.
LoneMutationSettlesFile ==
    InFlight = {} /\ ~exposed => Load(file) = store

\* A crash in the middle of a lone mutation restores what the file held before
\* it, the store after it, or nothing at all (between the truncation and the write):
\* `persist' replaces the file in place.
LoneCrashOutcome ==
    ~exposed => Load(file) \in {before, store, EmptyStore}

\* state.rs:4 promises that a stored value survives a restart, and every call
\* here was answered with ok: the file should hold the store.
AcknowledgedSurvives ==
    InFlight = {} /\ ~failed => Load(file) = store
=============================================================================
