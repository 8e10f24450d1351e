---------------------------- MODULE EventStream ----------------------------
(***************************************************************************)
(* The event stream of pan-core/src/events.rs: emitters on several threads *)
(* draw sequence numbers from one atomic counter and hand their events to  *)
(* an mpsc channel; a consumer thread feeds them to the sink and flushes   *)
(* it when the channel closes; shutdown closes the channel and joins that  *)
(* thread, with or without a deadline.                                     *)
(*                                                                         *)
(* emit is two steps, fetch_add and send: nothing holds the two together.  *)
(* The channel is a log and a read position.  The sink has seen the first  *)
(* `taken' entries of the log, the rest is in the channel.                 *)
(***************************************************************************)
EXTENDS Naturals, Sequences

CONSTANTS
    Emitters,       \* threads that call emit
    MaxEvents,      \* bound: emit calls
    Nothing         \* an emitter between two emits

ASSUME StreamConstants == MaxEvents \in Nat /\ Nothing \notin Nat

VARIABLES
    seq,        \* EventStream.seq, the counter
    held,       \* held[e]: sequence number drawn by e and not sent yet
    tx,         \* is EventStream.tx Some(_)?
    log,        \* events the channel accepted, in that order
    taken,      \* how many of them the sink consumed
    consumer,   \* the consumer thread: running, flushed or dead
    owner,      \* the thread that owns the stream: using, joining, timing, returned
    last,       \* history: value of seq when the channel was closed
    dropped     \* history: sequence numbers of events that no channel took

vars == <<seq, held, tx, log, taken, consumer, owner, last, dropped>>

Event == [seq : Nat, by : Emitters]

Sunk == {log[i].seq : i \in 1 .. taken}
Sent == {log[i].seq : i \in 1 .. Len(log)}
Held == {held[e] : e \in Emitters} \ {Nothing}

Init ==
    /\ seq = 0
    /\ held = [e \in Emitters |-> Nothing]
    /\ tx = TRUE
    /\ log = << >> /\ taken = 0
    /\ consumer = "running"
    /\ owner = "using"
    /\ last = 0
    /\ dropped = {}

-----------------------------------------------------------------------------
(* emit.                                                                   *)

\* Mutant of Claim: the counter is read and written back by hand.
ClaimWithoutAdd(e) ==
    /\ owner \notin {"joining", "timing"}
    /\ held[e] = Nothing
    /\ seq < MaxEvents
    /\ held' = [held EXCEPT ![e] = seq]
    /\ seq' \in {seq, seq + 1}
    /\ UNCHANGED <<tx, log, taken, consumer, owner, last, dropped>>

\* fetch_add.  The stream is shared: nobody is in shutdown, which takes it
\* exclusively.
Claim(e) ==
    /\ owner \notin {"joining", "timing"}
    /\ held[e] = Nothing
    /\ seq < MaxEvents
    /\ held' = [held EXCEPT ![e] = seq]
    /\ seq' = seq + 1
    /\ UNCHANGED <<tx, log, taken, consumer, owner, last, dropped>>

\* Mutant of Send: a channel of capacity one, and try_send.
SendIfRoom(e) ==
    /\ held[e] # Nothing
    /\ held' = [held EXCEPT ![e] = Nothing]
    /\ IF tx /\ consumer = "running" /\ Len(log) - taken < 1
       THEN log' = Append(log, [seq |-> held[e], by |-> e]) /\ UNCHANGED dropped
       ELSE dropped' = dropped \cup {held[e]} /\ UNCHANGED log
    /\ UNCHANGED <<seq, tx, taken, consumer, owner, last>>

\* send: the event is queued, or dropped in silence when there is no channel
\* any more or its receiver is gone.
Send(e) ==
    /\ held[e] # Nothing
    /\ held' = [held EXCEPT ![e] = Nothing]
    /\ IF tx /\ consumer = "running"
       THEN log' = Append(log, [seq |-> held[e], by |-> e]) /\ UNCHANGED dropped
       ELSE dropped' = dropped \cup {held[e]} /\ UNCHANGED log
    /\ UNCHANGED <<seq, tx, taken, consumer, owner, last>>

-----------------------------------------------------------------------------
(* The consumer thread.                                                    *)

Consume ==
    /\ consumer = "running"
    /\ taken < Len(log)
    /\ taken' = taken + 1
    /\ UNCHANGED <<seq, held, tx, log, consumer, owner, last, dropped>>

\* sink.consume panics: the thread and the receiver are gone, without flush.
Die ==
    /\ consumer = "running"
    /\ taken < Len(log)
    /\ consumer' = "dead"
    /\ UNCHANGED <<seq, held, tx, log, taken, owner, last, dropped>>

\* The channel is closed and drained: the sink is flushed, the thread ends.
Flush ==
    /\ consumer = "running"
    /\ taken = Len(log) /\ ~tx
    /\ consumer' = "flushed"
    /\ UNCHANGED <<seq, held, tx, log, taken, owner, last, dropped>>

-----------------------------------------------------------------------------
(* shutdown, shutdown_timeout and Drop: they need the stream exclusively,  *)
(* so no emit is between its two steps.                                    *)

\* Mutant of Close: the thread is joined before the sender is dropped.
JoinBeforeClose(how) ==
    /\ owner = "using"
    /\ \A e \in Emitters : held[e] = Nothing
    /\ last' = seq
    /\ owner' = how
    /\ UNCHANGED <<seq, held, tx, log, taken, consumer, dropped>>

Close(how) ==
    /\ owner = "using"
    /\ \A e \in Emitters : held[e] = Nothing
    /\ tx' = FALSE
    /\ last' = seq
    /\ owner' = how
    /\ UNCHANGED <<seq, held, log, taken, consumer, dropped>>

\* The join returns, whether the thread ended or panicked.
Joined ==
    /\ owner \in {"joining", "timing"}
    /\ consumer # "running"
    /\ owner' = "returned"
    /\ UNCHANGED <<seq, held, tx, log, taken, consumer, last, dropped>>

\* recv_timeout gives up first: the consumer is left to itself.
Detach ==
    /\ owner = "timing"
    /\ owner' = "detached"
    /\ UNCHANGED <<seq, held, tx, log, taken, consumer, last, dropped>>

-----------------------------------------------------------------------------
Consumer == Consume \/ Die \/ Flush

Next ==
    \/ \E e \in Emitters : Claim(e) \/ Send(e)
    \/ Consume \/ Die \/ Flush
    \/ \E how \in {"joining", "timing"} : Close(how)
    \/ Joined \/ Detach

\* Threads are scheduled; whether anyone emits or shuts down is up to them.
Fairness ==
    /\ \A e \in Emitters : WF_vars(Send(e))
    /\ WF_vars(Consumer)
    /\ WF_vars(Joined)

Spec == Init /\ [][Next]_vars
FairSpec == Spec /\ Fairness

-----------------------------------------------------------------------------
(* Properties.                                                             *)

(* Counters keep their types and the consumer never runs ahead of the     *)
(* channel.                                                               *)
TypeOK ==
    /\ seq \in 0 .. MaxEvents /\ last \in 0 .. MaxEvents
    /\ held \in [Emitters -> Nat \cup {Nothing}]
    /\ tx \in BOOLEAN
    /\ log \in Seq(Event) /\ taken \in 0 .. Len(log)
    /\ consumer \in {"running", "flushed", "dead"}
    /\ owner \in {"using", "joining", "timing", "returned", "detached"}
    /\ dropped \subseteq Nat

(* "A durable sink can rely on `seq' to reconstruct order" (events.rs:11): *)
(* no number is drawn twice, and while the channel is open and the         *)
(* consumer lives, every number drawn so far is in the log or held by an   *)
(* emitter about to send it.  So a gap below any event the sink has seen   *)
(* closes by itself, and at most one per other emitter is open at a time.  *)
GapsAreInFlight ==
    /\ \A i, j \in 1 .. Len(log) : log[i].seq = log[j].seq => i = j
    /\ Sent \cap Held = {}
    /\ \A d, e \in Emitters : held[d] = held[e] /\ held[d] # Nothing => d = e
    /\ tx /\ consumer = "running" => 0 .. seq - 1 \subseteq Sent \cup Held

(* The events of one emitter reach the sink in the order it emitted them,  *)
(* whatever the others do (events.rs:202-207).                             *)
PerEmitterOrder ==
    \A i, j \in 1 .. Len(log) : i < j /\ log[i].by = log[j].by => log[i].seq < log[j].seq

(* flush is "called once when the stream closes, after the last event"     *)
(* (events.rs:88-89) and shutdown "blocks until the consumer has drained   *)
(* all buffered events and flushed the sink" (events.rs:211-212): a        *)
(* flushed sink has every event emitted before the close and no other, and *)
(* a shutdown that did not time out returns over a thread that has ended.  *)
DrainedAtFlush ==
    /\ consumer = "flushed" => ~tx /\ Sunk = 0 .. last - 1
    /\ owner = "returned" => consumer # "running"

(* shutdown returns, even over a sink that panics (events.rs:248-254), and *)
(* the sink of a stream that was closed in any way gets drained.           *)
ShutdownReturns ==
    /\ owner = "joining" ~> owner = "returned"
    /\ ~tx ~> consumer = "dead" \/ Sunk = 0 .. last - 1

=============================================================================
