-------------------------- MODULE EventStreamProofs --------------------------
(***************************************************************************)
(* Proofs about module EventStream, for any number of emitters and events. *)
(*                                                                         *)
(* What makes the properties inductive: numbers in the log or in a hand    *)
(* are below the counter, a number in a hand is above every number its     *)
(* emitter sent before (OrderInv), and the close freezes the set of        *)
(* numbers the channel took (ClosedInv), because no emit straddles it.     *)
(***************************************************************************)
EXTENDS EventStream, TLAPS

BelowInv ==
    /\ \A i \in 1 .. Len(log) : log[i].seq < seq
    /\ \A e \in Emitters : held[e] # Nothing => held[e] < seq

UniqueInv ==
    /\ \A i, j \in 1 .. Len(log) : log[i].seq = log[j].seq => i = j
    /\ \A i \in 1 .. Len(log), e \in Emitters : log[i].seq # held[e]
    /\ \A d, e \in Emitters : held[d] = held[e] /\ held[d] # Nothing => d = e

OrderInv ==
    /\ PerEmitterOrder
    /\ \A i \in 1 .. Len(log) : held[log[i].by] # Nothing => log[i].seq < held[log[i].by]

\* The number n is in the log; it is in the log or in a hand.
InLog(n) == \E i \in 1 .. Len(log) : log[i].seq = n
InLogOrHand(n) == InLog(n) \/ \E e \in Emitters : held[e] = n

OpenInv == tx /\ consumer = "running" => \A n \in 0 .. seq - 1 : InLogOrHand(n)

ClosedInv ==
    ~tx /\ consumer # "dead" =>
        /\ \A i \in 1 .. Len(log) : log[i].seq \in 0 .. last - 1
        /\ \A n \in 0 .. last - 1 : InLog(n)

ThreadInv ==
    /\ tx <=> owner = "using"
    /\ consumer = "flushed" => ~tx /\ taken = Len(log)
    /\ owner = "returned" => consumer # "running"

StreamInv == TypeOK /\ BelowInv /\ UniqueInv /\ OrderInv /\ OpenInv /\ ClosedInv /\ ThreadInv

-----------------------------------------------------------------------------
LEMMA LogGrows ==
    ASSUME TypeOK, NEW ev \in Event
    PROVE  /\ Append(log, ev) \in Seq(Event)
           /\ Len(Append(log, ev)) = Len(log) + 1
           /\ Append(log, ev)[Len(log) + 1] = ev
           /\ \A i \in 1 .. Len(log) : Append(log, ev)[i] = log[i]
           /\ Len(log) \in Nat
  BY DEF TypeOK

LEMMA LogEntries ==
    ASSUME TypeOK
    PROVE  /\ Len(log) \in Nat
           /\ \A i \in 1 .. Len(log) : log[i].seq \in Nat /\ log[i].by \in Emitters
  <1>1. log \in Seq(Event)
    BY DEF TypeOK
  <1>2. Len(log) \in Nat /\ \A i \in 1 .. Len(log) : log[i] \in Event
    BY <1>1
  <1>3. \A ev \in Event : ev.seq \in Nat /\ ev.by \in Emitters
    BY DEF Event
  <1>4. QED BY <1>2, <1>3

LEMMA InitStream == Init => StreamInv
  <1> SUFFICES ASSUME Init PROVE StreamInv
    OBVIOUS
  <1> USE StreamConstants DEF Init
  <1>1. TypeOK
    BY DEF TypeOK
  <1>2. BelowInv /\ UniqueInv /\ OrderInv /\ OpenInv /\ ClosedInv /\ ThreadInv
    BY DEF BelowInv, UniqueInv, OrderInv, PerEmitterOrder, OpenInv, ClosedInv, ThreadInv
  <1>3. QED BY <1>1, <1>2 DEF StreamInv

LEMMA ClaimKeeps ==
    ASSUME StreamInv, NEW e \in Emitters, Claim(e)
    PROVE  StreamInv'
  <1> USE StreamConstants DEF StreamInv
  <1>1. /\ seq \in Nat /\ seq' = seq + 1 /\ seq' \in 0 .. MaxEvents
        /\ held[e] = Nothing /\ held'[e] = seq
        /\ \A d \in Emitters : d # e => held'[d] = held[d]
        /\ held' \in [Emitters -> Nat \cup {Nothing}]
    BY DEF TypeOK, Claim
  <1>2. UNCHANGED <<tx, log, taken, consumer, owner, last, dropped>>
    BY DEF Claim
  <1>3. TypeOK'
    BY <1>1, <1>2 DEF TypeOK
  <1>4. Len(log) \in Nat /\ \A i \in 1 .. Len(log) : log[i].seq \in Nat /\ log[i].by \in Emitters
    BY LogEntries
  <1>5. \A d \in Emitters : held[d] \in Nat \cup {Nothing}
    BY DEF TypeOK
  <1>6. BelowInv'
    BY <1>1, <1>2, <1>4, <1>5 DEF BelowInv
  <1>7. UniqueInv'
    BY <1>1, <1>2, <1>4, <1>5 DEF BelowInv, UniqueInv
  <1>8. OrderInv'
    BY <1>1, <1>2, <1>4, <1>5 DEF BelowInv, OrderInv, PerEmitterOrder
  <1>9. OpenInv'
    BY <1>1, <1>2 DEF OpenInv, InLogOrHand, InLog
  <1>10. ClosedInv' /\ ThreadInv'
    BY <1>2 DEF ClosedInv, ThreadInv, InLog
  <1>11. QED BY <1>3, <1>6, <1>7, <1>8, <1>9, <1>10

LEMMA SendKeeps ==
    ASSUME StreamInv, NEW e \in Emitters, Send(e)
    PROVE  StreamInv'
  <1> USE StreamConstants DEF StreamInv
  <1> DEFINE ev == [seq |-> held[e], by |-> e]
  <1>1. /\ held[e] \in Nat /\ held'[e] = Nothing
        /\ \A d \in Emitters : d # e => held'[d] = held[d]
        /\ held' \in [Emitters -> Nat \cup {Nothing}]
    BY DEF TypeOK, Send
  <1>2. UNCHANGED <<seq, tx, taken, consumer, owner, last>>
    BY DEF Send
  <1>3. ev \in Event /\ ev.seq = held[e] /\ ev.by = e
    BY <1>1 DEF Event
  <1>4. Len(log) \in Nat /\ \A i \in 1 .. Len(log) : log[i].seq \in Nat /\ log[i].by \in Emitters
    BY LogEntries
  <1>5. \A d \in Emitters : held[d] \in Nat \cup {Nothing}
    BY DEF TypeOK
  <1>6. CASE tx /\ consumer = "running"
    <2>1. /\ log' \in Seq(Event)
          /\ Len(log') = Len(log) + 1
          /\ log'[Len(log) + 1].seq = held[e]
          /\ log'[Len(log) + 1].by = e
          /\ \A i \in 1 .. Len(log) : log'[i] = log[i]
          /\ dropped' = dropped
      <3>1. log' = Append(log, ev) /\ dropped' = dropped
        BY <1>6 DEF Send
      <3> HIDE DEF ev
      <3>2. QED BY <1>3, <3>1, LogGrows
    <2> HIDE DEF ev
    <2>2. \A i \in 1 .. Len(log') : i \in 1 .. Len(log) \/ i = Len(log) + 1
      BY <1>4, <2>1
    <2>3. TypeOK'
      BY <1>1, <1>2, <1>4, <2>1 DEF TypeOK
    <2>4. BelowInv'
      BY <1>1, <1>2, <1>4, <1>5, <2>1, <2>2 DEF BelowInv
    <2>5. UniqueInv'
      <3>1. ASSUME NEW i \in 1 .. Len(log'), NEW j \in 1 .. Len(log'), log'[i].seq = log'[j].seq
            PROVE  i = j
        BY <1>1, <1>4, <2>1, <2>2, <3>1, SMTT(30) DEF UniqueInv
      <3>2. ASSUME NEW i \in 1 .. Len(log'), NEW d \in Emitters PROVE log'[i].seq # held'[d]
        <4>1. log'[i].seq \in Nat
          BY <1>1, <1>4, <2>1, <2>2
        <4>2. CASE d = e
          BY <1>1, <4>1, <4>2
        <4>3. CASE d # e
          BY <1>1, <1>4, <2>1, <2>2, <4>3 DEF UniqueInv
        <4>4. QED BY <4>2, <4>3
      <3>3. ASSUME NEW c \in Emitters, NEW d \in Emitters, held'[c] = held'[d],
                   held'[c] # Nothing
            PROVE  c = d
        BY <1>1, <3>3 DEF UniqueInv
      <3>4. QED BY <3>1, <3>2, <3>3 DEF UniqueInv
    <2>6. OrderInv'
      <3>1. ASSUME NEW i \in 1 .. Len(log'), NEW j \in 1 .. Len(log'), i < j,
                   log'[i].by = log'[j].by
            PROVE  log'[i].seq < log'[j].seq
        <4>1. i \in 1 .. Len(log)
          BY <1>4, <2>1, <3>1
        <4>2. CASE j \in 1 .. Len(log)
          BY <2>1, <3>1, <4>1, <4>2 DEF OrderInv, PerEmitterOrder
        <4>3. CASE j = Len(log) + 1
          BY <1>1, <2>1, <3>1, <4>1, <4>3 DEF OrderInv
        <4>4. QED BY <2>2, <4>2, <4>3
      <3>2. ASSUME NEW i \in 1 .. Len(log'), held'[log'[i].by] # Nothing
            PROVE  log'[i].seq < held'[log'[i].by]
        <4>1. log'[i].by # e
          BY <1>1, <3>2
        <4>2. i \in 1 .. Len(log)
          BY <2>1, <2>2, <4>1
        <4>3. QED BY <1>1, <1>4, <2>1, <3>2, <4>1, <4>2 DEF OrderInv
      <3>3. QED BY <3>1, <3>2 DEF OrderInv, PerEmitterOrder
    <2>7. OpenInv'
      <3> SUFFICES ASSUME NEW n \in 0 .. seq - 1 PROVE InLogOrHand(n)'
        BY <1>2 DEF OpenInv
      <3>1. InLogOrHand(n)
        BY <1>6 DEF OpenInv
      <3>2. CASE InLog(n)
        BY <1>4, <2>1, <3>2 DEF InLogOrHand, InLog
      <3>3. CASE held[e] = n
        <4>1. Len(log) + 1 \in 1 .. Len(log')
          BY <1>4, <2>1
        <4>2. QED BY <2>1, <3>3, <4>1 DEF InLogOrHand, InLog
      <3>4. CASE \E d \in Emitters : d # e /\ held[d] = n
        BY <1>1, <3>4 DEF InLogOrHand
      <3>5. QED BY <3>1, <3>2, <3>3, <3>4 DEF InLogOrHand
    <2>8. ClosedInv' /\ ThreadInv'
      BY <1>2, <1>6 DEF ClosedInv, ThreadInv
    <2>9. QED BY <2>3, <2>4, <2>5, <2>6, <2>7, <2>8
  <1>7. CASE ~(tx /\ consumer = "running")
    <2>1. log' = log /\ dropped' = dropped \cup {held[e]}
      BY <1>7 DEF Send
    <2> HIDE DEF ev
    <2>2. TypeOK'
      BY <1>1, <1>2, <2>1 DEF TypeOK
    <2>3. BelowInv' /\ UniqueInv'
      BY <1>1, <1>2, <1>4, <2>1 DEF BelowInv, UniqueInv
    <2>4. OrderInv'
      BY <1>1, <1>2, <1>4, <2>1 DEF OrderInv, PerEmitterOrder
    <2>5. OpenInv' /\ ClosedInv' /\ ThreadInv'
      BY <1>2, <1>7, <2>1 DEF OpenInv, ClosedInv, ThreadInv, InLog
    <2>6. QED BY <2>2, <2>3, <2>4, <2>5
  <1>8. QED BY <1>6, <1>7

LEMMA CloseKeeps ==
    ASSUME StreamInv, NEW how \in {"joining", "timing"}, Close(how)
    PROVE  StreamInv'
  <1> USE StreamConstants DEF StreamInv
  <1>1. /\ UNCHANGED <<seq, held, log, taken, consumer, dropped>>
        /\ owner = "using" /\ owner' = how /\ tx' = FALSE /\ last' = seq
        /\ \A e \in Emitters : held[e] = Nothing
    BY DEF Close
  <1>2. tx /\ consumer # "flushed"
    BY <1>1 DEF ThreadInv
  <1>3. TypeOK'
    BY <1>1 DEF TypeOK
  <1>4. BelowInv' /\ UniqueInv' /\ OrderInv' /\ OpenInv'
    BY <1>1 DEF BelowInv, UniqueInv, OrderInv, PerEmitterOrder, OpenInv
  <1>5. ClosedInv'
    <2> SUFFICES ASSUME consumer # "dead" PROVE ClosedInv'
      BY <1>1 DEF ClosedInv
    <2>1. consumer = "running"
      BY <1>2 DEF TypeOK
    <2>2. \A i \in 1 .. Len(log) : log[i].seq \in 0 .. seq - 1
      <3>1. \A i \in 1 .. Len(log) : log[i].seq \in Nat
        BY LogEntries
      <3>2. QED BY <3>1 DEF BelowInv, TypeOK
    <2>3. ASSUME NEW n \in 0 .. seq - 1 PROVE InLog(n)
      BY <1>1, <1>2, <2>1 DEF OpenInv, InLogOrHand
    <2>4. QED BY <1>1, <2>2, <2>3 DEF ClosedInv, InLog
  <1>6. ThreadInv'
    BY <1>1, <1>2 DEF ThreadInv
  <1>7. QED BY <1>3, <1>4, <1>5, <1>6

LEMMA ThreadsKeep ==
    ASSUME StreamInv, Consume \/ Die \/ Flush \/ Joined \/ Detach
    PROVE  StreamInv'
  <1> USE StreamConstants DEF StreamInv
  <1>1. UNCHANGED <<seq, held, tx, log, last, dropped>>
    BY DEF Consume, Die, Flush, Joined, Detach
  <1>2. TypeOK'
    BY <1>1 DEF TypeOK, Consume, Die, Flush, Joined, Detach
  <1>3. BelowInv' /\ UniqueInv' /\ OrderInv'
    BY <1>1 DEF BelowInv, UniqueInv, OrderInv, PerEmitterOrder
  <1>4. OpenInv' /\ ClosedInv'
    BY <1>1 DEF OpenInv, ClosedInv, InLogOrHand, InLog, Consume, Die, Flush, Joined, Detach
  <1>5. ThreadInv'
    BY <1>1 DEF ThreadInv, Consume, Die, Flush, Joined, Detach
  <1>6. QED BY <1>2, <1>3, <1>4, <1>5

LEMMA StreamNext == StreamInv /\ [Next]_vars => StreamInv'
  <1> SUFFICES ASSUME StreamInv, [Next]_vars PROVE StreamInv'
    OBVIOUS
  <1>1. CASE UNCHANGED vars
    BY <1>1 DEF vars, StreamInv, TypeOK, BelowInv, UniqueInv, OrderInv, PerEmitterOrder, OpenInv,
                ClosedInv, ThreadInv, InLogOrHand, InLog
  <1>2. CASE Next
    BY <1>2, ClaimKeeps, SendKeeps, CloseKeeps, ThreadsKeep DEF Next
  <1>3. QED BY <1>1, <1>2

-----------------------------------------------------------------------------
(* The invariant, for every behaviour of the stream.                       *)
THEOREM StreamInvariant == Spec => []StreamInv
  BY InitStream, StreamNext, PTL DEF Spec

(* Counters and the read position stay within bounds.                      *)
THEOREM StreamTypeCorrect == Spec => []TypeOK
  <1>1. StreamInv => TypeOK
    BY DEF StreamInv
  <1>2. QED BY <1>1, StreamInvariant, PTL

(* No number is drawn twice, and on a live stream every missing number is  *)
(* in the hands of an emitter: a sink can restore the order by seq.        *)
THEOREM GapsClose == Spec => []GapsAreInFlight
  <1>1. StreamInv => GapsAreInFlight
    <2> SUFFICES ASSUME StreamInv PROVE GapsAreInFlight
      OBVIOUS
    <2>1. UniqueInv /\ OpenInv /\ seq \in Nat
      BY DEF StreamInv, TypeOK
    <2>2. Sent \cap Held = {}
      BY <2>1 DEF Sent, Held, UniqueInv
    <2>3. tx /\ consumer = "running" => 0 .. seq - 1 \subseteq Sent \cup Held
      <3> SUFFICES ASSUME tx, consumer = "running", NEW n \in 0 .. seq - 1
                   PROVE  n \in Sent \cup Held
        OBVIOUS
      <3>1. InLogOrHand(n)
        BY <2>1 DEF OpenInv
      <3>2. n # Nothing
        BY <2>1, StreamConstants
      <3>3. QED BY <3>1, <3>2 DEF InLogOrHand, InLog, Sent, Held
    <2>4. QED BY <2>1, <2>2, <2>3 DEF GapsAreInFlight, UniqueInv
  <1>2. QED BY <1>1, StreamInvariant, PTL

(* Each emitter's events keep their order.                                 *)
THEOREM EmitterOrderKept == Spec => []PerEmitterOrder
  <1>1. StreamInv => PerEmitterOrder
    BY DEF StreamInv, OrderInv
  <1>2. QED BY <1>1, StreamInvariant, PTL

(* A flushed sink has seen exactly the events emitted before the close,    *)
(* and shutdown returns only over a thread that has ended.                 *)
THEOREM FlushSeesAll == Spec => []DrainedAtFlush
  <1>1. StreamInv => DrainedAtFlush
    <2> SUFFICES ASSUME StreamInv, consumer = "flushed" PROVE ~tx /\ Sunk = 0 .. last - 1
      BY DEF StreamInv, ThreadInv, DrainedAtFlush
    <2>1. ~tx /\ taken = Len(log)
      BY DEF StreamInv, ThreadInv
    <2>2. /\ \A i \in 1 .. Len(log) : log[i].seq \in 0 .. last - 1
          /\ \A n \in 0 .. last - 1 : InLog(n)
      BY <2>1 DEF StreamInv, ClosedInv
    <2>3. QED BY <2>1, <2>2 DEF Sunk, InLog
  <1>2. QED BY <1>1, StreamInvariant, PTL
=============================================================================
