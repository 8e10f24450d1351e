--------------------------- MODULE DaemonSession ---------------------------
(***************************************************************************)
(* One connection of the Soul Protocol daemon: the read loop of            *)
(* pan-daemon/src/server.rs, the Session it guards with a mutex            *)
(* (pan-daemon/src/session.rs) and the task spawned for every perceive.    *)
(*                                                                         *)
(* Two locks are involved and never held together.  Under the session lock *)
(* a reply gets its seq; under the writer lock it is written.  Between the *)
(* two it is in its author's hands (`unwritten').  The read loop writes    *)
(* its reply before it reads on; the tasks come and go.                    *)
(*                                                                         *)
(* The host numbers its messages: the i-th line read has seq i.  What a    *)
(* mind decides is open; of a decision only the capabilities it invokes    *)
(* are kept.  The body-shape errors of the handlers are left out: an       *)
(* Envelope only parses with the body of its type.                         *)
(***************************************************************************)
EXTENDS Naturals, Sequences

CONSTANTS
    Souls,          \* soul ids
    GoalIds,        \* goal ids
    Caps,           \* capability ids
    MaxRev,         \* bound: revisions are 0..MaxRev
    MaxIn           \* bound: lines the host sends

ASSUME SessionConstants == MaxRev \in Nat /\ MaxIn \in Nat

VARIABLES
    reader,         \* the read loop: reading, writing, closing, closed
    inbox,          \* history: the lines read so far
    registered,     \* Session.registry
    souls,          \* Session.souls
    ledger,         \* Session.latest_revision
    seq,            \* Session.next_seq
    job,            \* job[i]: the task of the perceive in line i
    snap,           \* snap[i]: its PerceiveJob.registry
    verdict,        \* verdict[i]: its DispatchOutcome
    invokes,        \* invokes[i]: capabilities its decision invokes
    unwritten,      \* replies that have a seq and wait for the writer lock
    wire            \* replies written, in order

session == <<registered, souls, ledger>>
tasks == <<job, snap, verdict, invokes>>
vars == <<reader, inbox, session, seq, tasks, unwritten, wire>>

Lines == 1 .. MaxIn
Revs == 0 .. MaxRev
Failures == {"UnknownCapability", "InvalidArgs"}
Errors == Failures \cup {"BadFrame", "UnknownType", "VersionUnsupported", "UnknownSoul",
                         "ProviderFailure", "Superseded"}
Bodies == Errors \cup {"welcome", "ack", "decision"}
Envelope == [seq : Nat, to : Lines, re : BOOLEAN, body : Bodies]

\* Lines of the host.  Only perceive carries data that matters later.
Types == {"hello", "oldHello", "register", "duplicate", "instantiate", "release",
          "misdirected", "garbage", "shutdown"}
Perceive == [type : {"perceive"}, goal : GoalIds, rev : Revs]
Message == [type : Types] \cup Perceive

Written == {wire[k] : k \in 1 .. Len(wire)}
Issued == unwritten \cup Written
InFlight(i) == job[i] \in {"thinking", "decided"}

Init ==
    /\ reader = "reading" /\ inbox = << >>
    /\ registered = {} /\ souls = {} /\ ledger = [g \in GoalIds |-> 0]
    /\ seq = 0
    /\ job = [i \in Lines |-> "none"]
    /\ snap = [i \in Lines |-> {}] /\ invokes = [i \in Lines |-> {}]
    /\ verdict = [i \in Lines |-> "none"]
    /\ unwritten = {} /\ wire = << >>

-----------------------------------------------------------------------------
(* The read loop.                                                          *)

Read(m) ==
    /\ reader = "reading"
    /\ Len(inbox) < MaxIn
    /\ inbox' = Append(inbox, m)

\* Session::out and alloc_seq: an envelope draws its seq.
Out(i, re, body) ==
    /\ unwritten' = unwritten \cup {[seq |-> seq, to |-> i, re |-> re, body |-> body]}
    /\ seq' = seq + 1

\* The loop answers the line it has just read, and goes on or closes.
Answer(re, body, then) ==
    /\ Out(Len(inbox) + 1, re, body)
    /\ reader' = then
    /\ UNCHANGED <<tasks, wire>>

Hello ==
    /\ Read([type |-> "hello"])
    /\ Answer(TRUE, "welcome", "writing")
    /\ UNCHANGED session

\* Wrong version or profile: an error without `re', then the end.
OldHello ==
    /\ Read([type |-> "oldHello"])
    /\ Answer(FALSE, "VersionUnsupported", "closing")
    /\ UNCHANGED session

\* register_capabilities replaces the registry, or fails as a whole.
Register(S) ==
    /\ Read([type |-> "register"])
    /\ Answer(TRUE, "ack", "writing")
    /\ registered' = S
    /\ UNCHANGED <<souls, ledger>>

RegisterDuplicate ==
    /\ Read([type |-> "duplicate"])
    /\ Answer(TRUE, "ProviderFailure", "writing")
    /\ UNCHANGED session

Instantiate(s) ==
    /\ Read([type |-> "instantiate"])
    /\ Answer(TRUE, "ack", "writing")
    /\ souls' = souls \cup {s}
    /\ UNCHANGED <<registered, ledger>>

Release(s) ==
    /\ Read([type |-> "release"])
    /\ Answer(TRUE, IF s \in souls THEN "ack" ELSE "UnknownSoul", "writing")
    /\ souls' = souls \ {s}
    /\ UNCHANGED <<registered, ledger>>

\* welcome, decision, ack and error flow the other way.
Misdirected ==
    /\ Read([type |-> "misdirected"])
    /\ Answer(TRUE, "UnknownType", "writing")
    /\ UNCHANGED session

\* Too long, not an envelope, or a type outside the closed set: all BadFrame.
Unparsable ==
    /\ Read([type |-> "garbage"])
    /\ Answer(FALSE, "BadFrame", "writing")
    /\ UNCHANGED session

Shutdown ==
    /\ Read([type |-> "shutdown"])
    /\ Answer(TRUE, "ack", "closing")
    /\ UNCHANGED session

\* read_line returns 0 or an error.
HangUp ==
    /\ reader = "reading"
    /\ reader' = "closed"
    /\ UNCHANGED <<inbox, session, seq, tasks, unwritten, wire>>

\* begin_perceive for a soul that is not instantiated.
PerceiveUnknown(s, g, r) ==
    /\ s \notin souls
    /\ Read([type |-> "perceive", goal |-> g, rev |-> r])
    /\ Answer(TRUE, "UnknownSoul", "writing")
    /\ UNCHANGED session

\* Mutant of BeginPerceive: the last revision perceived is the latest.
BeginLastWins(s, g, r) ==
    /\ s \in souls
    /\ Read([type |-> "perceive", goal |-> g, rev |-> r])
    /\ ledger' = [ledger EXCEPT ![g] = r]
    /\ job' = [job EXCEPT ![Len(inbox) + 1] = "thinking"]
    /\ snap' = [snap EXCEPT ![Len(inbox) + 1] = registered]
    /\ UNCHANGED <<reader, registered, souls, seq, verdict, invokes, unwritten, wire>>

\* begin_perceive: note the revision, snapshot the registry, spawn the task.
BeginPerceive(s, g, r) ==
    /\ s \in souls
    /\ Read([type |-> "perceive", goal |-> g, rev |-> r])
    /\ ledger' = [ledger EXCEPT ![g] = IF r > @ THEN r ELSE @]
    /\ job' = [job EXCEPT ![Len(inbox) + 1] = "thinking"]
    /\ snap' = [snap EXCEPT ![Len(inbox) + 1] = registered]
    /\ UNCHANGED <<reader, registered, souls, seq, verdict, invokes, unwritten, wire>>

-----------------------------------------------------------------------------
(* The task of a perceive.                                                 *)

\* Mutant of Dispatched: the registry is looked up when the mind is done.
DispatchedNow(i, S, v) ==
    /\ job[i] = "thinking"
    /\ \/ v = "decision" /\ S \subseteq registered
       \/ v = "UnknownCapability" /\ ~(S \subseteq registered)
       \/ v = "InvalidArgs" /\ S \cap registered # {}
    /\ job' = [job EXCEPT ![i] = "decided"]
    /\ verdict' = [verdict EXCEPT ![i] = v]
    /\ invokes' = [invokes EXCEPT ![i] = S]
    /\ UNCHANGED <<reader, inbox, session, seq, snap, unwritten, wire>>

\* Outside the lock: the mind decides to invoke S, and the intents go through
\* the pipeline until one fails.
Dispatched(i, S, v) ==
    /\ job[i] = "thinking"
    /\ \/ v = "decision" /\ S \subseteq snap[i]
       \/ v = "UnknownCapability" /\ ~(S \subseteq snap[i])
       \/ v = "InvalidArgs" /\ S \cap snap[i] # {}
    /\ job' = [job EXCEPT ![i] = "decided"]
    /\ verdict' = [verdict EXCEPT ![i] = v]
    /\ invokes' = [invokes EXCEPT ![i] = S]
    /\ UNCHANGED <<reader, inbox, session, seq, snap, unwritten, wire>>

\* Mutant of FinishPerceive: the superseded branch falls through.
FinishFallsThrough(i) ==
    LET late == IF inbox[i].rev < ledger[inbox[i].goal] THEN 1 ELSE 0
        Reply(n, body) == [seq |-> n, to |-> i, re |-> TRUE, body |-> body]
    IN  /\ job[i] = "decided"
        /\ job' = [job EXCEPT ![i] = "finished"]
        /\ unwritten' = unwritten \cup {Reply(seq + late, verdict[i])}
                          \cup (IF late = 1 THEN {Reply(seq, "Superseded")} ELSE {})
        /\ seq' = seq + 1 + late
        /\ UNCHANGED <<reader, inbox, session, snap, verdict, invokes, wire>>

\* Mutant of FinishPerceive: the seq is peeked, the counter bumped by the writer.
FinishPeeks(i) ==
    /\ job[i] = "decided"
    /\ job' = [job EXCEPT ![i] = "finished"]
    /\ unwritten' = unwritten \cup {[seq |-> seq, to |-> i, re |-> TRUE, body |-> verdict[i]]}
    /\ UNCHANGED <<reader, inbox, session, seq, snap, verdict, invokes, wire>>

\* The enact boundary, back under the lock: superseded, or the outcome.
FinishPerceive(i) ==
    /\ job[i] = "decided"
    /\ job' = [job EXCEPT ![i] = "finished"]
    /\ Out(i, TRUE, IF inbox[i].rev < ledger[inbox[i].goal] THEN "Superseded" ELSE verdict[i])
    /\ UNCHANGED <<reader, inbox, session, snap, verdict, invokes, wire>>

-----------------------------------------------------------------------------
(* write_one.  The author of a reply is the read loop, unless the reply    *)
(* belongs to a perceive that became a task.                               *)

\* Mutant of Write: nothing is written once the read loop has returned.
WriteWhileOpen(e) ==
    /\ reader # "closed"
    /\ unwritten' = unwritten \ {e}
    /\ wire' = Append(wire, e)
    /\ reader' = IF job[e.to] # "none" THEN reader
                 ELSE IF reader = "closing" THEN "closed" ELSE "reading"
    /\ UNCHANGED <<inbox, session, seq, tasks>>

Write(e) ==
    /\ unwritten' = unwritten \ {e}
    /\ wire' = Append(wire, e)
    /\ reader' = IF job[e.to] # "none" THEN reader
                 ELSE IF reader = "closing" THEN "closed" ELSE "reading"
    /\ UNCHANGED <<inbox, session, seq, tasks>>

-----------------------------------------------------------------------------
Handle ==
    \/ Hello \/ OldHello \/ RegisterDuplicate \/ Misdirected \/ Unparsable \/ Shutdown
    \/ HangUp
    \/ \E S \in SUBSET Caps : Register(S)
    \/ \E s \in Souls : Instantiate(s) \/ Release(s)
    \/ \E s \in Souls, g \in GoalIds, r \in Revs :
          PerceiveUnknown(s, g, r) \/ BeginPerceive(s, g, r)

Task(i) ==
    \/ \E S \in SUBSET Caps, v \in {"decision"} \cup Failures : Dispatched(i, S, v)
    \/ FinishPerceive(i)

Next ==
    \/ Handle
    \/ \E i \in Lines : Task(i)
    \/ \E e \in unwritten : Write(e)

\* Minds answer, tasks are polled, and the writer lock is fair.
Fairness ==
    /\ \A i \in Lines : WF_vars(Task(i))
    /\ \A i \in Lines : WF_vars(\E e \in unwritten : e.to = i /\ Write(e))

Spec == Init /\ [][Next]_vars
FairSpec == Spec /\ Fairness

-----------------------------------------------------------------------------
(* Properties.                                                             *)

(* The session, its tasks and its replies keep their types: the ledger    *)
(* only holds revisions a host can send, outcomes are those of dispatch.  *)
TypeOK ==
    /\ reader \in {"reading", "writing", "closing", "closed"}
    /\ inbox \in Seq(Message) /\ Len(inbox) <= MaxIn
    /\ registered \subseteq Caps /\ souls \subseteq Souls
    /\ ledger \in [GoalIds -> Revs]
    /\ seq \in Nat
    /\ job \in [Lines -> {"none", "thinking", "decided", "finished"}]
    /\ snap \in [Lines -> SUBSET Caps] /\ invokes \in [Lines -> SUBSET Caps]
    /\ verdict \in [Lines -> {"none", "decision"} \cup Failures]
    /\ unwritten \subseteq Envelope /\ wire \in Seq(Envelope)

(* Every line of the host gets one reply (session.rs:306-352, server.rs:   *)
(* 28-166): there is one, issued or written, unless its perceive is still  *)
(* in flight, and never two, whatever is released, registered, superseded  *)
(* or shut down meanwhile.                                                 *)
AnsweredOnce ==
    /\ \A i \in Lines : (\E e \in Issued : e.to = i) <=> i <= Len(inbox) /\ ~InFlight(i)
    /\ \A e, f \in Issued : e.to = f.to => e = f
    /\ \A k, l \in 1 .. Len(wire) : wire[k] = wire[l] => k = l
    /\ unwritten \cap Written = {}

(* "Every daemon-to-host line must draw from the one counter" (session.rs: *)
(* 297): the numbers issued are 0 .. seq - 1, each once, so the host can   *)
(* tell a reply that is late from one that is lost.                        *)
SeqsAccounted ==
    /\ {e.seq : e \in Issued} = 0 .. seq - 1
    /\ \A e, f \in Issued : e.seq = f.seq => e = f

(* The supersession ledger (session.rs:246-249, 543-555): taken in seq     *)
(* order, the decisions for a goal never go back to an older revision,     *)
(* however the minds overtake each other.                                  *)
DecisionsNeverRegress ==
    \A e, f \in Issued :
        /\ e.body = "decision" /\ f.body = "decision"
        /\ inbox[e.to].goal = inbox[f.to].goal
        /\ e.seq < f.seq
        => inbox[e.to].rev <= inbox[f.to].rev

(* "Every Invoke is gated by the registered set" (session.rs:124-125): a   *)
(* decision sent to the host invokes only what the host had registered     *)
(* when it sent the perceive, though it may have registered another set    *)
(* since.                                                                  *)
DecisionsFitSnapshot ==
    \A e \in Issued : e.body = "decision" => invokes[e.to] \subseteq snap[e.to]

(* Every line is answered on the wire, even one whose mind is still        *)
(* thinking when the connection is shut down.                              *)
EveryLineAnswered ==
    \A i \in Lines : i <= Len(inbox) ~> \E k \in 1 .. Len(wire) : wire[k].to = i

=============================================================================
