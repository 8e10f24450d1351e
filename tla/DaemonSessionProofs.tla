------------------------ MODULE DaemonSessionProofs ------------------------
(***************************************************************************)
(* Proofs about module DaemonSession, for any number of lines, souls,      *)
(* goals, revisions and capabilities.                                      *)
(*                                                                         *)
(* The replies are taken as one set, Issued: a handler or a finishing task *)
(* adds one reply to it, numbered by the counter, and write_one leaves it  *)
(* as it is.  What makes the properties of decisions inductive is JobInv:  *)
(* the ledger is at least the revision of every perceive that became a     *)
(* task, so that the one that passes the enact boundary is the newest.     *)
(***************************************************************************)
EXTENDS DaemonSession, TLAPS

\* A task belongs to a perceive, which the ledger has seen, and its outcome
\* was judged against its snapshot of the registry.
JobInv ==
    \A i \in Lines : job[i] # "none" =>
        /\ i <= Len(inbox) /\ inbox[i] \in Perceive
        /\ inbox[i].rev <= ledger[inbox[i].goal]
        /\ job[i] # "thinking" =>
              /\ verdict[i] # "none"
              /\ verdict[i] = "decision" => invokes[i] \subseteq snap[i]

\* A decision is the reply of a task that has finished.
DecisionInv ==
    \A e \in Issued : e.body = "decision" => job[e.to] = "finished" /\ verdict[e.to] = "decision"

\* The inductive invariant.
SessionInv ==
    TypeOK /\ JobInv /\ DecisionInv /\ AnsweredOnce /\ SeqsAccounted /\ DecisionsNeverRegress

-----------------------------------------------------------------------------
\* Reading a line leaves the earlier ones in place.
LEMMA ReadFacts ==
    ASSUME TypeOK, NEW m \in Message, Read(m)
    PROVE  /\ inbox' \in Seq(Message)
           /\ Len(inbox) \in Nat /\ Len(inbox') = Len(inbox) + 1 /\ Len(inbox') <= MaxIn
           /\ Len(inbox) + 1 \in Lines
           /\ \A i \in 1 .. Len(inbox) : inbox'[i] = inbox[i]
           /\ inbox'[Len(inbox) + 1] = m
  BY SessionConstants DEF TypeOK, Read, Lines

LEMMA IssuedTyped ==
    ASSUME TypeOK
    PROVE  Written \subseteq Envelope /\ Issued \subseteq Envelope
  BY DEF TypeOK, Written, Issued

\* A reply that draws its number is the one that is added to Issued.
LEMMA OutAdds ==
    ASSUME NEW i, NEW re, NEW body, Out(i, re, body), wire' = wire
    PROVE  /\ Issued' = Issued \cup {[seq |-> seq, to |-> i, re |-> re, body |-> body]}
           /\ Written' = Written
  BY DEF Out, Issued, Written

\* The part of the invariant that is about numbers, and about replies that
\* are not given twice, is kept by every reply to a line that has none.
LEMMA OutKeeps ==
    ASSUME TypeOK, AnsweredOnce, SeqsAccounted,
           NEW i \in Lines, NEW re \in BOOLEAN, NEW body \in Bodies,
           Out(i, re, body), wire' = wire,
           ~ \E e \in Issued : e.to = i
    PROVE  /\ seq' \in Nat /\ unwritten' \subseteq Envelope
           /\ SeqsAccounted'
           /\ \A e, f \in Issued' : e.to = f.to => e = f
           /\ \A k, l \in 1 .. Len(wire') : wire'[k] = wire'[l] => k = l
           /\ unwritten' \cap Written' = {}
  <1> DEFINE new == [seq |-> seq, to |-> i, re |-> re, body |-> body]
  <1>1. new \in Envelope /\ new.seq = seq /\ new.to = i
    BY DEF TypeOK, Envelope
  <1>2. Issued' = Issued \cup {new} /\ Written' = Written
    BY OutAdds
  <1>3. seq' = seq + 1 /\ seq \in Nat /\ unwritten' = unwritten \cup {new}
    BY DEF Out, TypeOK
  <1>4. \A e \in Issued : e.seq \in 0 .. seq - 1
    BY DEF SeqsAccounted
  <1>5. new \notin Issued
    BY <1>1, <1>3, <1>4
  <1>6. seq' \in Nat /\ unwritten' \subseteq Envelope
    BY <1>1, <1>3 DEF TypeOK
  <1>7. SeqsAccounted'
    <2>1. ASSUME NEW n \in 0 .. seq' - 1 PROVE \E e \in Issued' : e.seq = n
      <3>1. CASE n = seq
        BY <1>1, <1>2, <3>1
      <3>2. CASE n # seq
        <4>1. n \in 0 .. seq - 1
          BY <1>3, <3>2
        <4> QED BY <1>2, <4>1 DEF SeqsAccounted
      <3> QED BY <3>1, <3>2
    <2>2. ASSUME NEW e \in Issued' PROVE e.seq \in 0 .. seq' - 1
      BY <1>1, <1>2, <1>3, <1>4
    <2>3. ASSUME NEW e \in Issued', NEW f \in Issued', e.seq = f.seq PROVE e = f
      BY <1>1, <1>2, <1>3, <1>4, <2>3 DEF SeqsAccounted
    <2> QED BY <2>1, <2>2, <2>3 DEF SeqsAccounted
  <1>8. \A e, f \in Issued' : e.to = f.to => e = f
    BY <1>1, <1>2 DEF AnsweredOnce
  <1>9. \A k, l \in 1 .. Len(wire') : wire'[k] = wire'[l] => k = l
    BY DEF AnsweredOnce
  <1>10. unwritten' \cap Written' = {}
    BY <1>2, <1>3, <1>5 DEF AnsweredOnce, Issued
  <1> QED BY <1>6, <1>7, <1>8, <1>9, <1>10

-----------------------------------------------------------------------------
\* What the read loop answers at once.
LEMMA AnswerKeeps ==
    ASSUME SessionInv, NEW m \in Message, Read(m),
           NEW re \in BOOLEAN, NEW body \in Bodies \ {"decision"},
           NEW then \in {"writing", "closing"}, Answer(re, body, then),
           registered' \subseteq Caps, souls' \subseteq Souls, ledger' = ledger
    PROVE  SessionInv'
  <1> USE DEF SessionInv
  <1> DEFINE n == Len(inbox) + 1
             new == [seq |-> seq, to |-> n, re |-> re, body |-> body]
  <1>1. /\ Out(n, re, body) /\ reader' = then /\ wire' = wire
        /\ job' = job /\ snap' = snap /\ verdict' = verdict /\ invokes' = invokes
    BY DEF Answer, tasks
  <1>2. /\ inbox' \in Seq(Message) /\ Len(inbox') <= MaxIn /\ n \in Lines
        /\ Len(inbox) \in Nat /\ Len(inbox') = n
        /\ \A i \in 1 .. Len(inbox) : inbox'[i] = inbox[i]
    BY ReadFacts
  <1>3. ~ \E e \in Issued : e.to = n
    BY <1>2 DEF AnsweredOnce
  <1>4. job[n] = "none"
    BY <1>2 DEF JobInv
  <1>5. /\ seq' \in Nat /\ unwritten' \subseteq Envelope
        /\ SeqsAccounted'
        /\ \A e, f \in Issued' : e.to = f.to => e = f
        /\ \A k, l \in 1 .. Len(wire') : wire'[k] = wire'[l] => k = l
        /\ unwritten' \cap Written' = {}
    BY <1>1, <1>2, <1>3, OutKeeps
  <1>6. Issued' = Issued \cup {new} /\ new.to = n /\ new.body # "decision"
    BY <1>1, OutAdds
  <1>7. TypeOK'
    BY <1>1, <1>2, <1>5 DEF TypeOK
  <1>8. JobInv'
    BY <1>1, <1>2 DEF JobInv, Lines
  <1>9. DecisionInv'
    BY <1>1, <1>6 DEF DecisionInv
  <1>10. AnsweredOnce'
    <2>1. ASSUME NEW i \in Lines
          PROVE (\E e \in Issued' : e.to = i) <=> i <= Len(inbox') /\ ~InFlight(i)'
      <3>1. CASE i = n
        <4>1. new \in Issued'
          BY <1>6
        <4>2. i <= Len(inbox')
          BY <1>2, <3>1
        <4>3. ~InFlight(i)'
          BY <1>1, <1>4, <3>1 DEF InFlight
        <4> QED BY <1>6, <3>1, <4>1, <4>2, <4>3
      <3>2. CASE i # n
        <4>1. (\E e \in Issued' : e.to = i) <=> \E e \in Issued : e.to = i
          BY <1>6, <3>2
        <4>2. i <= Len(inbox') <=> i <= Len(inbox)
          BY <1>2, <3>2 DEF Lines
        <4> QED BY <1>1, <4>1, <4>2 DEF AnsweredOnce, InFlight
      <3> QED BY <3>1, <3>2
    <2> QED BY <1>5, <2>1 DEF AnsweredOnce
  <1>11. DecisionsNeverRegress'
    <2> SUFFICES ASSUME NEW e \in Issued', NEW f \in Issued',
                        e.body = "decision", f.body = "decision",
                        inbox'[e.to].goal = inbox'[f.to].goal, e.seq < f.seq
                 PROVE  inbox'[e.to].rev <= inbox'[f.to].rev
      BY DEF DecisionsNeverRegress
    <2>1. e \in Issued /\ f \in Issued
      BY <1>6
    <2>2. e.to \in 1 .. Len(inbox) /\ f.to \in 1 .. Len(inbox)
      BY <1>2, <2>1, IssuedTyped DEF DecisionInv, JobInv, Envelope, Lines
    <2> QED BY <1>2, <2>1, <2>2 DEF DecisionsNeverRegress
  <1> QED BY <1>5, <1>7, <1>8, <1>9, <1>10, <1>11

LEMMA MessagesTyped ==
    /\ \A t \in Types : [type |-> t] \in Message
    /\ \A g \in GoalIds, r \in Revs :
          /\ [type |-> "perceive", goal |-> g, rev |-> r] \in Message
          /\ [type |-> "perceive", goal |-> g, rev |-> r] \in Perceive
  BY DEF Message, Perceive

\* A perceive becomes a task: the ledger takes the maximum.
LEMMA BeginKeeps ==
    ASSUME SessionInv, NEW s \in Souls, NEW g \in GoalIds, NEW r \in Revs, BeginPerceive(s, g, r)
    PROVE  SessionInv'
  <1> USE DEF SessionInv
  <1> DEFINE n == Len(inbox) + 1
             m == [type |-> "perceive", goal |-> g, rev |-> r]
  <1>1. /\ m \in Message /\ m \in Perceive /\ m.goal = g /\ m.rev = r /\ Read(m)
    BY MessagesTyped DEF BeginPerceive
  <1> HIDE DEF m
  <1>2. /\ inbox' \in Seq(Message) /\ Len(inbox') <= MaxIn /\ n \in Lines
        /\ Len(inbox) \in Nat /\ Len(inbox') = n
        /\ \A i \in 1 .. Len(inbox) : inbox'[i] = inbox[i]
        /\ inbox'[n] = m
    BY <1>1, ReadFacts
  <1>3. /\ ledger' = [ledger EXCEPT ![g] = IF r > @ THEN r ELSE @]
        /\ job' = [job EXCEPT ![n] = "thinking"]
        /\ snap' = [snap EXCEPT ![n] = registered]
        /\ reader' = reader /\ registered' = registered /\ souls' = souls /\ seq' = seq
        /\ verdict' = verdict /\ invokes' = invokes /\ unwritten' = unwritten /\ wire' = wire
    BY DEF BeginPerceive
  <1>4. Issued' = Issued /\ Written' = Written
    BY <1>3 DEF Issued, Written
  <1>5. job[n] = "none" /\ ~ \E e \in Issued : e.to = n
    BY <1>2 DEF JobInv, AnsweredOnce
  <1>6. \A h \in GoalIds : ledger'[h] \in Revs /\ ledger[h] \in Revs /\ ledger[h] <= ledger'[h]
    BY <1>3, SessionConstants DEF TypeOK, Revs
  <1>7. TypeOK'
    <2>1. ledger' \in [GoalIds -> Revs]
      BY <1>3 DEF TypeOK
    <2> QED BY <1>2, <1>3, <2>1 DEF TypeOK
  <1>8. JobInv'
    <2> SUFFICES ASSUME NEW i \in Lines, job'[i] # "none"
                 PROVE  /\ i <= Len(inbox') /\ inbox'[i] \in Perceive
                        /\ inbox'[i].rev <= ledger'[inbox'[i].goal]
                        /\ job'[i] # "thinking" =>
                              /\ verdict'[i] # "none"
                              /\ verdict'[i] = "decision" => invokes'[i] \subseteq snap'[i]
      BY DEF JobInv
    <2>1. CASE i = n
      <3>1. r <= ledger'[g]
        BY <1>3, SessionConstants DEF TypeOK, Revs
      <3> QED BY <1>1, <1>2, <1>3, <2>1, <3>1 DEF TypeOK
    <2>2. CASE i # n
      <3>1. job'[i] = job[i] /\ snap'[i] = snap[i]
        BY <1>3, <2>2 DEF TypeOK
      <3>2. /\ i \in 1 .. Len(inbox) /\ inbox[i] \in Perceive /\ inbox[i].rev <= ledger[inbox[i].goal]
            /\ job[i] # "thinking" =>
                  /\ verdict[i] # "none"
                  /\ verdict[i] = "decision" => invokes[i] \subseteq snap[i]
        BY <3>1 DEF JobInv, Lines
      <3>3. inbox[i].goal \in GoalIds /\ inbox[i].rev \in Nat
        BY <3>2, SessionConstants DEF Perceive, Revs
      <3>4. inbox[i].rev <= ledger'[inbox[i].goal]
        BY <1>6, <3>2, <3>3, SessionConstants DEF Revs
      <3> QED BY <1>2, <1>3, <3>1, <3>2, <3>4
    <2> QED BY <2>1, <2>2
  <1>9. \A e \in Issued : e.to # n /\ e.to \in Lines /\ job'[e.to] = job[e.to]
    BY <1>3, <1>5, IssuedTyped DEF TypeOK, Envelope
  <1>10. DecisionInv'
    BY <1>3, <1>4, <1>9 DEF DecisionInv
  <1>11. AnsweredOnce'
    <2>1. ASSUME NEW i \in Lines
          PROVE (\E e \in Issued' : e.to = i) <=> i <= Len(inbox') /\ ~InFlight(i)'
      <3>1. CASE i = n
        <4>1. job'[n] = "thinking"
          BY <1>2, <1>3 DEF TypeOK
        <4> QED BY <1>4, <1>5, <3>1, <4>1 DEF InFlight
      <3>2. CASE i # n
        <4>1. job'[i] = job[i]
          BY <1>3, <3>2 DEF TypeOK
        <4>2. i <= Len(inbox') <=> i <= Len(inbox)
          BY <1>2, <3>2 DEF Lines
        <4> QED BY <1>4, <4>1, <4>2 DEF AnsweredOnce, InFlight
      <3> QED BY <3>1, <3>2
    <2> QED BY <1>3, <1>4, <2>1 DEF AnsweredOnce
  <1>12. SeqsAccounted'
    BY <1>3, <1>4 DEF SeqsAccounted
  <1>13. DecisionsNeverRegress'
    <2> SUFFICES ASSUME NEW e \in Issued', NEW f \in Issued',
                        e.body = "decision", f.body = "decision",
                        inbox'[e.to].goal = inbox'[f.to].goal, e.seq < f.seq
                 PROVE  inbox'[e.to].rev <= inbox'[f.to].rev
      BY DEF DecisionsNeverRegress
    <2>1. e \in Issued /\ f \in Issued
      BY <1>4
    <2>2. e.to \in 1 .. Len(inbox) /\ f.to \in 1 .. Len(inbox)
      BY <1>2, <2>1, IssuedTyped DEF DecisionInv, JobInv, Envelope, Lines
    <2> QED BY <1>2, <2>1, <2>2 DEF DecisionsNeverRegress
  <1> QED BY <1>7, <1>8, <1>10, <1>11, <1>12, <1>13

-----------------------------------------------------------------------------
\* The mind decides and its intents are dispatched.
LEMMA DispatchedKeeps ==
    ASSUME SessionInv, NEW i \in Lines, NEW S \in SUBSET Caps,
           NEW v \in {"decision"} \cup Failures, Dispatched(i, S, v)
    PROVE  SessionInv'
  <1> USE DEF SessionInv
  <1>1. /\ job[i] = "thinking" /\ (v = "decision" => S \subseteq snap[i])
        /\ job' = [job EXCEPT ![i] = "decided"]
        /\ verdict' = [verdict EXCEPT ![i] = v]
        /\ invokes' = [invokes EXCEPT ![i] = S]
        /\ reader' = reader /\ inbox' = inbox /\ seq' = seq /\ snap' = snap
        /\ registered' = registered /\ souls' = souls /\ ledger' = ledger
        /\ unwritten' = unwritten /\ wire' = wire
    BY DEF Dispatched, session, Failures
  <1>2. Issued' = Issued /\ Written' = Written
    BY <1>1 DEF Issued, Written
  <1>3. TypeOK'
    BY <1>1 DEF TypeOK
  <1>4. JobInv'
    <2> SUFFICES ASSUME NEW k \in Lines, job'[k] # "none"
                 PROVE  /\ k <= Len(inbox) /\ inbox[k] \in Perceive
                        /\ inbox[k].rev <= ledger[inbox[k].goal]
                        /\ job'[k] # "thinking" =>
                              /\ verdict'[k] # "none"
                              /\ verdict'[k] = "decision" => invokes'[k] \subseteq snap[k]
      BY <1>1 DEF JobInv
    <2>1. CASE k = i
      <3>1. verdict'[k] = v /\ invokes'[k] = S /\ v # "none"
        BY <1>1, <2>1 DEF TypeOK, Failures
      <3> QED BY <1>1, <2>1, <3>1 DEF JobInv
    <2>2. CASE k # i
      <3>1. job'[k] = job[k] /\ verdict'[k] = verdict[k] /\ invokes'[k] = invokes[k]
        BY <1>1, <2>2 DEF TypeOK
      <3> QED BY <3>1 DEF JobInv
    <2> QED BY <2>1, <2>2
  <1>5. \A k \in Lines : InFlight(k)' <=> InFlight(k)
    BY <1>1 DEF InFlight, TypeOK
  <1>6. DecisionInv'
    <2> SUFFICES ASSUME NEW e \in Issued, e.body = "decision"
                 PROVE  job'[e.to] = "finished" /\ verdict'[e.to] = "decision"
      BY <1>2 DEF DecisionInv
    <2>1. e.to \in Lines /\ job[e.to] = "finished" /\ verdict[e.to] = "decision"
      BY IssuedTyped DEF DecisionInv, Envelope
    <2> QED BY <1>1, <2>1 DEF TypeOK
  <1>7. AnsweredOnce'
    BY <1>1, <1>2, <1>5 DEF AnsweredOnce
  <1>8. SeqsAccounted' /\ DecisionsNeverRegress'
    BY <1>1, <1>2 DEF SeqsAccounted, DecisionsNeverRegress
  <1> QED BY <1>3, <1>4, <1>6, <1>7, <1>8

\* The enact boundary: a decision passes only if the ledger has no newer
\* revision, so that it is at least as new as every earlier one.
LEMMA FinishKeeps ==
    ASSUME SessionInv, NEW i \in Lines, FinishPerceive(i)
    PROVE  SessionInv'
  <1> USE DEF SessionInv
  <1> DEFINE body == IF inbox[i].rev < ledger[inbox[i].goal] THEN "Superseded" ELSE verdict[i]
             new == [seq |-> seq, to |-> i, re |-> TRUE, body |-> body]
  <1>1. /\ job[i] = "decided" /\ job' = [job EXCEPT ![i] = "finished"]
        /\ Out(i, TRUE, body)
        /\ reader' = reader /\ inbox' = inbox /\ snap' = snap /\ verdict' = verdict
        /\ registered' = registered /\ souls' = souls /\ ledger' = ledger
        /\ invokes' = invokes /\ wire' = wire
    BY DEF FinishPerceive, session
  <1>2. /\ i \in 1 .. Len(inbox) /\ inbox[i] \in Perceive
        /\ inbox[i].rev <= ledger[inbox[i].goal]
        /\ inbox[i].goal \in GoalIds /\ inbox[i].rev \in Nat /\ ledger[inbox[i].goal] \in Nat
    BY <1>1, SessionConstants DEF JobInv, Lines, Perceive, Revs, TypeOK
  <1>3. verdict[i] # "none" /\ (verdict[i] = "decision" => invokes[i] \subseteq snap[i])
    BY <1>1 DEF JobInv
  <1>4. body \in Bodies
    BY <1>3 DEF TypeOK, Bodies, Errors, Failures
  <1>5. ~ \E e \in Issued : e.to = i
    BY <1>1 DEF AnsweredOnce, InFlight
  <1> HIDE DEF body
  <1>6. /\ seq' \in Nat /\ unwritten' \subseteq Envelope
        /\ SeqsAccounted'
        /\ \A e, f \in Issued' : e.to = f.to => e = f
        /\ \A k, l \in 1 .. Len(wire') : wire'[k] = wire'[l] => k = l
        /\ unwritten' \cap Written' = {}
    BY <1>1, <1>4, <1>5, OutKeeps
  <1>7. Issued' = Issued \cup {new} /\ new.to = i /\ new.body = body /\ new.seq = seq
    BY <1>1, OutAdds
  <1>8. TypeOK'
    BY <1>1, <1>6 DEF TypeOK
  <1>9. JobInv'
    BY <1>1, <1>3 DEF JobInv, TypeOK
  <1>10. \A e \in Issued : e.to \in Lines /\ e.to # i /\ job'[e.to] = job[e.to]
    BY <1>1, <1>5, IssuedTyped DEF TypeOK, Envelope
  <1>11. body = "decision" => verdict[i] = "decision" /\ ~(inbox[i].rev < ledger[inbox[i].goal])
    BY DEF body
  <1>12. DecisionInv'
    <2>1. job'[i] = "finished"
      BY <1>1 DEF TypeOK
    <2> QED BY <1>1, <1>7, <1>10, <1>11, <2>1 DEF DecisionInv
  <1>13. AnsweredOnce'
    <2>1. ASSUME NEW k \in Lines
          PROVE (\E e \in Issued' : e.to = k) <=> k <= Len(inbox') /\ ~InFlight(k)'
      <3>1. CASE k = i
        <4>1. job'[i] = "finished"
          BY <1>1 DEF TypeOK
        <4>2. new \in Issued' /\ new.to = k
          BY <1>7, <3>1
        <4>3. k <= Len(inbox') /\ ~InFlight(k)'
          BY <1>1, <1>2, <3>1, <4>1 DEF InFlight
        <4> QED BY <4>2, <4>3
      <3>2. CASE k # i
        <4>1. job'[k] = job[k]
          BY <1>1, <3>2 DEF TypeOK
        <4>2. (\E e \in Issued' : e.to = k) <=> \E e \in Issued : e.to = k
          BY <1>7, <3>2
        <4> QED BY <1>1, <4>1, <4>2 DEF AnsweredOnce, InFlight
      <3> QED BY <3>1, <3>2
    <2> QED BY <1>6, <2>1 DEF AnsweredOnce
  <1>14. DecisionsNeverRegress'
    <2> SUFFICES ASSUME NEW e \in Issued', NEW f \in Issued',
                        e.body = "decision", f.body = "decision",
                        inbox[e.to].goal = inbox[f.to].goal, e.seq < f.seq
                 PROVE  inbox[e.to].rev <= inbox[f.to].rev
      BY <1>1 DEF DecisionsNeverRegress
    <2>1. \A x \in Issued : x.seq \in 0 .. seq - 1
      BY DEF SeqsAccounted
    <2>2. seq \in Nat
      BY DEF TypeOK
    <2>3. e \in Issued
      BY <1>7, <2>1, <2>2
    <2>4. CASE f \in Issued
      BY <2>3, <2>4 DEF DecisionsNeverRegress
    <2>5. CASE f = new
      <3>1. inbox[i].rev = ledger[inbox[i].goal]
        BY <1>2, <1>7, <1>11, <2>5
      <3>2. e.to \in Lines /\ job[e.to] # "none"
        BY <2>3, IssuedTyped DEF DecisionInv, Envelope
      <3>3. inbox[e.to].rev <= ledger[inbox[e.to].goal]
        BY <3>2 DEF JobInv
      <3> QED BY <1>7, <2>5, <3>1, <3>3
    <2> QED BY <1>7, <2>4, <2>5
  <1> QED BY <1>6, <1>8, <1>9, <1>12, <1>13, <1>14

-----------------------------------------------------------------------------
\* write_one moves a reply and changes no set of replies.
LEMMA WriteKeeps ==
    ASSUME SessionInv, NEW e \in unwritten, Write(e)
    PROVE  SessionInv'
  <1> USE DEF SessionInv
  <1>1. /\ unwritten' = unwritten \ {e} /\ wire' = Append(wire, e)
        /\ reader' \in {reader, "closed", "reading"}
        /\ inbox' = inbox /\ seq' = seq
        /\ registered' = registered /\ souls' = souls /\ ledger' = ledger
        /\ job' = job /\ snap' = snap /\ verdict' = verdict /\ invokes' = invokes
    BY DEF Write, session, tasks
  <1>2. /\ wire \in Seq(Envelope) /\ e \in Envelope /\ Len(wire) \in Nat
        /\ wire' \in Seq(Envelope) /\ Len(wire') = Len(wire) + 1
        /\ \A k \in 1 .. Len(wire) : wire'[k] = wire[k]
        /\ wire'[Len(wire) + 1] = e
    BY <1>1 DEF TypeOK
  <1>3. Written' = Written \cup {e}
    <2>1. ASSUME NEW x \in Written' PROVE x \in Written \cup {e}
      <3>1. PICK k \in 1 .. Len(wire') : x = wire'[k]
        BY DEF Written
      <3> QED BY <1>2, <3>1 DEF Written
    <2>2. ASSUME NEW x \in Written \cup {e} PROVE x \in Written'
      BY <1>2 DEF Written
    <2> QED BY <2>1, <2>2
  <1>4. Issued' = Issued
    BY <1>1, <1>3 DEF Issued
  <1>5. e \notin Written
    BY DEF AnsweredOnce
  <1>6. \A k, l \in 1 .. Len(wire') : wire'[k] = wire'[l] => k = l
    BY <1>2, <1>5 DEF AnsweredOnce, Written
  <1>7. unwritten' \cap Written' = {}
    BY <1>1, <1>3 DEF AnsweredOnce
  <1>8. TypeOK'
    BY <1>1, <1>2 DEF TypeOK
  <1>9. JobInv' /\ DecisionInv' /\ SeqsAccounted' /\ DecisionsNeverRegress'
    BY <1>1, <1>4 DEF JobInv, DecisionInv, SeqsAccounted, DecisionsNeverRegress
  <1>10. AnsweredOnce'
    BY <1>1, <1>4, <1>6, <1>7 DEF AnsweredOnce, InFlight
  <1> QED BY <1>8, <1>9, <1>10

-----------------------------------------------------------------------------
LEMMA InitKeeps == Init => SessionInv
  <1> SUFFICES ASSUME Init PROVE SessionInv
    OBVIOUS
  <1>1. Issued = {} /\ Written = {} /\ Len(wire) = 0 /\ Len(inbox) = 0
    BY DEF Init, Issued, Written
  <1>2. TypeOK
    BY SessionConstants DEF Init, TypeOK, Revs
  <1>3. JobInv /\ DecisionInv /\ DecisionsNeverRegress
    BY <1>1 DEF Init, JobInv, DecisionInv, DecisionsNeverRegress
  <1>4. AnsweredOnce
    BY <1>1 DEF Init, AnsweredOnce, Lines
  <1>5. SeqsAccounted
    BY <1>1 DEF Init, SeqsAccounted
  <1> QED BY <1>2, <1>3, <1>4, <1>5 DEF SessionInv

\* One step per handler of the read loop.
LEMMA HandleKeeps ==
    ASSUME SessionInv, Handle
    PROVE  SessionInv'
  <1>1. SessionInv /\ TypeOK /\ registered \subseteq Caps /\ souls \subseteq Souls
    BY DEF SessionInv, TypeOK
  <1>2. \A b \in {"welcome", "ack", "VersionUnsupported", "ProviderFailure", "UnknownSoul",
                  "UnknownType", "BadFrame"} : b \in Bodies \ {"decision"}
    BY DEF Bodies, Errors
  <1>3. CASE Hello
    BY <1>1, <1>2, <1>3, AnswerKeeps, MessagesTyped DEF Hello, session, Types
  <1>4. CASE OldHello
    BY <1>1, <1>2, <1>4, AnswerKeeps, MessagesTyped DEF OldHello, session, Types
  <1>5. CASE RegisterDuplicate
    BY <1>1, <1>2, <1>5, AnswerKeeps, MessagesTyped DEF RegisterDuplicate, session, Types
  <1>6. CASE Misdirected
    BY <1>1, <1>2, <1>6, AnswerKeeps, MessagesTyped DEF Misdirected, session, Types
  <1>7. CASE Unparsable
    BY <1>1, <1>2, <1>7, AnswerKeeps, MessagesTyped DEF Unparsable, session, Types
  <1>8. CASE Shutdown
    BY <1>1, <1>2, <1>8, AnswerKeeps, MessagesTyped DEF Shutdown, session, Types
  <1>9. CASE HangUp
    <2>1. /\ reader' = "closed" /\ inbox' = inbox /\ seq' = seq
          /\ registered' = registered /\ souls' = souls /\ ledger' = ledger
          /\ job' = job /\ snap' = snap /\ verdict' = verdict /\ invokes' = invokes
          /\ unwritten' = unwritten /\ wire' = wire
      BY <1>9 DEF HangUp, session, tasks
    <2>2. Issued' = Issued /\ Written' = Written
      BY <2>1 DEF Issued, Written
    <2>3. TypeOK' /\ JobInv' /\ DecisionInv'
      BY <1>1, <2>1, <2>2 DEF SessionInv, TypeOK, JobInv, DecisionInv
    <2>4. AnsweredOnce' /\ SeqsAccounted' /\ DecisionsNeverRegress'
      BY <1>1, <2>1, <2>2 DEF SessionInv, AnsweredOnce, InFlight, SeqsAccounted, DecisionsNeverRegress
    <2> QED BY <2>3, <2>4 DEF SessionInv
  <1>10. ASSUME NEW S \in SUBSET Caps, Register(S) PROVE SessionInv'
    BY <1>1, <1>2, <1>10, AnswerKeeps, MessagesTyped DEF Register, Types
  <1>11. ASSUME NEW s \in Souls, Instantiate(s) PROVE SessionInv'
    BY <1>1, <1>2, <1>11, AnswerKeeps, MessagesTyped DEF Instantiate, Types
  <1>12. ASSUME NEW s \in Souls, Release(s) PROVE SessionInv'
    BY <1>1, <1>2, <1>12, AnswerKeeps, MessagesTyped DEF Release, Types
  <1>13. ASSUME NEW s \in Souls, NEW g \in GoalIds, NEW r \in Revs, PerceiveUnknown(s, g, r)
         PROVE  SessionInv'
    BY <1>1, <1>2, <1>13, AnswerKeeps, MessagesTyped DEF PerceiveUnknown, session
  <1> QED
    BY <1>3, <1>4, <1>5, <1>6, <1>7, <1>8, <1>9, <1>10, <1>11, <1>12, <1>13, <1>1, BeginKeeps
       DEF Handle

\* The invariant is inductive.
THEOREM SessionInvariant == Spec => []SessionInv
  <1>1. Init => SessionInv
    BY InitKeeps
  <1>2. SessionInv /\ [Next]_vars => SessionInv'
    <2> SUFFICES ASSUME SessionInv, [Next]_vars PROVE SessionInv'
      OBVIOUS
    <2>1. CASE Handle
      BY <2>1, HandleKeeps
    <2>2. ASSUME NEW i \in Lines, Task(i) PROVE SessionInv'
      BY <2>2, DispatchedKeeps, FinishKeeps DEF Task
    <2>3. ASSUME NEW e \in unwritten, Write(e) PROVE SessionInv'
      BY <2>3, WriteKeeps
    <2>4. CASE UNCHANGED vars
      <3>1. /\ reader' = reader /\ inbox' = inbox /\ seq' = seq
            /\ registered' = registered /\ souls' = souls /\ ledger' = ledger
            /\ job' = job /\ snap' = snap /\ verdict' = verdict /\ invokes' = invokes
            /\ unwritten' = unwritten /\ wire' = wire
        BY <2>4 DEF vars, session, tasks
      <3>2. Issued' = Issued /\ Written' = Written
        BY <3>1 DEF Issued, Written
      <3>3. TypeOK' /\ JobInv' /\ DecisionInv'
        BY <3>1, <3>2 DEF SessionInv, TypeOK, JobInv, DecisionInv
      <3>4. AnsweredOnce' /\ SeqsAccounted' /\ DecisionsNeverRegress'
        BY <3>1, <3>2 DEF SessionInv, AnsweredOnce, InFlight, SeqsAccounted, DecisionsNeverRegress
      <3> QED BY <3>3, <3>4 DEF SessionInv
    <2> QED BY <2>1, <2>2, <2>3, <2>4 DEF Next
  <1> QED BY <1>1, <1>2, PTL DEF Spec

\* The session, its tasks and its replies keep their types (session.rs, server.rs).
THEOREM SessionTypeCorrect == Spec => []TypeOK
  BY SessionInvariant, PTL DEF SessionInv

\* However tasks, handlers and writers interleave, a line of the host is
\* answered once (Session::handle, finish_perceive_with_outcome, write_one).
THEOREM RepliesOnce == Spec => []AnsweredOnce
  BY SessionInvariant, PTL DEF SessionInv

\* The numbers drawn from the session's counter are 0 .. seq - 1, each on one
\* reply (Session::alloc_seq).
THEOREM SeqsAreAccounted == Spec => []SeqsAccounted
  BY SessionInvariant, PTL DEF SessionInv

\* In the order of their numbers the decisions for a goal never go back to an
\* older revision (Session::finish_perceive_with_outcome).
THEOREM NoRegress == Spec => []DecisionsNeverRegress
  BY SessionInvariant, PTL DEF SessionInv

\* A decision invokes only what was registered when its perceive was begun
\* (Session::begin_perceive, dispatch_decision_async).
THEOREM SnapshotRespected == Spec => []DecisionsFitSnapshot
  <1>1. SessionInv => DecisionsFitSnapshot
    <2> SUFFICES ASSUME SessionInv, NEW e \in Issued, e.body = "decision"
                 PROVE  invokes[e.to] \subseteq snap[e.to]
      BY DEF DecisionsFitSnapshot
    <2>1. e.to \in Lines /\ job[e.to] = "finished" /\ verdict[e.to] = "decision"
      BY IssuedTyped DEF SessionInv, DecisionInv, Envelope
    <2> QED BY <2>1 DEF SessionInv, JobInv
  <1> QED BY <1>1, SessionInvariant, PTL
=============================================================================
