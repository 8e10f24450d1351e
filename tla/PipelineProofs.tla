--------------------------- MODULE PipelineProofs ---------------------------
(***************************************************************************)
(* Proofs about pipeline.rs: module Pipeline, for any set of concurrent    *)
(* dispatches, any registry, policy and number of hooks; and module        *)
(* Governors, for any grants, rules, host lists and chains.                *)
(*                                                                         *)
(* The type-state chain of pipeline.rs becomes an invariant: the stage a   *)
(* call has reached determines its trail and what is known of its request. *)
(* NestInv ties a nested call to the executor that made it.                *)
(*                                                                         *)
(* What a policy allows is a function of its tables, so the theorems about *)
(* the governors rest on their types alone; that more rules only narrow    *)
(* needs the first rule that speaks to be well defined (FirstSpeaks).      *)
(* That globs match what they denote compares two recursive definitions:   *)
(* each satisfies its equation (DownwardRecursion), and they agree from    *)
(* the end of the glob to its start (DownwardInduction).  Where code and   *)
(* comment part is shown by the last three theorems.                       *)
(***************************************************************************)
EXTENDS Pipeline, Governors, TLAPS, WellFoundedInduction, SequenceTheorems

VOk == <<"validate", "Ok">>
GOk == <<"govern", "Ok">>
XOk == <<"execute", "Ok">>
XErr == <<"execute", "Error">>

\* The first stages of the trail, and nothing else; then the whole trail.
Judged(c) == Len(trail[c]) = 2 /\ trail[c][1] = VOk /\ trail[c][2] = GOk
Ran(c, last) ==
    Len(trail[c]) = 3 /\ trail[c][1] = VOk /\ trail[c][2] = GOk /\ trail[c][3] = last
RefusedEarly(c) ==
    \/ Len(trail[c]) = 1 /\ trail[c][1] \in {<<"resolve", "Error">>, <<"validate", "Error">>}
    \/ Len(trail[c]) = 2 /\ trail[c][1] = VOk /\ trail[c][2] = <<"govern", "Denied">>

RanAndFailed(c) == stage[c] = "failed" /\ Ran(c, XErr)

\* The trail, stage by stage.
StageInv(c) ==
    /\ stage[c] \in {"free", "resolve", "validate"} => Len(trail[c]) = 0
    /\ stage[c] = "govern" => Len(trail[c]) = 1 /\ trail[c][1] = VOk
    /\ stage[c] \in {"hooks", "run", "posthooks"} => Judged(c)
    /\ stage[c] = "effected" => Ran(c, XOk)
    /\ stage[c] = "failed" =>
          RefusedEarly(c) \/ (Judged(c) /\ pre[c] < NHooks) \/ Ran(c, XErr)

RequestInv(c) ==
    /\ stage[c] \in {"validate", "govern"} => CapOf[req[c]] \in Registered
    /\ stage[c] = "govern" => req[c] \in Valid
    /\ stage[c] \in {"hooks", "run", "posthooks", "effected"} \/ RanAndFailed(c)
          => req[c] \in MayAct

HookInv(c) ==
    /\ stage[c] \in {"run", "posthooks", "effected"} \/ RanAndFailed(c) => pre[c] = NHooks
    /\ stage[c] = "run" => post[c] = 0
    /\ stage[c] \in {"free", "resolve", "validate", "govern", "hooks"} => post[c] = 0
    /\ stage[c] \in {"posthooks", "effected"} /\ ok[c] /\ ~invoker[c]
          => CapOf[req[c]] \notin Composite
    /\ stage[c] = "effected" => ok[c]

NestInv(c) ==
    parent[c] # None =>
        /\ stage[c] # "free" /\ ~invoker[c]
        /\ stage[parent[c]] \in {"run", "posthooks", "effected"} \/ RanAndFailed(parent[c])
        /\ stage[parent[c]] # "free"
        /\ parent[parent[c]] = None
        /\ OriginOf[req[c]] = OriginOf[req[parent[c]]]
        /\ InFlight(c) => stage[parent[c]] = "run"

CallInv(c) == StageInv(c) /\ RequestInv(c) /\ HookInv(c) /\ NestInv(c)

PipeInv == TypeOK /\ \A c \in Calls : CallInv(c)

-----------------------------------------------------------------------------
\* How a trail grows.
LEMMA TrailGrows ==
    ASSUME NEW t \in Seq(Entry), NEW e \in Entry
    PROVE  /\ Append(t, e) \in Seq(Entry)
           /\ Len(Append(t, e)) = Len(t) + 1
           /\ Append(t, e)[Len(t) + 1] = e
           /\ \A i \in 1 .. Len(t) : Append(t, e)[i] = t[i]
  OBVIOUS

LEMMA InitPipe == Init => PipeInv
  <1> SUFFICES ASSUME Init PROVE PipeInv
    OBVIOUS
  <1> USE PipelineConstants DEF Init
  <1>1. req \in [Calls -> Requests]
    OBVIOUS
  <1>2. TypeOK
    BY <1>1 DEF TypeOK, Stages
  <1>3. ASSUME NEW c \in Calls PROVE CallInv(c)
    BY <1>3 DEF CallInv, StageInv, RequestInv, HookInv, NestInv, RanAndFailed,
                Ran, Judged, RefusedEarly
  <1>4. QED BY <1>2, <1>3 DEF PipeInv

-----------------------------------------------------------------------------
(* A step of call c touches only c, and lets no nested call of c outlive   *)
(* its executor.                                                           *)
Executing(c) == stage[c] \in {"run", "posthooks", "effected"} \/ RanAndFailed(c)

OnlyTouches(c) ==
    \A d \in Calls \ {c} :
        /\ stage'[d] = stage[d] /\ req'[d] = req[d] /\ parent'[d] = parent[d]
        /\ invoker'[d] = invoker[d] /\ pre'[d] = pre[d] /\ post'[d] = post[d]
        /\ ok'[d] = ok[d] /\ trail'[d] = trail[d]

KeepsNested(c) ==
    Executing(c) =>
        /\ Executing(c)'
        /\ req'[c] = req[c] /\ parent'[c] = parent[c]
        /\ \A d \in Calls : parent[d] = c /\ InFlight(d) => stage'[c] = "run"

LEMMA OthersKeep ==
    ASSUME PipeInv, NEW c \in Calls, OnlyTouches(c), KeepsNested(c), NEW d \in Calls \ {c}
    PROVE  CallInv(d)'
  <1>1. CallInv(d)
    BY DEF PipeInv
  <1>2. (StageInv(d) /\ RequestInv(d) /\ HookInv(d))'
    BY <1>1 DEF OnlyTouches, CallInv, StageInv, RequestInv, HookInv, RanAndFailed,
                Ran, Judged, RefusedEarly
  <1>3. NestInv(d)'
    <2> SUFFICES ASSUME parent[d] # None PROVE NestInv(d)'
      BY DEF OnlyTouches, NestInv
    <2>1. parent[d] \in Calls
      BY DEF PipeInv, TypeOK
    <2>2. CASE parent[d] # c
      BY <1>1, <2>1, <2>2 DEF OnlyTouches, CallInv, NestInv, RanAndFailed, Ran, InFlight
    <2>3. CASE parent[d] = c
      <3>1. Executing(c)
        BY <1>1, <2>3 DEF CallInv, NestInv, Executing
      <3>2. /\ Executing(c)' /\ req'[c] = req[c] /\ parent'[c] = parent[c]
            /\ InFlight(d) => stage'[c] = "run"
        BY <3>1, <2>3 DEF KeepsNested
      <3>3. stage'[c] # "free"
        BY <3>2 DEF Executing, RanAndFailed
      <3>4. QED
        BY <1>1, <2>3, <3>2, <3>3
           DEF OnlyTouches, CallInv, NestInv, Executing, InFlight
    <2>4. QED BY <2>2, <2>3
  <1>4. QED BY <1>2, <1>3 DEF CallInv

\* A call that only moves on stays nested where it was.
LEMMA OwnNestKept ==
    ASSUME PipeInv, NEW c \in Calls, OnlyTouches(c), UNCHANGED <<req, parent, invoker>>,
           stage'[c] # "free", InFlight(c)' => InFlight(c)
    PROVE  NestInv(c)'
  <1> SUFFICES ASSUME parent[c] # None PROVE NestInv(c)'
    BY DEF NestInv
  <1>1. NestInv(c) /\ parent[c] \in Calls
    BY DEF PipeInv, CallInv, TypeOK
  <1>2. parent[c] # c
    BY <1>1 DEF NestInv
  <1>3. QED BY <1>1, <1>2 DEF NestInv, OnlyTouches, RanAndFailed, Ran

LEMMA EnterKeeps ==
    ASSUME PipeInv, NEW c \in Calls, NEW r \in Requests, NEW p \in Calls \cup {None},
           NEW inv \in BOOLEAN, Enter(c, r, p, inv),
           p # None => /\ stage[p] = "run" /\ invoker[p] /\ ~inv
                       /\ OriginOf[r] = OriginOf[req[p]]
    PROVE  PipeInv'
  <1> USE DEF PipeInv
  <1>1. TypeOK'
    BY DEF TypeOK, Enter, GoTo, Stages
  <1>2. OnlyTouches(c) /\ KeepsNested(c)
    BY DEF TypeOK, Enter, GoTo, OnlyTouches, KeepsNested, Executing, RanAndFailed
  <1>3. CallInv(c)'
    <2>1. CallInv(c) /\ stage[c] = "free" /\ stage'[c] = "resolve" /\ trail'[c] = trail[c]
          /\ post'[c] = post[c] /\ parent'[c] = p /\ req'[c] = r /\ invoker'[c] = inv
      BY DEF TypeOK, Enter, GoTo
    <2>2. (StageInv(c) /\ RequestInv(c) /\ HookInv(c))'
      BY <2>1 DEF CallInv, StageInv, RequestInv, HookInv, RanAndFailed
    <2>3. NestInv(c)'
      <3> SUFFICES ASSUME p # None PROVE NestInv(c)'
        BY <2>1 DEF NestInv
      <3>1. p # c /\ p \in Calls
        BY <2>1
      <3>2. stage'[p] = "run" /\ req'[p] = req[p] /\ parent'[p] = parent[p]
        BY <3>1, <1>2 DEF OnlyTouches
      <3>3. parent[p] = None
        BY <3>1 DEF CallInv, NestInv
      <3>4. QED BY <2>1, <3>1, <3>2, <3>3 DEF NestInv, InFlight, Settled
    <2>4. QED BY <2>2, <2>3 DEF CallInv
  <1>4. QED BY <1>1, <1>2, <1>3, OthersKeep

-----------------------------------------------------------------------------
(* The stages.  Each leaf states what the step does to call c, and then    *)
(* that c keeps its invariant; OthersKeep does the rest.                   *)

\* What one appended entry does to the trail of c.
LEMMA RecordGrows ==
    ASSUME PipeInv, NEW c \in Calls, NEW what, NEW status,
           <<what, status>> \in Entry, Record(c, what, status)
    PROVE  /\ trail' \in [Calls -> Seq(Entry)]
           /\ Len(trail'[c]) = Len(trail[c]) + 1
           /\ trail'[c][Len(trail[c]) + 1] = <<what, status>>
           /\ \A i \in 1 .. Len(trail[c]) : trail'[c][i] = trail[c][i]
           /\ \A d \in Calls \ {c} : trail'[d] = trail[d]
  <1>1. trail \in [Calls -> Seq(Entry)]
    BY DEF PipeInv, TypeOK
  <1>2. trail' = [trail EXCEPT ![c] = Append(trail[c], <<what, status>>)]
    BY DEF Record
  <1> DEFINE e == <<what, status>>
  <1> HIDE DEF e
  <1>3. e \in Entry
    BY DEF e
  <1>4. /\ Append(trail[c], e) \in Seq(Entry)
        /\ Len(Append(trail[c], e)) = Len(trail[c]) + 1
        /\ Append(trail[c], e)[Len(trail[c]) + 1] = e
        /\ \A i \in 1 .. Len(trail[c]) : Append(trail[c], e)[i] = trail[c][i]
    BY <1>1, <1>3, TrailGrows
  <1>5. trail' = [trail EXCEPT ![c] = Append(trail[c], e)]
    BY <1>2 DEF e
  <1>6. QED BY <1>1, <1>4, <1>5 DEF e

\* The same for the first entry of all.
LEMMA RecordFirst ==
    ASSUME PipeInv, NEW c \in Calls, NEW what, NEW status,
           <<what, status>> \in Entry, Record(c, what, status), Len(trail[c]) = 0
    PROVE  Len(trail'[c]) = 1 /\ trail'[c][1] = <<what, status>>
  <1>1. /\ trail' \in [Calls -> Seq(Entry)]
        /\ Len(trail'[c]) = Len(trail[c]) + 1
        /\ trail'[c][Len(trail[c]) + 1] = <<what, status>>
        /\ \A i \in 1 .. Len(trail[c]) : trail'[c][i] = trail[c][i]
        /\ \A d \in Calls \ {c} : trail'[d] = trail[d]
    BY RecordGrows
  <1>2. Len(trail[c]) + 1 = 1
    OBVIOUS
  <1>3. QED BY <1>1, <1>2

LEMMA RecordSecond ==
    ASSUME PipeInv, NEW c \in Calls, NEW what, NEW status,
           <<what, status>> \in Entry, Record(c, what, status)
    PROVE  Len(trail[c]) = 1 =>
              /\ Len(trail'[c]) = 2 /\ trail'[c][1] = trail[c][1]
              /\ trail'[c][2] = <<what, status>>
  <1>1. /\ Len(trail'[c]) = Len(trail[c]) + 1
        /\ trail'[c][Len(trail[c]) + 1] = <<what, status>>
        /\ \A i \in 1 .. Len(trail[c]) : trail'[c][i] = trail[c][i]
    BY RecordGrows
  <1>2. HAVE Len(trail[c]) = 1
  <1>3. Len(trail[c]) + 1 = 2 /\ 1 \in 1 .. Len(trail[c])
    BY <1>2
  <1>4. QED BY <1>1, <1>3

\* The stages before the executor: nothing is nested in c yet.
LEMMA JudgingKeeps ==
    ASSUME PipeInv, NEW c \in Calls, Resolve(c) \/ Validate(c) \/ Govern(c)
    PROVE  PipeInv'
  <1> USE PipelineConstants
  <1>1. CallInv(c) /\ TypeOK
    BY DEF PipeInv
  <1>2. UNCHANGED <<req, parent, invoker, pre, post, ok>>
    BY DEF Resolve, Validate, Govern
  <1>3. stage' \in [Calls -> Stages] /\ \A d \in Calls \ {c} : stage'[d] = stage[d]
    BY <1>1 DEF TypeOK, Resolve, Validate, Govern, GoTo, Stages, Settled
  <1>4. ~Executing(c)
    BY DEF Resolve, Validate, Govern, Executing, RanAndFailed
  <1>5. /\ trail' \in [Calls -> Seq(Entry)]
        /\ \A d \in Calls \ {c} : trail'[d] = trail[d]
    <2>1. CASE UNCHANGED trail
      BY <2>1, <1>1 DEF TypeOK
    <2>2. CASE \E what, status : <<what, status>> \in Entry /\ Record(c, what, status)
      BY <2>2, RecordGrows
    <2>3. <<"resolve", "Error">> \in Entry /\ <<"validate", "Error">> \in Entry
          /\ <<"govern", "Denied">> \in Entry /\ <<"validate", "Ok">> \in Entry
          /\ <<"govern", "Ok">> \in Entry
      BY DEF Entry
    <2>4. QED BY <2>1, <2>2, <2>3 DEF Resolve, Validate, Govern
  <1>6. TypeOK'
    BY <1>1, <1>2, <1>3, <1>5 DEF TypeOK
  <1>7. OnlyTouches(c) /\ KeepsNested(c)
    BY <1>2, <1>3, <1>4, <1>5 DEF OnlyTouches, KeepsNested
  <1>8. CASE stage'[c] = "failed"
    <2>1. RefusedEarly(c)'
      <3>1. CASE Resolve(c)
        <4>1. Record(c, "resolve", "Error") /\ <<"resolve", "Error">> \in Entry
          BY <1>1, <1>8, <3>1 DEF Resolve, GoTo, TypeOK, Entry
        <4>2. Len(trail[c]) = 0
          BY <1>1, <3>1 DEF Resolve, CallInv, StageInv
        <4>3. Len(trail'[c]) = 1 /\ trail'[c][1] = <<"resolve", "Error">>
          BY <4>1, <4>2, RecordFirst
        <4>4. QED BY <4>3 DEF RefusedEarly
      <3>2. CASE Validate(c)
        <4>1. Record(c, "validate", "Error") /\ <<"validate", "Error">> \in Entry
          BY <1>1, <1>8, <3>2 DEF Validate, GoTo, TypeOK, Entry
        <4>2. Len(trail[c]) = 0
          BY <1>1, <3>2 DEF Validate, CallInv, StageInv
        <4>3. Len(trail'[c]) = 1 /\ trail'[c][1] = <<"validate", "Error">>
          BY <4>1, <4>2, RecordFirst
        <4>4. QED BY <4>3 DEF RefusedEarly
      <3>3. CASE Govern(c)
        <4>1. Record(c, "govern", "Denied") /\ <<"govern", "Denied">> \in Entry
          BY <1>1, <1>8, <3>3 DEF Govern, GoTo, TypeOK, Entry
        <4>2. Len(trail[c]) = 1 /\ trail[c][1] = VOk
          BY <1>1, <3>3 DEF Govern, CallInv, StageInv
        <4>3. /\ Len(trail'[c]) = 2 /\ trail'[c][1] = VOk
              /\ trail'[c][2] = <<"govern", "Denied">>
          BY <4>1, <4>2, RecordSecond
        <4>4. QED BY <4>3 DEF RefusedEarly
      <3>4. QED BY <3>1, <3>2, <3>3
    <2>2. ~Ran(c, XErr)'
      BY <2>1 DEF RefusedEarly, Ran
    <2>3. CallInv(c)'
      <3>1. NestInv(c)'
        BY <1>2, <1>7, <1>8, OwnNestKept DEF InFlight, Settled
      <3>2. (StageInv(c) /\ RequestInv(c) /\ HookInv(c))'
        BY <1>8, <2>1, <2>2 DEF StageInv, RequestInv, HookInv, RanAndFailed
      <3>3. QED BY <3>1, <3>2 DEF CallInv
    <2>4. QED BY <1>6, <1>7, <2>3, OthersKeep DEF PipeInv
  <1>9. CASE stage'[c] # "failed"
    <2>1. CASE Resolve(c)
      <3>1. CapOf[req[c]] \in Registered /\ stage'[c] = "validate" /\ trail' = trail
        BY <1>1, <1>9, <2>1 DEF Resolve, GoTo, TypeOK
      <3>2. CallInv(c)'
        <4>1. NestInv(c)'
          BY <1>1, <1>2, <1>7, <2>1, <3>1, <2>1, OwnNestKept DEF InFlight, Settled, Resolve
        <4>2. (StageInv(c) /\ RequestInv(c) /\ HookInv(c))'
          BY <1>1, <1>2, <1>7, <2>1, <3>1, <2>1
             DEF CallInv, StageInv, RequestInv, HookInv, RanAndFailed, Resolve
        <4>3. QED BY <4>1, <4>2 DEF CallInv
      <3>3. QED BY <1>6, <1>7, <3>2, OthersKeep DEF PipeInv
    <2>2. CASE Validate(c)
      <3>1. /\ req[c] \in Valid /\ stage'[c] = "govern" /\ stage[c] = "validate"
            /\ Record(c, "validate", "Ok") /\ <<"validate", "Ok">> \in Entry
        BY <1>1, <1>9, <2>2 DEF Validate, GoTo, TypeOK, Entry
      <3>2. Len(trail'[c]) = 1 /\ trail'[c][1] = VOk
        <4>1. Len(trail[c]) = 0
          BY <1>1, <3>1 DEF CallInv, StageInv
        <4>2. QED BY <3>1, <4>1, RecordFirst DEF VOk
      <3>3. CallInv(c)'
        <4>1. NestInv(c)'
          BY <1>1, <1>2, <1>7, <3>1, <3>2, <2>2, OwnNestKept DEF InFlight, Settled, Validate
        <4>2. (StageInv(c) /\ RequestInv(c) /\ HookInv(c))'
          BY <1>1, <1>2, <1>7, <3>1, <3>2, <2>2
             DEF CallInv, StageInv, RequestInv, HookInv, RanAndFailed, Validate
        <4>3. QED BY <4>1, <4>2 DEF CallInv
      <3>4. QED BY <1>6, <1>7, <3>3, OthersKeep DEF PipeInv
    <2>3. CASE Govern(c)
      <3>1. /\ Policy[req[c]] = "Allow" /\ stage'[c] = "hooks" /\ stage[c] = "govern"
            /\ Record(c, "govern", "Ok") /\ <<"govern", "Ok">> \in Entry
        BY <1>1, <1>9, <2>3 DEF Govern, GoTo, TypeOK, Entry
      <3>2. Judged(c)'
        <4>1. Len(trail[c]) = 1 /\ trail[c][1] = VOk
          BY <1>1, <3>1 DEF CallInv, StageInv
        <4>2. QED BY <3>1, <4>1, RecordSecond DEF Judged, GOk
      <3>3. req[c] \in MayAct
        BY <1>1, <3>1 DEF CallInv, RequestInv, MayAct, TypeOK
      <3>4. CallInv(c)'
        <4>1. NestInv(c)'
          BY <1>1, <1>2, <1>7, <3>1, <3>2, <3>3, <2>3, OwnNestKept DEF InFlight, Settled, Govern
        <4>2. (StageInv(c) /\ RequestInv(c) /\ HookInv(c))'
          BY <1>1, <1>2, <1>7, <3>1, <3>2, <3>3, <2>3
             DEF CallInv, StageInv, RequestInv, HookInv, RanAndFailed, Govern
        <4>3. QED BY <4>1, <4>2 DEF CallInv
      <3>5. QED BY <1>6, <1>7, <3>4, OthersKeep DEF PipeInv
    <2>4. QED BY <2>1, <2>2, <2>3
  <1>10. QED BY <1>8, <1>9

\* Hooks and executor.  HookAborts leaves a judged call with hooks to go.
LEMMA ExecutingKeeps ==
    ASSUME PipeInv, NEW c \in Calls,
           \/ PreHook(c) \/ HookAborts(c) \/ StartExecutor(c) \/ PostHook(c)
           \/ \E good \in BOOLEAN : ExecutorReturns(c, good)
    PROVE  PipeInv'
  <1> USE PipelineConstants
  <1>1. CallInv(c) /\ TypeOK
    BY DEF PipeInv
  <1>2. UNCHANGED <<req, parent, invoker, trail>>
    BY DEF PreHook, HookAborts, StartExecutor, PostHook, ExecutorReturns
  <1>3. /\ stage' \in [Calls -> Stages] /\ ok' \in [Calls -> BOOLEAN]
        /\ pre' \in [Calls -> 0 .. NHooks] /\ post' \in [Calls -> 0 .. NHooks]
        /\ OnlyTouches(c)
    <2>1. CASE PreHook(c)
      BY <1>1, <2>1 DEF TypeOK, PreHook, OnlyTouches
    <2>2. CASE HookAborts(c)
      BY <1>1, <2>2 DEF TypeOK, HookAborts, GoTo, OnlyTouches, Stages, Settled
    <2>3. CASE StartExecutor(c)
      BY <1>1, <2>3 DEF TypeOK, StartExecutor, GoTo, OnlyTouches, Stages, Settled
    <2>4. CASE PostHook(c)
      BY <1>1, <2>4 DEF TypeOK, PostHook, OnlyTouches
    <2>5. ASSUME NEW good \in BOOLEAN, ExecutorReturns(c, good)
          PROVE  /\ stage' \in [Calls -> Stages] /\ ok' \in [Calls -> BOOLEAN]
                 /\ pre' \in [Calls -> 0 .. NHooks] /\ post' \in [Calls -> 0 .. NHooks]
                 /\ OnlyTouches(c)
      BY <1>1, <2>5 DEF TypeOK, ExecutorReturns, GoTo, OnlyTouches, Stages, Settled
    <2>6. QED BY <2>1, <2>2, <2>3, <2>4, <2>5
  <1>4. TypeOK'
    BY <1>1, <1>2, <1>3 DEF TypeOK
  <1>5. KeepsNested(c)
    BY <1>1 DEF TypeOK, PreHook, HookAborts, StartExecutor, PostHook, ExecutorReturns, GoTo,
           KeepsNested, Executing, RanAndFailed, PipeInv, CallInv, NestInv
  <1>6. /\ stage[c] \in {"hooks", "run", "posthooks"}
        /\ stage'[c] \in {"hooks", "failed", "run", "posthooks"}
        /\ Judged(c)
    BY <1>1 DEF PreHook, HookAborts, StartExecutor, PostHook, ExecutorReturns, GoTo,
                CallInv, StageInv, TypeOK
  <1>7. NestInv(c)'
    BY <1>2, <1>3, <1>6, OwnNestKept DEF InFlight, Settled
  <1>8. Judged(c)' /\ ~Ran(c, XErr)'
    BY <1>2, <1>6 DEF Judged, Ran
  <1>9. StageInv(c)'
    <2>1. stage'[c] = "failed" => pre'[c] < NHooks
      BY <1>1, <1>6 DEF TypeOK, PreHook, HookAborts, StartExecutor, PostHook, ExecutorReturns,
                        GoTo
    <2>2. QED BY <1>6, <1>8, <2>1 DEF StageInv
  <1>10. RequestInv(c)'
    BY <1>1, <1>2, <1>6, <1>8 DEF CallInv, RequestInv, RanAndFailed
  <1>11. HookInv(c)'
    <2> USE <1>1, <1>8 DEF TypeOK, CallInv, HookInv, RanAndFailed
    <2>1. CASE PreHook(c)
      BY <2>1 DEF PreHook
    <2>2. CASE HookAborts(c)
      BY <2>2 DEF HookAborts, GoTo
    <2>3. CASE StartExecutor(c)
      BY <2>3 DEF StartExecutor, GoTo
    <2>4. CASE PostHook(c)
      BY <2>4 DEF PostHook
    <2>5. ASSUME NEW good \in BOOLEAN, ExecutorReturns(c, good) PROVE HookInv(c)'
      BY <2>5 DEF ExecutorReturns, GoTo
    <2>6. QED BY <2>1, <2>2, <2>3, <2>4, <2>5
  <1>12. QED
    BY <1>3, <1>4, <1>5, <1>7, <1>9, <1>10, <1>11, OthersKeep DEF PipeInv, CallInv

LEMMA FinishKeeps ==
    ASSUME PipeInv, NEW c \in Calls, Finish(c)
    PROVE  PipeInv'
  <1> USE PipelineConstants
  <1>1. CallInv(c) /\ TypeOK /\ stage[c] = "posthooks"
    BY DEF PipeInv, Finish
  <1>2. UNCHANGED <<req, parent, invoker, pre, post, ok>>
    BY DEF Finish
  <1>3. /\ stage' \in [Calls -> Stages]
        /\ \A d \in Calls \ {c} : stage'[d] = stage[d]
        /\ ok[c] => stage'[c] = "effected"
        /\ ~ok[c] => stage'[c] = "failed"
    BY <1>1 DEF TypeOK, Finish, GoTo, Stages, Settled
  <1> DEFINE status == IF ok[c] THEN "Ok" ELSE "Error"
  <1>4. <<"execute", status>> \in Entry /\ Record(c, "execute", status)
    BY DEF Finish, Entry
  <1>5. /\ trail' \in [Calls -> Seq(Entry)]
        /\ \A d \in Calls \ {c} : trail'[d] = trail[d]
        /\ Len(trail'[c]) = Len(trail[c]) + 1
        /\ trail'[c][Len(trail[c]) + 1] = <<"execute", status>>
        /\ \A i \in 1 .. Len(trail[c]) : trail'[c][i] = trail[c][i]
    <2> HIDE DEF status
    <2>1. QED BY <1>4, RecordGrows
  <1>6. Judged(c)
    BY <1>1 DEF CallInv, StageInv
  <1>7. /\ ok[c] => Ran(c, XOk)'
        /\ ~ok[c] => Ran(c, XErr)'
    BY <1>5, <1>6 DEF Judged, Ran, XOk, XErr
  <1>8. TypeOK'
    BY <1>1, <1>2, <1>3, <1>5 DEF TypeOK
  <1>9. OnlyTouches(c) /\ KeepsNested(c)
    <2>1. OnlyTouches(c)
      BY <1>2, <1>3, <1>5 DEF OnlyTouches
    <2>2. Executing(c)'
      BY <1>3, <1>7 DEF Executing, RanAndFailed
    <2>3. ASSUME NEW d \in Calls, parent[d] = c, InFlight(d) PROVE FALSE
      <3>1. parent[d] # None
        BY <2>3
      <3>2. QED BY <1>1, <2>3, <3>1 DEF PipeInv, CallInv, NestInv
    <2>4. QED BY <1>2, <2>1, <2>2, <2>3 DEF KeepsNested
  <1>10. ok[c] \in BOOLEAN
    BY <1>1 DEF TypeOK
  <1>11. ~RanAndFailed(c)
    BY <1>1 DEF RanAndFailed
  <1>12. CallInv(c)'
    <2> USE <1>1, <1>2, <1>3, <1>7, <1>9, <1>10
    <2>1. (StageInv(c) /\ RequestInv(c) /\ HookInv(c))'
      BY DEF CallInv, StageInv, RequestInv, HookInv, RanAndFailed
    <2>2. NestInv(c)'
      BY DEF CallInv, NestInv, InFlight, Settled, OnlyTouches, TypeOK, RanAndFailed, Ran
    <2>3. QED BY <2>1, <2>2 DEF CallInv
  <1>13. QED BY <1>8, <1>9, <1>12, OthersKeep DEF PipeInv

-----------------------------------------------------------------------------
LEMMA StutterKeeps == PipeInv /\ UNCHANGED vars => PipeInv'
  BY DEF PipeInv, CallInv, StageInv, RequestInv, HookInv, NestInv, RanAndFailed, Ran, Judged,
         RefusedEarly, InFlight, TypeOK, vars

LEMMA NextKeeps == PipeInv /\ [Next]_vars => PipeInv'
  <1> SUFFICES ASSUME PipeInv, [Next]_vars PROVE PipeInv'
    OBVIOUS
  <1>1. CASE UNCHANGED vars
    BY <1>1, StutterKeeps
  <1>2. ASSUME NEW c \in Calls, Step(c) PROVE PipeInv'
    BY <1>2, JudgingKeeps, ExecutingKeeps, FinishKeeps DEF Step
  <1>3. ASSUME NEW c \in Calls, NEW r \in Requests, Dispatch(c, r) \/ DispatchWithInvoker(c, r)
        PROVE  PipeInv'
    BY <1>3, EnterKeeps DEF Dispatch, DispatchWithInvoker
  <1>4. ASSUME NEW c \in Calls, NEW r \in Requests, NEW p \in Calls, NestedInvoke(p, c, r)
        PROVE  PipeInv'
    BY <1>4, EnterKeeps DEF NestedInvoke
  <1>5. QED BY <1>1, <1>2, <1>3, <1>4 DEF Next

-----------------------------------------------------------------------------
(* The invariant, for every behaviour of the pipeline.                     *)
THEOREM PipeInvariant == Spec => []PipeInv
  BY InitPipe, NextKeeps, PTL DEF Spec

(* Stages, trails and hook counters stay within their types: no hook is    *)
(* called more often than there are hooks.                                 *)
THEOREM PipeTypeCorrect == Spec => []TypeOK
  <1>1. PipeInv => TypeOK
    BY DEF PipeInv
  <1>2. QED BY <1>1, PipeInvariant, PTL

\* An executor that was called left its mark in the stage or in the trail.
LEMMA ActedMeansExecuting ==
    ASSUME PipeInv, NEW c \in Calls PROVE Acted(c) <=> Executing(c)
  <1>1. CallInv(c) /\ TypeOK
    BY DEF PipeInv
  <1>2. ASSUME stage[c] = "failed", NEW i \in 1 .. Len(trail[c]), trail[c][i][1] = "execute"
        PROVE  Ran(c, XErr)
    BY <1>1, <1>2 DEF CallInv, StageInv, RefusedEarly, Judged, VOk, GOk
  <1>3. Ran(c, XErr) => 3 \in 1 .. Len(trail[c]) /\ trail[c][3][1] = "execute"
    BY DEF Ran, XErr
  <1>4. QED BY <1>2, <1>3 DEF Acted, Executing, RanAndFailed

(* Execution cannot happen without a passing govern decision, with any     *)
(* number of dispatches in flight: pipeline.rs's type-state guarantee.     *)
THEOREM GovernedOnly == Spec => []EffectsAreGoverned
  <1>1. PipeInv => EffectsAreGoverned
    <2> SUFFICES ASSUME PipeInv, NEW c \in Calls, Acted(c)
                 PROVE  /\ req[c] \in MayAct
                        /\ pre[c] = NHooks
                        /\ Len(trail[c]) >= 2
                        /\ trail[c][1] = <<"validate", "Ok">>
                        /\ trail[c][2] = <<"govern", "Ok">>
      BY DEF EffectsAreGoverned
    <2>1. Executing(c) /\ CallInv(c)
      BY ActedMeansExecuting DEF PipeInv
    <2>2. Judged(c) \/ Ran(c, XOk) \/ Ran(c, XErr)
      BY <2>1 DEF CallInv, StageInv, Executing, RanAndFailed
    <2>3. Len(trail[c]) >= 2 /\ trail[c][1] = VOk /\ trail[c][2] = GOk
      BY <2>2 DEF Judged, Ran
    <2>4. QED BY <2>1, <2>3 DEF CallInv, RequestInv, HookInv, Executing, VOk, GOk
  <1>2. QED BY <1>1, PipeInvariant, PTL

(* A nested invocation is in flight only inside its parent's governed      *)
(* execution, under its parent's origin (invoker.rs:145-158).              *)
THEOREM NestedCallsInside == Spec => []NestedInsideParent
  <1>1. PipeInv => NestedInsideParent
    <2> SUFFICES ASSUME PipeInv, NEW c \in Calls, parent[c] # None
                 PROVE  /\ OriginOf[req[c]] = OriginOf[req[parent[c]]]
                        /\ Acted(parent[c]) /\ req[parent[c]] \in MayAct
                        /\ InFlight(c) => stage[parent[c]] = "run" /\ post[parent[c]] = 0
      BY DEF NestedInsideParent
    <2>1. parent[c] \in Calls /\ NestInv(c)
      BY DEF PipeInv, TypeOK, CallInv
    <2>2. CallInv(parent[c])
      BY <2>1 DEF PipeInv
    <2>3. Executing(parent[c])
      BY <2>1 DEF NestInv, Executing
    <2>4. Acted(parent[c])
      BY <2>1, <2>3, ActedMeansExecuting
    <2>5. QED BY <2>1, <2>2, <2>3, <2>4 DEF NestInv, CallInv, RequestInv, HookInv, Executing
  <1>2. QED BY <1>1, PipeInvariant, PTL

(* Nesting stops after one level, and a nested composite capability never  *)
(* succeeds: PipelineInvoker hands no invoker on.                          *)
THEOREM NestingStops == Spec => []NestingIsShallow
  <1>1. PipeInv => NestingIsShallow
    BY DEF PipeInv, CallInv, NestInv, HookInv, NestingIsShallow
  <1>2. QED BY <1>1, PipeInvariant, PTL

(* The trail of a settled call tells how it ended.                         *)
THEOREM TrailIsTruthful == Spec => []TrailTellsOutcome
  <1>1. PipeInv => TrailTellsOutcome
    <2> SUFFICES ASSUME PipeInv, NEW c \in Calls
                 PROVE  /\ stage[c] = "effected" => LastOf(c) = XOk
                        /\ stage[c] = "failed" =>
                              \/ LastOf(c) \in {<<"resolve", "Error">>, <<"validate", "Error">>,
                                                <<"govern", "Denied">>, XErr}
                              \/ LastOf(c) = GOk /\ pre[c] < NHooks
      BY DEF TrailTellsOutcome, XOk, XErr, GOk
    <2>1. StageInv(c)
      BY DEF PipeInv, CallInv
    <2>2. QED BY <2>1 DEF StageInv, Ran, Judged, RefusedEarly, LastOf
  <1>2. QED BY <1>1, PipeInvariant, PTL

-----------------------------------------------------------------------------
(* The refinement.                                                         *)

\* A step moves the phase of its own call only.
LEMMA PhaseMoves ==
    ASSUME NEW c \in Calls, OnlyTouches(c), NEW to, PhaseOf(c)' = to
    PROVE  [d \in Calls |-> PhaseOf(d)]' = [[d \in Calls |-> PhaseOf(d)] EXCEPT ![c] = to]
  <1>1. ASSUME NEW d \in Calls \ {c} PROVE PhaseOf(d)' = PhaseOf(d)
    BY DEF OnlyTouches, PhaseOf, Acted
  <1>2. QED BY <1>1

LEMMA OnlyOneTouched ==
    ASSUME PipeInv, NEW c \in Calls,
           \/ Step(c)
           \/ \E r \in Requests, p \in Calls \cup {None}, inv \in BOOLEAN : Enter(c, r, p, inv)
    PROVE  OnlyTouches(c)
  <1> USE DEF PipeInv, TypeOK, OnlyTouches, GoTo, Record
  <1>1. CASE Resolve(c) \/ Validate(c) \/ Govern(c)
    BY <1>1 DEF Resolve, Validate, Govern
  <1>2. CASE PreHook(c) \/ HookAborts(c) \/ StartExecutor(c) \/ PostHook(c)
    BY <1>2 DEF PreHook, HookAborts, StartExecutor, PostHook
  <1>3. CASE \E good \in BOOLEAN : ExecutorReturns(c, good)
    BY <1>3 DEF ExecutorReturns
  <1>4. CASE Finish(c)
    BY <1>4 DEF Finish
  <1>5. CASE \E r \in Requests, p \in Calls \cup {None}, inv \in BOOLEAN : Enter(c, r, p, inv)
    BY <1>5 DEF Enter
  <1>6. QED BY <1>1, <1>2, <1>3, <1>4, <1>5 DEF Step

LEMMA EnterAsks ==
    ASSUME PipeInv, NEW c \in Calls, NEW r \in Requests, NEW p \in Calls \cup {None},
           NEW inv \in BOOLEAN, Enter(c, r, p, inv)
    PROVE  Promise!Ask(c, r)
  <1>1. PhaseOf(c) = "idle" /\ PhaseOf(c)' = "asked"
    BY DEF PipeInv, TypeOK, Enter, GoTo, PhaseOf
  <1>2. OnlyTouches(c)
    BY OnlyOneTouched
  <1>3. QED BY <1>1, <1>2, PhaseMoves DEF Promise!Ask, Promise!Move, Enter

\* Recording a refusal is not recording an execution.
LEMMA RefusalLeavesNoRun ==
    ASSUME PipeInv, NEW c \in Calls, Resolve(c) \/ Validate(c) \/ Govern(c)
    PROVE  ~Executing(c)'
  <1>1. CallInv(c) /\ TypeOK
    BY DEF PipeInv
  <1>2. Len(trail'[c]) # 3
    <2>1. Len(trail[c]) = 0 \/ Len(trail[c]) = 1
      BY <1>1 DEF CallInv, StageInv, Resolve, Validate, Govern
    <2>2. CASE trail' = trail
      BY <2>1, <2>2
    <2>3. CASE \E what, status : <<what, status>> \in Entry /\ Record(c, what, status)
      <3>1. PICK what, status : <<what, status>> \in Entry /\ Record(c, what, status)
        BY <2>3
      <3>2. Len(trail'[c]) = Len(trail[c]) + 1
        BY <3>1, RecordGrows
      <3>3. CASE Len(trail[c]) = 0
        BY <3>2, <3>3
      <3>4. CASE Len(trail[c]) = 1
        BY <3>2, <3>4
      <3>5. QED BY <2>1, <3>3, <3>4
    <2>4. <<"resolve", "Error">> \in Entry /\ <<"validate", "Error">> \in Entry
          /\ <<"govern", "Denied">> \in Entry /\ <<"validate", "Ok">> \in Entry
          /\ <<"govern", "Ok">> \in Entry
      BY DEF Entry
    <2>5. QED BY <2>2, <2>3, <2>4 DEF Resolve, Validate, Govern
  <1>3. stage'[c] \in {"validate", "govern", "hooks", "failed"}
    BY <1>1 DEF TypeOK, Resolve, Validate, Govern, GoTo
  <1>4. QED BY <1>2, <1>3 DEF Executing, RanAndFailed, Ran

LEMMA FinishLeavesRun ==
    ASSUME PipeInv, PipeInv', NEW c \in Calls, Finish(c)
    PROVE  Executing(c)'
  <1>1. CallInv(c) /\ TypeOK /\ CallInv(c)' /\ stage[c] = "posthooks"
    BY DEF PipeInv, Finish
  <1>2. stage'[c] \in {"effected", "failed"} /\ Len(trail[c]) = 2
    BY <1>1 DEF TypeOK, Finish, GoTo, CallInv, StageInv, Judged
  <1>3. Len(trail'[c]) = 3
    <2>1. PICK status : <<"execute", status>> \in Entry /\ Record(c, "execute", status)
      <3>1. <<"execute", "Ok">> \in Entry /\ <<"execute", "Error">> \in Entry
        BY DEF Entry
      <3>2. CASE ok[c]
        BY <3>1, <3>2 DEF Finish
      <3>3. CASE ~ok[c]
        BY <3>1, <3>3 DEF Finish
      <3>4. QED BY <3>2, <3>3
    <2>2. Len(trail'[c]) = Len(trail[c]) + 1
      BY <2>1, RecordGrows
    <2>3. QED BY <1>2, <2>2
  <1>4. QED
    BY <1>1, <1>2, <1>3 DEF CallInv, StageInv, RefusedEarly, Judged, Executing, RanAndFailed

\* A step of the pipeline is a step of the promise or leaves the phases alone.
LEMMA StepIsPromised ==
    ASSUME PipeInv, PipeInv', NEW c \in Calls, Step(c)
    PROVE  [Promise!GNext]_<<[d \in Calls |-> PhaseOf(d)], req>>
  <1> DEFINE phase == [d \in Calls |-> PhaseOf(d)]
  <1>1. OnlyTouches(c) /\ req' = req
    BY OnlyOneTouched DEF Step, Resolve, Validate, Govern, PreHook, HookAborts, StartExecutor,
                          PostHook, ExecutorReturns, Finish
  <1>2. CallInv(c) /\ CallInv(c)' /\ stage \in [Calls -> Stages]
    BY DEF PipeInv, TypeOK
  <1>3. Acted(c)' <=> Executing(c)'
    <2>1. (Acted(c) <=> Executing(c))'
      BY ActedMeansExecuting, PTL
    <2>2. QED BY <2>1
  <1>4. CASE PhaseOf(c)' = PhaseOf(c)
    <2>1. phase' = phase
      BY <1>1, <1>4, PhaseMoves
    <2>2. QED BY <1>1, <2>1
  <1>5. CASE PhaseOf(c) = "asked" /\ PhaseOf(c)' = "refused"
    BY <1>1, <1>5, PhaseMoves DEF Promise!GNext, Promise!Refuse, Promise!Move
  <1>6. CASE PhaseOf(c) = "asked" /\ PhaseOf(c)' = "acting"
    <2>1. req[c] \in MayAct
      BY <1>1, <1>2, <1>6 DEF PhaseOf, CallInv, RequestInv
    <2>2. QED BY <1>1, <1>6, <2>1, PhaseMoves DEF Promise!GNext, Promise!Act, Promise!Move
  <1>7. CASE PhaseOf(c) = "acting" /\ PhaseOf(c)' = "effected"
    BY <1>1, <1>7, PhaseMoves DEF Promise!GNext, Promise!Succeed, Promise!Move
  <1>8. CASE PhaseOf(c) = "acting" /\ PhaseOf(c)' = "broken"
    BY <1>1, <1>8, PhaseMoves DEF Promise!GNext, Promise!Break, Promise!Move
  <1>9. CASE Resolve(c) \/ Validate(c) \/ Govern(c) \/ PreHook(c) \/ HookAborts(c)
                \/ StartExecutor(c)
    <2>1. PhaseOf(c) = "asked"
      BY <1>9 DEF PhaseOf, Resolve, Validate, Govern, PreHook, HookAborts, StartExecutor
    <2>2. stage'[c] \in {"validate", "govern", "hooks", "run", "failed"}
      BY <1>2, <1>9 DEF Resolve, Validate, Govern, PreHook, HookAborts, StartExecutor, GoTo
    <2>3. stage'[c] = "failed" => ~Executing(c)'
      <3>1. CASE Resolve(c) \/ Validate(c) \/ Govern(c)
        BY <1>2, <3>1, RefusalLeavesNoRun
      <3>2. CASE HookAborts(c)
        BY <1>2, <3>2 DEF HookAborts, CallInv, StageInv, Judged, Executing, RanAndFailed, Ran
      <3>3. CASE PreHook(c) \/ StartExecutor(c)
        BY <1>2, <3>3 DEF PreHook, StartExecutor, GoTo
      <3>4. QED BY <1>9, <3>1, <3>2, <3>3
    <2>4. PhaseOf(c)' \in {"asked", "acting", "refused"}
      BY <1>3, <2>2, <2>3 DEF PhaseOf, Settled
    <2>5. QED BY <1>4, <1>5, <1>6, <2>1, <2>4
  <1>10. CASE PostHook(c) \/ Finish(c) \/ \E good \in BOOLEAN : ExecutorReturns(c, good)
    <2>1. PhaseOf(c) = "acting" /\ Executing(c)
      BY <1>10 DEF PhaseOf, PostHook, Finish, ExecutorReturns, Executing
    <2>2. stage'[c] \in {"posthooks", "effected", "failed"}
      BY <1>2, <1>10 DEF PostHook, Finish, ExecutorReturns, GoTo
    <2>3. stage'[c] = "failed" => Executing(c)'
      <3>1. CASE Finish(c)
        BY <3>1, FinishLeavesRun
      <3>2. CASE PostHook(c) \/ \E good \in BOOLEAN : ExecutorReturns(c, good)
        BY <1>2, <3>2 DEF PostHook, ExecutorReturns, GoTo
      <3>3. QED BY <1>10, <3>1, <3>2
    <2>4. PhaseOf(c)' \in {"acting", "effected", "broken"}
      BY <1>3, <2>2, <2>3 DEF PhaseOf
    <2>5. QED BY <1>4, <1>7, <1>8, <2>1, <2>4
  <1>11. QED BY <1>9, <1>10 DEF Step

(* The pipeline implements the abstract promise: a request is judged once, *)
(* the request judged is the one executed, and only if it may act.         *)
THEOREM PipelineKeepsPromise == Spec => KeepsPromise
  <1>1. Init => Promise!GInit
    BY DEF Init, Promise!GInit, PhaseOf
  <1>2. PipeInv /\ PipeInv' /\ [Next]_vars
          => [Promise!GNext]_<<[c \in Calls |-> PhaseOf(c)], req>>
    <2> SUFFICES ASSUME PipeInv, PipeInv', [Next]_vars
                 PROVE  [Promise!GNext]_<<[c \in Calls |-> PhaseOf(c)], req>>
      OBVIOUS
    <2>1. CASE UNCHANGED vars
      BY <2>1 DEF vars, PhaseOf, Acted
    <2>2. ASSUME NEW k \in Calls, Step(k)
          PROVE  [Promise!GNext]_<<[c \in Calls |-> PhaseOf(c)], req>>
      BY <2>2, StepIsPromised
    <2>3. ASSUME NEW k \in Calls, NEW r \in Requests, NEW p \in Calls \cup {None},
                 NEW inv \in BOOLEAN, Enter(k, r, p, inv)
          PROVE  Promise!GNext
      BY <2>3, EnterAsks DEF Promise!GNext
    <2>4. QED
      BY <2>1, <2>2, <2>3 DEF Next, Dispatch, DispatchWithInvoker, NestedInvoke
  <1>3. QED
    BY <1>1, <1>2, PipeInvariant, PTL DEF Spec, KeepsPromise, Promise!Governed

-----------------------------------------------------------------------------
(* The governors.                                                          *)

\* Every set of naturals that has an element has a least one.
LEMMA LeastElement ==
    ASSUME NEW T \in SUBSET Nat, T # {}
    PROVE  \E x \in T : \A y \in T : x <= y
  <1> DEFINE R == OpToRel(<, Nat)
  <1>1. IsWellFoundedOn(R, Nat)
    BY NatLessThanWellFounded
  <1>2. \A x, y \in Nat : <<y, x>> \in R <=> y < x
    BY DEF OpToRel
  <1> HIDE DEF R
  <1>3. PICK x \in T : \A y \in T : ~(<<y, x>> \in R)
    BY <1>1, WFMin
  <1>4. \A y \in T : ~(y < x)
    BY <1>2, <1>3
  <1> QED BY <1>4

(* The tables that grant, allow_path, deny_path, allow_hosts and push build  *)
(* keep their types.                                                         *)
THEOREM PolicyTypes == PolicySpec => []PolicyTypeOK
  <1>1. PolicyInit => PolicyTypeOK
    BY PolicyConstants DEF PolicyInit, PolicyTypeOK
  <1>2. PolicyTypeOK /\ [PolicyNext]_policyVars => PolicyTypeOK'
    <2> SUFFICES ASSUME PolicyTypeOK, [PolicyNext]_policyVars PROVE PolicyTypeOK'
      OBVIOUS
    <2> USE DEF PolicyTypeOK
    <2>1. ASSUME NEW o \in Origins, NEW ps \in SUBSET CapPrefixes, Grant(o, ps)
          PROVE  PolicyTypeOK'
      BY <2>1 DEF Grant
    <2>2. ASSUME NEW p \in CapPrefixes, NEW g \in Globs, NEW b \in BOOLEAN, AddRule(p, g, b)
          PROVE  PolicyTypeOK'
      <3>1. [prefix |-> p, glob |-> g, allowed |-> b] \in Rule
        BY DEF Rule
      <3>2. Len(Append(rules, [prefix |-> p, glob |-> g, allowed |-> b])) = Len(rules) + 1
        BY <3>1
      <3> QED BY <2>2, <3>1, <3>2, PolicyConstants DEF AddRule
    <2>3. ASSUME NEW o \in Origins, NEW hs \in SUBSET HostPats, AllowHosts(o, hs)
          PROVE  PolicyTypeOK'
      BY <2>3 DEF AllowHosts
    <2>4. ASSUME NEW k \in Kinds, Push(k)
          PROVE  PolicyTypeOK'
      BY <2>4, PolicyConstants DEF Push
    <2>5. CASE UNCHANGED policyVars
      BY <2>5 DEF policyVars
    <2> QED BY <2>1, <2>2, <2>3, <2>4, <2>5 DEF PolicyNext, AllowPath, DenyPath
  <1> QED BY <1>1, <1>2, PTL DEF PolicySpec

\* A governor around another one allows no more than that one.
LEMMA WrappersNarrow ==
    ASSUME NEW r, NEW inner
    PROVE  /\ PathVerdict(r, inner) = "Allow" => inner = "Allow"
           /\ HostVerdict(r, inner) = "Allow" =>
                 /\ inner = "Allow"
                 /\ IsHttp(r.cap) /\ HostsConfigured => HostListed(r)
  BY DEF PathVerdict, HostVerdict

\* Every link of a chain that allows a request allows it.
LEMMA ChainAllows ==
    ASSUME NEW r, Verdict(r) = "Allow", NEW i \in 1 .. Len(chain)
    PROVE  KindVerdict(chain[i], r) = "Allow"
  BY DEF Verdict

(* Whatever a deployment builds, and in whatever order: a chain with a       *)
(* ScopedGovernor in it, alone or wrapped, allows only what the origin was   *)
(* granted or a dotted descendant of it, and a HostAllowlistGovernor lets an *)
(* http request go only to a host on its own origin's list.                  *)
THEOREM OnlyGrantedIsAllowed == PolicySpec => []OnlyGranted
  <1>1. PolicyTypeOK => OnlyGranted
    <2> SUFFICES ASSUME PolicyTypeOK, NEW r \in Asked, Verdict(r) = "Allow"
                 PROVE  /\ (\E i \in 1 .. Len(chain) : chain[i] \in {"scoped", "hostPathScoped"})
                           => \E p \in grants[r.origin], n \in 0 .. Len(r.cap) : p = SubSeq(r.cap, 1, n)
                        /\ IsHttp(r.cap) /\ HostsConfigured /\ "hostPathScoped" \in Range(chain)
                           => /\ hosts[r.origin] # NoArg /\ r.url # NoArg
                              /\ \E p \in hosts[r.origin] : IsSuffix(p.labels, ExtractHost(r.url))
      BY DEF OnlyGranted
    <2>1. /\ r.origin \in Origins /\ r.cap \in Seq(STRING)
          /\ r.url = NoArg \/ r.url.host \in Seq(STRING)
      BY PolicyConstants
    <2>2. ASSUME NEW i \in 1 .. Len(chain), chain[i] \in {"scoped", "hostPathScoped"}
          PROVE  \E p \in grants[r.origin], n \in 0 .. Len(r.cap) : p = SubSeq(r.cap, 1, n)
      <3>1. KindVerdict(chain[i], r) = "Allow"
        BY ChainAllows
      <3>2. ScopedVerdict(r) = "Allow"
        BY <2>2, <3>1, WrappersNarrow DEF KindVerdict
      <3>3. PICK p \in grants[r.origin] : IsPrefix(p, r.cap)
        BY <3>2 DEF ScopedVerdict, PrefixMatches
      <3>4. p \in Seq(STRING)
        BY <2>1, PolicyConstants DEF PolicyTypeOK
      <3>5. SubSeq(p, 1, Len(p)) = p /\ Len(p) \in Nat /\ Len(r.cap) \in Nat
        BY <2>1, <3>4
      <3>6. Len(p) \in 0 .. Len(r.cap) /\ p = SubSeq(r.cap, 1, Len(p))
        BY <3>3, <3>5 DEF IsPrefix
      <3> QED BY <3>6
    <2>3. ASSUME IsHttp(r.cap), HostsConfigured, "hostPathScoped" \in Range(chain)
          PROVE  /\ hosts[r.origin] # NoArg /\ r.url # NoArg
                 /\ \E p \in hosts[r.origin] : IsSuffix(p.labels, ExtractHost(r.url))
      <3>1. PICK i \in DOMAIN chain : chain[i] = "hostPathScoped"
        BY <2>3 DEF Range
      <3>2. i \in 1 .. Len(chain)
        BY <3>1 DEF PolicyTypeOK
      <3>3. KindVerdict("hostPathScoped", r) = "Allow"
        BY <3>1, <3>2, ChainAllows
      <3>4. HostVerdict(r, PathVerdict(r, ScopedVerdict(r))) = "Allow"
        BY <3>3 DEF KindVerdict
      <3>5. HostListed(r)
        BY <2>3, <3>4, WrappersNarrow
      <3>6. PICK p \in hosts[r.origin] : hosts[r.origin] # NoArg /\ HostMatches(p, HostOf(r))
        BY <3>5 DEF HostListed
      <3>7. p \in HostPats
        BY <2>1, <3>6 DEF PolicyTypeOK
      <3>8. p.labels \in Seq(STRING) /\ p.labels # << >> /\ p.wild \in BOOLEAN
        BY <3>7, PolicyConstants
      <3>9. Len(p.labels) \in Nat /\ Len(p.labels) # 0
        BY <3>8
      <3>10. IsSuffix(p.labels, p.labels)
        BY <3>8 DEF IsSuffix, IsPrefix, Reverse
      <3>11. ~IsSuffix(p.labels, << >>)
        BY <3>8, <3>9 DEF IsSuffix, IsPrefix, Reverse
      <3>12. IsSuffix(p.labels, HostOf(r))
        BY <3>6, <3>8, <3>10 DEF HostMatches
      <3>13. r.url # NoArg /\ HostOf(r) = ExtractHost(r.url)
        BY <3>11, <3>12 DEF HostOf
      <3> QED BY <3>6, <3>12, <3>13
    <2> QED BY <2>2, <2>3
  <1> QED BY <1>1, PolicyTypes, PTL

\* The rule that decides is the first that speaks, and there is one.
LEMMA FirstSpeaks ==
    ASSUME NEW r, Speaking(r) # {}
    PROVE  FirstSpeaking(r) \in Speaking(r) /\ \A j \in Speaking(r) : FirstSpeaking(r) <= j
  <1>1. Speaking(r) \subseteq Nat
    BY DEF Speaking
  <1>2. \E i \in Speaking(r) : \A j \in Speaking(r) : i <= j
    BY <1>1, LeastElement
  <1> QED BY <1>2 DEF FirstSpeaking

\* Another rule at the end decides only what no rule spoke of.
LEMMA RuleNarrows ==
    ASSUME PolicyTypeOK, PolicyTypeOK', NEW rule \in Rule, rules' = Append(rules, rule),
           NEW r, NEW inner, PathVerdict(r, inner)' = "Allow"
    PROVE  PathVerdict(r, inner) = "Allow"
  <1>1. inner = "Allow"
    BY DEF PathVerdict
  <1>2. CASE r.path = NoArg \/ Speaking(r) = {}
    BY <1>1, <1>2 DEF PathVerdict
  <1>3. CASE r.path # NoArg /\ Speaking(r) # {}
    <2>1. /\ Len(rules) \in Nat /\ Len(rules') = Len(rules) + 1
          /\ \A i \in 1 .. Len(rules) : rules'[i] = rules[i]
      BY DEF PolicyTypeOK
    <2>2. \A i \in 1 .. Len(rules) : i \in Speaking(r)' <=> i \in Speaking(r)
      BY <2>1 DEF Speaking
    <2>3. Speaking(r) \subseteq 1 .. Len(rules) /\ Speaking(r)' \subseteq 1 .. Len(rules) + 1
      BY <2>1 DEF Speaking
    <2>4. FirstSpeaking(r) \in Speaking(r) /\ \A j \in Speaking(r) : FirstSpeaking(r) <= j
      BY <1>3, FirstSpeaks
    <2>5. Speaking(r)' # {}
      BY <1>3, <2>2, <2>3
    <2>6. FirstSpeaking(r)' \in Speaking(r)' /\ \A j \in Speaking(r)' : FirstSpeaking(r)' <= j
      <3>1. \E i \in Speaking(r)' : \A j \in Speaking(r)' : i <= j
        <4>1. Speaking(r)' \subseteq Nat
          BY <2>1, <2>3
        <4> QED BY <2>5, <4>1, LeastElement
      <3> QED BY <3>1 DEF FirstSpeaking
    <2>7. FirstSpeaking(r) \in Speaking(r)'
      BY <2>2, <2>3, <2>4
    <2>8. FirstSpeaking(r)' \in 1 .. Len(rules)
      BY <2>1, <2>3, <2>4, <2>6, <2>7
    <2>9. FirstSpeaking(r)' \in Speaking(r)
      BY <2>2, <2>6, <2>8
    <2>10. FirstSpeaking(r)' = FirstSpeaking(r)
      BY <2>1, <2>3, <2>4, <2>6, <2>7, <2>8, <2>9
    <2>11. rules'[FirstSpeaking(r)'].allowed
      BY <1>3, <2>5 DEF PathVerdict
    <2>12. rules[FirstSpeaking(r)].allowed
      BY <2>1, <2>3, <2>4, <2>10, <2>11
    <2> QED BY <1>1, <2>12 DEF PathVerdict
  <1> QED BY <1>2, <1>3

(* Another link, and another path rule of either sort, never turn a refusal  *)
(* into an Allow: a wrapper is no way round what it wraps, and an allow rule *)
(* only ends the search among the rules (PathGovernor::govern,               *)
(* PolicyChain::govern).                                                     *)
THEOREM RulesAndLinksOnlyNarrow == PolicySpec => RulesAndLinksNarrow
  <1> DEFINE Narrow == grants' = grants /\ hosts' = hosts
                         => \A r \in Asked : Verdict(r)' = "Allow" => Verdict(r) = "Allow"
  <1>1. ASSUME PolicyTypeOK, PolicyTypeOK', [PolicyNext]_policyVars
        PROVE  [Narrow]_policyVars
    <2> SUFFICES ASSUME PolicyNext, grants' = grants, hosts' = hosts,
                        NEW r \in Asked, Verdict(r)' = "Allow"
                 PROVE  Verdict(r) = "Allow"
      BY <1>1
    <2>1. Len(chain) \in Nat /\ \A i \in 1 .. Len(chain) : chain[i] \in Kinds
      BY <1>1 DEF PolicyTypeOK
    <2>2. \A k \in Kinds : (\E i \in 1 .. Len(chain') : chain'[i] = k) => KindVerdict(k, r)' = "Allow"
      BY DEF Verdict
    <2>3. ScopedVerdict(r)' = ScopedVerdict(r)
      BY DEF ScopedVerdict
    <2>4. \A x : HostVerdict(r, x)' = HostVerdict(r, x)
      BY DEF HostVerdict, HostsConfigured, HostListed
    <2>5. CASE \E k \in Kinds : Push(k)
      <3>1. PICK k \in Kinds : chain' = Append(chain, k) /\ rules' = rules
        BY <2>5 DEF Push
      <3>2. Len(chain') = Len(chain) + 1 /\ \A i \in 1 .. Len(chain) : chain'[i] = chain[i]
        BY <1>1, <3>1 DEF PolicyTypeOK
      <3>3. \A x : PathVerdict(r, x)' = PathVerdict(r, x)
        BY <3>1 DEF PathVerdict, Speaking, FirstSpeaking
      <3>4. \A k2 \in Kinds : KindVerdict(k2, r)' = KindVerdict(k2, r)
        BY <2>3, <2>4, <3>3 DEF KindVerdict
      <3>5. \A i \in 1 .. Len(chain) : KindVerdict(chain[i], r) = "Allow"
        BY <2>1, <2>2, <3>2, <3>4
      <3> QED BY <3>5 DEF Verdict
    <2>6. CASE \E p \in CapPrefixes, g \in Globs, b \in BOOLEAN : AddRule(p, g, b)
      <3>1. PICK rule \in Rule : rules' = Append(rules, rule) /\ chain' = chain
        BY <2>6 DEF AddRule, Rule
      <3>2. \A x : PathVerdict(r, x)' = "Allow" => PathVerdict(r, x) = "Allow"
        BY <1>1, <3>1, RuleNarrows
      <3>3. ASSUME NEW k2 \in Kinds, KindVerdict(k2, r)' = "Allow"
            PROVE  KindVerdict(k2, r) = "Allow"
        BY <2>3, <2>4, <3>2, <3>3 DEF KindVerdict, HostVerdict, Kinds
      <3> QED BY <2>1, <2>2, <3>1, <3>3 DEF Verdict
    <2>7. CASE UNCHANGED <<rules, chain>>
      BY <2>7 DEF Verdict, KindVerdict, ScopedVerdict, PathVerdict, Speaking, FirstSpeaking,
                  HostVerdict, HostsConfigured, HostListed
    <2> QED BY <2>5, <2>6, <2>7 DEF PolicyNext, Grant, AllowHosts, AllowPath, DenyPath
  <1> QED BY <1>1, PolicyTypes, PTL DEF PolicySpec, RulesAndLinksNarrow

-----------------------------------------------------------------------------
(* The glob matcher.                                                       *)

\* A set of positions that has every position whose later ones it has, has all.
LEMMA DownwardInduction ==
    ASSUME NEW m \in Nat, NEW T \in SUBSET (1 .. m),
           \A n \in 1 .. m : (\A k \in n + 1 .. m : k \in T) => n \in T
    PROVE  T = 1 .. m
  <1> SUFFICES ASSUME T # 1 .. m PROVE FALSE
    OBVIOUS
  <1> DEFINE Left == {x \in Nat : x < m /\ m - x \notin T}
  <1>1. Left # {}
    <2>1. PICK n \in 1 .. m : n \notin T
      OBVIOUS
    <2>2. m - n \in Nat /\ m - n < m /\ m - (m - n) = n
      OBVIOUS
    <2> QED BY <2>1, <2>2
  <1>2. PICK x \in Left : \A y \in Left : x <= y
    <2> HIDE DEF Left
    <2>1. Left \in SUBSET Nat
      BY DEF Left
    <2> QED BY <1>1, <2>1, LeastElement
  <1>3. m - x \in 1 .. m
    BY <1>2
  <1>4. \A k \in (m - x) + 1 .. m : k \in T
    <2> TAKE k \in (m - x) + 1 .. m
    <2>1. x \in Nat /\ m - k \in Nat /\ m - k < m /\ m - k < x /\ m - (m - k) = k
      BY <1>2
    <2>2. m - k \notin Left
      <3> HIDE DEF Left
      <3> QED BY <1>2, <2>1
    <2>3. \A y : y \in Left <=> y \in Nat /\ y < m /\ m - y \notin T
      OBVIOUS
    <2> HIDE DEF Left
    <2> QED BY <2>1, <2>2, <2>3
  <1> QED BY <1>2, <1>3, <1>4

\* A recursive definition whose value at a position rests on the values at
\* later positions has a function that satisfies it.
LEMMA DownwardRecursion ==
    ASSUME NEW m \in Nat, NEW V, NEW v \in V,
           NEW D \in [[1 .. m -> V] -> [1 .. m -> V]],
           \A f, g \in [1 .. m -> V], n \in 1 .. m :
              (\A k \in n + 1 .. m : f[k] = g[k]) => D[f][n] = D[g][n]
    PROVE  \E f \in [1 .. m -> V] : f = D[f]
  <1> DEFINE F == [1 .. m -> V]
             Fits(f, n) == \A k \in n .. m : f[k] = D[f][k]
             T == {n \in 1 .. m : \E f \in F : Fits(f, n)}
  <1>1. [n \in 1 .. m |-> v] \in F
    OBVIOUS
  <1>2. ASSUME NEW n \in 1 .. m, \A k \in n + 1 .. m : k \in T
        PROVE  n \in T
    <2>1. PICK f \in F : Fits(f, n + 1)
      <3>1. CASE n = m
        <4>1. \A f : Fits(f, n + 1)
          BY <3>1
        <4> QED BY <1>1, <4>1
      <3>2. CASE n # m
        <4>1. n + 1 \in n + 1 .. m
          BY <3>2
        <4> QED BY <1>2, <4>1
      <3> QED BY <3>1, <3>2
    <2> DEFINE g == [f EXCEPT ![n] = D[f][n]]
    <2>2. g \in F /\ g[n] = D[f][n] /\ \A k \in n + 1 .. m : g[k] = f[k]
      BY <2>1
    <2> HIDE DEF g
    <2>3. \A k \in n .. m : D[g][k] = D[f][k]
      <3> TAKE k \in n .. m
      <3>1. k \in 1 .. m /\ \A j \in k + 1 .. m : g[j] = f[j]
        BY <2>2
      <3> QED BY <2>1, <2>2, <3>1
    <2>4. \A k \in n .. m : k = n \/ k \in n + 1 .. m
      OBVIOUS
    <2>5. Fits(g, n)
      BY <2>1, <2>2, <2>3, <2>4
    <2> QED BY <2>2, <2>5
  <1>3. T = 1 .. m
    <2> HIDE DEF T
    <2>1. T \in SUBSET (1 .. m)
      BY DEF T
    <2> QED BY <1>2, <2>1, DownwardInduction
  <1>4. PICK f \in F : Fits(f, 1)
    <2>1. CASE m = 0
      <3>1. \A f : Fits(f, 1)
        BY <2>1
      <3> QED BY <1>1, <3>1
    <2>2. CASE m # 0
      <3>1. 1 \in T
        <4> HIDE DEF T
        <4> QED BY <1>3, <2>2
      <3> QED BY <3>1
    <2> QED BY <2>1, <2>2
  <1>5. f \in F /\ D[f] \in F /\ \A k \in 1 .. m : f[k] = D[f][k]
    BY <1>4
  <1> QED BY <1>5

\* The matcher's table is what its recursive definition says.
LEMMA MatchTable ==
    ASSUME NEW pat \in Seq(STRING), NEW pth \in Seq(STRING)
    PROVE  /\ GlobMatchRec(pat, pth) =
                [pi \in 1 .. Len(pat) + 1 |->
                    GlobMatchFrom(pat, pth, GlobMatchRec(pat, pth), pi)]
           /\ \A pi \in 1 .. Len(pat) + 1 :
                 GlobMatchRec(pat, pth)[pi] \subseteq 1 .. Len(pth) + 1
  <1> DEFINE m == Len(pat) + 1
             V == SUBSET (1 .. Len(pth) + 1)
             F == [1 .. m -> V]
             D == [f \in F |-> [n \in 1 .. m |-> GlobMatchFrom(pat, pth, f, n)]]
  <1>1. m \in Nat /\ Len(pat) \in Nat /\ Len(pth) \in Nat
    OBVIOUS
  <1>2. ASSUME NEW f, NEW n \in 1 .. m
        PROVE  GlobMatchFrom(pat, pth, f, n) \in V
    BY <1>1 DEF GlobMatchFrom
  <1>3. ASSUME NEW f, NEW g, NEW n \in 1 .. m, \A k \in n + 1 .. m : f[k] = g[k]
        PROVE  GlobMatchFrom(pat, pth, f, n) = GlobMatchFrom(pat, pth, g, n)
    <2>1. CASE n > Len(pat)
      BY <2>1 DEF GlobMatchFrom
    <2>2. CASE ~(n > Len(pat)) /\ pat[n] = "*" /\ n + 1 <= Len(pat) /\ pat[n + 1] = "*"
      <3> DEFINE next == n + (IF n + 2 <= Len(pat) /\ pat[n + 2] = "/" THEN 3 ELSE 2)
      <3>1. next \in n + 1 .. m
        BY <1>1, <2>2
      <3>2. f[next] = g[next]
        BY <1>3, <3>1
      <3>3. n <= Len(pat)
        BY <1>1, <2>2
      <3> QED BY <2>2, <3>2, <3>3 DEF GlobMatchFrom
    <2>3. CASE ~(n > Len(pat)) /\ ~(pat[n] = "*" /\ n + 1 <= Len(pat) /\ pat[n + 1] = "*")
      <3>1. f[n + 1] = g[n + 1]
        BY <1>1, <1>3, <2>3
      <3> QED BY <2>3, <3>1 DEF GlobMatchFrom
    <2> QED BY <2>1, <2>2, <2>3
  <1>4. \E f \in F : f = D[f]
    <2>1. {} \in V
      OBVIOUS
    <2>2. D \in [F -> F]
      <3> HIDE DEF V, m
      <3> QED BY <1>2
    <2>3. ASSUME NEW f \in F, NEW g \in F, NEW n \in 1 .. m, \A k \in n + 1 .. m : f[k] = g[k]
          PROVE  D[f][n] = D[g][n]
      <3>1. GlobMatchFrom(pat, pth, f, n) = GlobMatchFrom(pat, pth, g, n)
        BY <1>3, <2>3
      <3> HIDE DEF V, m
      <3>2. D[f] = [k \in 1 .. m |-> GlobMatchFrom(pat, pth, f, k)]
        OBVIOUS
      <3>3. D[g] = [k \in 1 .. m |-> GlobMatchFrom(pat, pth, g, k)]
        OBVIOUS
      <3> QED BY <3>1, <3>2, <3>3
    <2>4. \A f, g \in [1 .. m -> V], n \in 1 .. m :
             (\A k \in n + 1 .. m : f[k] = g[k]) => D[f][n] = D[g][n]
      <3> HIDE DEF D, V, m
      <3> QED BY <2>3
    <2>5. D \in [[1 .. m -> V] -> [1 .. m -> V]]
      <3> HIDE DEF D, V, m
      <3> QED BY <2>2
    <2>6. \E f \in [1 .. m -> V] : f = D[f]
      <3> HIDE DEF D, V, m, F
      <3>1. m \in Nat
        BY <1>1
      <3>2. \A u \in V, E \in [[1 .. m -> V] -> [1 .. m -> V]] :
               (\A f, g \in [1 .. m -> V], n \in 1 .. m :
                  (\A k \in n + 1 .. m : f[k] = g[k]) => E[f][n] = E[g][n])
               => \E f \in [1 .. m -> V] : f = E[f]
        BY <3>1, DownwardRecursion, ZenonT(90)
      <3> QED BY <2>1, <2>4, <2>5, <3>2, ZenonT(30)
    <2> HIDE DEF D, V, m
    <2> QED BY <2>6
  <1>5. PICK f \in F : f = [n \in 1 .. m |-> GlobMatchFrom(pat, pth, f, n)]
    <2> HIDE DEF V, m
    <2> QED BY <1>4
  <1>6. GlobMatchRec(pat, pth) =
           [pi \in 1 .. m |-> GlobMatchFrom(pat, pth, GlobMatchRec(pat, pth), pi)]
    BY <1>5 DEF GlobMatchRec
  <1>7. ASSUME NEW n \in 1 .. m
        PROVE  GlobMatchRec(pat, pth)[n] \in V
    <2> HIDE DEF V, m
    <2> QED BY <1>2, <1>6
  <1> QED BY <1>6, <1>7

\* What a path of Paths is made of is a text.
LEMMA PathsAreText ==
    /\ << >> \in Paths
    /\ \A x \in Paths : x \in Seq(STRING)
    /\ \A x \in Paths : \A i \in 1 .. Len(x) + 1, j \in 0 .. Len(x) : SubSeq(x, i, j) \in Paths
  BY PolicyConstants

\* The paths denoted are what their recursive definition says.
LEMMA MeaningTable ==
    ASSUME NEW pat \in Seq(STRING)
    PROVE  /\ Meanings(pat) = [n \in 1 .. Len(pat) + 1 |-> Meaning(pat, Meanings(pat), n)]
           /\ \A n \in 1 .. Len(pat) + 1 : Meanings(pat)[n] \subseteq Paths
  <1> DEFINE m == Len(pat) + 1
             V == SUBSET Paths
             F == [1 .. m -> V]
             D == [f \in F |-> [n \in 1 .. m |-> Meaning(pat, f, n)]]
  <1>1. m \in Nat /\ Len(pat) \in Nat
    OBVIOUS
  <1>2. ASSUME NEW f, NEW n \in 1 .. m
        PROVE  Meaning(pat, f, n) \in V
    <2>1. \A xs, ys : Concats(xs, ys) \subseteq Paths
      BY DEF Concats
    <2>2. {<< >>} \subseteq Paths
      BY PathsAreText
    <2> QED BY <2>1, <2>2 DEF Meaning
  <1>3. ASSUME NEW f, NEW g, NEW n \in 1 .. m, \A k \in n + 1 .. m : f[k] = g[k]
        PROVE  Meaning(pat, f, n) = Meaning(pat, g, n)
    <2>1. CASE n > Len(pat)
      BY <2>1 DEF Meaning
    <2>2. CASE ~(n > Len(pat)) /\ Star(pat, n) /\ Star(pat, n + 1)
      <3>1. n + 2 \in n + 1 .. m
        BY <1>1, <2>2 DEF Star
      <3>2. f[n + 2] = g[n + 2]
        BY <1>3, <3>1
      <3> QED BY <1>1, <2>2, <3>2 DEF Meaning
    <2>3. CASE ~(n > Len(pat)) /\ ~(Star(pat, n) /\ Star(pat, n + 1))
      <3>1. f[n + 1] = g[n + 1]
        BY <1>1, <1>3, <2>3
      <3> QED BY <1>1, <2>3, <3>1 DEF Meaning
    <2> QED BY <2>1, <2>2, <2>3
  <1>4. \E f \in F : f = D[f]
    <2>1. {} \in V
      OBVIOUS
    <2>2. D \in [F -> F]
      <3> HIDE DEF V, m
      <3> QED BY <1>2
    <2>3. ASSUME NEW f \in F, NEW g \in F, NEW n \in 1 .. m, \A k \in n + 1 .. m : f[k] = g[k]
          PROVE  D[f][n] = D[g][n]
      <3>1. Meaning(pat, f, n) = Meaning(pat, g, n)
        BY <1>3, <2>3
      <3> HIDE DEF V, m
      <3>2. D[f] = [k \in 1 .. m |-> Meaning(pat, f, k)]
        OBVIOUS
      <3>3. D[g] = [k \in 1 .. m |-> Meaning(pat, g, k)]
        OBVIOUS
      <3> QED BY <3>1, <3>2, <3>3
    <2>4. \A f, g \in [1 .. m -> V], n \in 1 .. m :
             (\A k \in n + 1 .. m : f[k] = g[k]) => D[f][n] = D[g][n]
      <3> HIDE DEF D, V, m
      <3> QED BY <2>3
    <2>5. D \in [[1 .. m -> V] -> [1 .. m -> V]]
      <3> HIDE DEF D, V, m
      <3> QED BY <2>2
    <2>6. \E f \in [1 .. m -> V] : f = D[f]
      <3> HIDE DEF D, V, m, F
      <3>1. m \in Nat
        BY <1>1
      <3>2. \A u \in V, E \in [[1 .. m -> V] -> [1 .. m -> V]] :
               (\A f, g \in [1 .. m -> V], n \in 1 .. m :
                  (\A k \in n + 1 .. m : f[k] = g[k]) => E[f][n] = E[g][n])
               => \E f \in [1 .. m -> V] : f = E[f]
        BY <3>1, DownwardRecursion, ZenonT(90)
      <3> QED BY <2>1, <2>4, <2>5, <3>2, ZenonT(30)
    <2> HIDE DEF D, V, m
    <2> QED BY <2>6
  <1>5. PICK f \in F : f = [n \in 1 .. m |-> Meaning(pat, f, n)]
    <2> HIDE DEF V, m
    <2> QED BY <1>4
  <1>6. Meanings(pat) = [n \in 1 .. m |-> Meaning(pat, Meanings(pat), n)]
    BY <1>5 DEF Meanings
  <1>7. ASSUME NEW n \in 1 .. m
        PROVE  Meanings(pat)[n] \in V
    <2> HIDE DEF V, m
    <2> QED BY <1>2, <1>6
  <1> QED BY <1>6, <1>7

\* A path is in Concats if it is made of two paths.
LEMMA InConcats ==
    ASSUME NEW xs, NEW ys, NEW t \in Paths
    PROVE  t \in Concats(xs, ys) <=> \E x \in xs, y \in ys : t = x \o y
  BY SMT DEF Concats

\* A stretch of a path belongs to a concatenation where it can be cut in two.
LEMMA Cut ==
    ASSUME NEW z \in Paths, NEW si \in 1 .. Len(z) + 1,
           NEW xs \in SUBSET Seq(STRING), NEW ys \in SUBSET Paths
    PROVE  SubSeq(z, si, Len(z)) \in Concats(xs, ys)
             <=> \E s \in si .. Len(z) + 1 :
                    SubSeq(z, si, s - 1) \in xs /\ SubSeq(z, s, Len(z)) \in ys
  <1> DEFINE tail == SubSeq(z, si, Len(z))
  <1>1. z \in Seq(STRING) /\ Len(z) \in Nat
    BY PathsAreText
  <1>2. tail \in Seq(STRING) /\ Len(tail) = Len(z) + 1 - si
        /\ \A i \in 1 .. Len(tail) : tail[i] = z[si + i - 1]
    BY <1>1, SubSeqProperties
  <1>8. ASSUME NEW a \in 1 .. Len(z) + 1
        PROVE  /\ SubSeq(z, a, Len(z)) \in Seq(STRING)
               /\ Len(SubSeq(z, a, Len(z))) = Len(z) - a + 1
               /\ \A i \in 1 .. Len(z) - a + 1 : SubSeq(z, a, Len(z))[i] = z[a + i - 1]
    BY <1>1, SubSeqProperties
  <1>9. tail \in Paths
    BY <1>1, PathsAreText
  <1>4. ASSUME NEW x \in xs, NEW y \in ys, tail = x \o y
        PROVE  \E s \in si .. Len(z) + 1 :
                  SubSeq(z, si, s - 1) \in xs /\ SubSeq(z, s, Len(z)) \in ys
    <2> DEFINE s == si + Len(x)
    <2>1. x \in Seq(STRING) /\ y \in Seq(STRING) /\ Len(x) \in Nat /\ Len(y) \in Nat
      BY PathsAreText
    <2>2. /\ Len(tail) = Len(x) + Len(y)
          /\ \A i \in 1 .. Len(x) : tail[i] = x[i]
          /\ \A i \in 1 .. Len(y) : tail[Len(x) + i] = y[i]
      BY <1>4, <2>1, ConcatProperties
    <2>3. s \in si .. Len(z) + 1 /\ s \in 1 .. Len(z) + 1
      BY <1>1, <1>2, <2>1, <2>2
    <2>4. SubSeq(z, si, s - 1) = x
      <3>1. SubSeq(z, si, s - 1) \in Seq(STRING) /\ Len(SubSeq(z, si, s - 1)) = Len(x)
            /\ \A i \in 1 .. Len(x) : SubSeq(z, si, s - 1)[i] = z[si + i - 1]
        BY <1>1, <2>1, <2>3, SubSeqProperties
      <3>2. \A i \in 1 .. Len(x) : SubSeq(z, si, s - 1)[i] = x[i]
        BY <1>2, <2>1, <2>2, <3>1
      <3> QED BY <2>1, <3>1, <3>2, SeqEqual
    <2>5. SubSeq(z, s, Len(z)) = y
      <3>1. SubSeq(z, s, Len(z)) \in Seq(STRING) /\ Len(SubSeq(z, s, Len(z))) = Len(y)
            /\ \A i \in 1 .. Len(y) : SubSeq(z, s, Len(z))[i] = z[s + i - 1]
        <4>1. Len(z) - s + 1 = Len(y)
          <5>1. Len(z) + 1 - si = Len(x) + Len(y)
            <6> HIDE DEF tail
            <6> QED BY <1>2, <2>2
          <5> QED BY <1>1, <2>1, <5>1
        <4> HIDE DEF s, tail
        <4>2. /\ SubSeq(z, s, Len(z)) \in Seq(STRING)
              /\ Len(SubSeq(z, s, Len(z))) = Len(z) - s + 1
              /\ \A i \in 1 .. Len(z) - s + 1 : SubSeq(z, s, Len(z))[i] = z[s + i - 1]
          BY <1>8, <2>3
        <4> QED BY <4>1, <4>2
      <3>2. \A i \in 1 .. Len(y) : SubSeq(z, s, Len(z))[i] = y[i]
        <4> TAKE i \in 1 .. Len(y)
        <4>1. Len(x) + i \in 1 .. Len(tail) /\ si + (Len(x) + i) - 1 = s + i - 1
          BY <1>1, <2>1, <2>2
        <4> HIDE DEF tail, s
        <4> QED BY <1>2, <2>2, <3>1, <4>1
      <3> QED BY <2>1, <3>1, <3>2, SeqEqual
    <2> HIDE DEF s
    <2> QED BY <2>3, <2>4, <2>5
  <1>5. ASSUME NEW s \in si .. Len(z) + 1,
               SubSeq(z, si, s - 1) \in xs, SubSeq(z, s, Len(z)) \in ys
        PROVE  \E x \in xs, y \in ys : tail = x \o y
    <2>1. SubSeq(z, si, s - 1) \o SubSeq(z, (s - 1) + 1, Len(z)) = tail
      <3>1. s - 1 \in si - 1 .. Len(z) /\ Len(z) \in s - 1 .. Len(z)
        BY <1>1
      <3>2. SubSeq(z, si, s - 1) \o SubSeq(z, (s - 1) + 1, Len(z)) = SubSeq(z, si, Len(z))
        BY <1>1, <3>1, ConcatAdjacentSubSeq
      <3> QED BY <3>2
    <2>2. (s - 1) + 1 = s
      BY <1>1
    <2> QED BY <1>5, <2>1, <2>2
  <1>6. tail \in Concats(xs, ys) <=> \E x \in xs, y \in ys : tail = x \o y
    <2> HIDE DEF tail
    <2> QED BY <1>9, InConcats
  <1> HIDE DEF tail
  <1>7. SubSeq(z, si, Len(z)) = tail
    BY DEF tail
  <1> QED BY <1>4, <1>5, <1>6, <1>7

\* A position that does not cut a `**' in two.
Between(pat, n) == ~(Star(pat, n) /\ Star(pat, n - 1))

\* How far the matcher goes behind a `**' at n: over a slash as well.
PairEnds(pat, n) == n + (IF n + 2 <= Len(pat) /\ pat[n + 2] = "/" THEN 3 ELSE 2)

\* What a single character of a glob stands for, and a single `*'.
Fits(p, c) == IF p = "?" THEN c # "/" ELSE c = p
OneChar(p) == IF p = "?" THEN {x \in Paths : Len(x) = 1 /\ x[1] # "/"} ELSE {<<p>>}
Segment == {x \in Paths : \A i \in 1 .. Len(x) : x[i] # "/"}

\* No slash is missed behind a single `*'; nothing in the glob is matched loosely.
NothingMissed(pat) == \A k \in DOMAIN pat : ~(Single(pat, k) /\ BeforeSlash(pat, k))
NothingLoose(pat) == \A k \in DOMAIN pat : ~Single(pat, k) /\ ~BeforeSlash(pat, k)

\* The equation of the matcher, case by case.
LEMMA MatchCases ==
    ASSUME NEW pat \in Seq(STRING), NEW pth \in Seq(STRING), NEW M,
           NEW n \in 1 .. Len(pat) + 1
    PROVE  /\ n = Len(pat) + 1 => GlobMatchFrom(pat, pth, M, n) = {Len(pth) + 1}
           /\ Star(pat, n) /\ Star(pat, n + 1) =>
                 GlobMatchFrom(pat, pth, M, n) =
                    {si \in 1 .. Len(pth) + 1 : \E s \in M[PairEnds(pat, n)] : si <= s}
           /\ Star(pat, n) /\ ~Star(pat, n + 1) =>
                 GlobMatchFrom(pat, pth, M, n) =
                    {si \in 1 .. Len(pth) + 1 :
                        \E s \in M[n + 1] : si <= s /\ ~(s <= Len(pth) /\ pth[s] = "/")}
           /\ n <= Len(pat) /\ ~Star(pat, n) =>
                 GlobMatchFrom(pat, pth, M, n) =
                    {si \in 1 .. Len(pth) : Fits(pat[n], pth[si]) /\ si + 1 \in M[n + 1]}
  <1>1. Len(pat) \in Nat /\ Len(pth) \in Nat /\ DOMAIN pat = 1 .. Len(pat)
    OBVIOUS
  <1>2. CASE n = Len(pat) + 1
    BY <1>1, <1>2 DEF GlobMatchFrom, Star
  <1>3. CASE Star(pat, n) /\ Star(pat, n + 1)
    <2>1. PairEnds(pat, n) = n + (IF n + 2 <= Len(pat) /\ pat[n + 2] = "/" THEN 3 ELSE 2)
      BY DEF PairEnds
    <2>2. n < Len(pat) /\ pat[n] = "*" /\ pat[n + 1] = "*" /\ ~(n > Len(pat)) /\ n + 1 <= Len(pat)
      BY <1>1, <1>3 DEF Star
    <2> QED BY <1>1, <1>3, <2>1, <2>2 DEF GlobMatchFrom
  <1>4. CASE Star(pat, n) /\ ~Star(pat, n + 1)
    <2>1. pat[n] = "*" /\ ~(n > Len(pat)) /\ ~(n + 1 <= Len(pat) /\ pat[n + 1] = "*")
      BY <1>1, <1>4 DEF Star
    <2> QED BY <1>1, <1>4, <2>1 DEF GlobMatchFrom
  <1>5. CASE n <= Len(pat) /\ ~Star(pat, n)
    <2>1. pat[n] # "*" /\ ~(n > Len(pat))
      BY <1>1, <1>5 DEF Star
    <2> QED BY <1>1, <1>5, <2>1 DEF GlobMatchFrom, Fits
  <1>6. Star(pat, n) => n <= Len(pat)
    BY <1>1 DEF Star
  <1> QED BY <1>1, <1>2, <1>3, <1>4, <1>5, <1>6

\* The equation of the meaning, case by case.
LEMMA MeaningCases ==
    ASSUME NEW pat \in Seq(STRING), NEW W, NEW n \in 1 .. Len(pat) + 1
    PROVE  /\ n = Len(pat) + 1 => Meaning(pat, W, n) = {<< >>}
           /\ Star(pat, n) /\ Star(pat, n + 1) => Meaning(pat, W, n) = Concats(Paths, W[n + 2])
           /\ Star(pat, n) /\ ~Star(pat, n + 1) => Meaning(pat, W, n) = Concats(Segment, W[n + 1])
           /\ n <= Len(pat) /\ ~Star(pat, n) =>
                 Meaning(pat, W, n) = Concats(OneChar(pat[n]), W[n + 1])
  <1>1. Len(pat) \in Nat /\ (Star(pat, n) => n <= Len(pat))
    BY DEF Star
  <1>2. CASE n = Len(pat) + 1
    BY <1>1, <1>2 DEF Meaning
  <1>3. CASE Star(pat, n) /\ Star(pat, n + 1)
    BY <1>1, <1>3 DEF Meaning
  <1>4. CASE Star(pat, n) /\ ~Star(pat, n + 1)
    BY <1>1, <1>4 DEF Meaning, Segment
  <1>5. CASE n <= Len(pat) /\ ~Star(pat, n)
    <2>1. {x \in Segment : Len(x) = 1} = {x \in Paths : Len(x) = 1 /\ x[1] # "/"}
      <3>1. \A x \in Paths : Len(x) = 1 => 1 .. Len(x) = {1}
        OBVIOUS
      <3> QED BY <3>1 DEF Segment
    <2>2. CASE pat[n] = "?"
      <3>1. Meaning(pat, W, n) = Concats({x \in Segment : Len(x) = 1}, W[n + 1])
        BY <1>1, <1>5, <2>2 DEF Meaning, Segment
      <3>2. OneChar(pat[n]) = {x \in Paths : Len(x) = 1 /\ x[1] # "/"}
        BY <2>2 DEF OneChar
      <3>3. Meaning(pat, W, n) = Concats(OneChar(pat[n]), W[n + 1])
        BY <2>1, <3>1, <3>2, Zenon
      <3> QED BY <1>1, <1>5, <3>3
    <2>3. CASE pat[n] # "?"
      BY <1>1, <1>5, <2>3 DEF Meaning, OneChar
    <2> QED BY <2>2, <2>3
  <1> QED BY <1>1, <1>2, <1>3, <1>4, <1>5

\* From such a position on the matcher goes on where the rest of the path is
\* one that the rest of the glob denotes, and, with nothing loose, only there.
LEMMA MatchesWhatItDenotes ==
    ASSUME NEW pat \in Seq(STRING), Legible(pat), NothingMissed(pat), NEW z \in Paths
    PROVE  \A n \in 1 .. Len(pat) + 1 : Between(pat, n) =>
              \A si \in 1 .. Len(z) + 1 :
                 /\ SubSeq(z, si, Len(z)) \in Meanings(pat)[n] => si \in GlobMatchRec(pat, z)[n]
                 /\ NothingLoose(pat) /\ si \in GlobMatchRec(pat, z)[n]
                    => SubSeq(z, si, Len(z)) \in Meanings(pat)[n]
  <1> DEFINE M == GlobMatchRec(pat, z)
             W == Meanings(pat)
             tail(s) == SubSeq(z, s, Len(z))
             Found(n) == \A si \in 1 .. Len(z) + 1 : tail(si) \in W[n] => si \in M[n]
             Exact(n) == \A si \in 1 .. Len(z) + 1 : si \in M[n] => tail(si) \in W[n]
             Agree(n) == Found(n) /\ (NothingLoose(pat) => Exact(n))
             m == Len(pat) + 1
             T == {n \in 1 .. m : Between(pat, n) => Agree(n)}
  <1>1. z \in Seq(STRING) /\ Len(z) \in Nat /\ Len(pat) \in Nat /\ DOMAIN pat = 1 .. Len(pat)
    BY PathsAreText
  <1>2. \A n \in 1 .. m : M[n] = GlobMatchFrom(pat, z, M, n) /\ M[n] \subseteq 1 .. Len(z) + 1
    <2> HIDE DEF M, m
    <2>1. M = [pi \in 1 .. m |-> GlobMatchFrom(pat, z, M, pi)]
      BY <1>1, MatchTable DEF M, m
    <2>2. \A n \in 1 .. m : M[n] \subseteq 1 .. Len(z) + 1
      BY <1>1, MatchTable DEF M, m
    <2> QED BY <2>1, <2>2
  <1>3. \A n \in 1 .. m : W[n] = Meaning(pat, W, n) /\ W[n] \subseteq Paths
    <2> HIDE DEF W, m
    <2>1. W = [n \in 1 .. m |-> Meaning(pat, W, n)]
      BY MeaningTable DEF W, m
    <2>2. \A n \in 1 .. m : W[n] \subseteq Paths
      BY MeaningTable DEF W, m
    <2> QED BY <2>1, <2>2
  <1>4. \A s \in 1 .. Len(z) + 1 : tail(s) \in Seq(STRING) /\ Len(tail(s)) = Len(z) + 1 - s
    BY <1>1, SubSeqProperties
  <1>5. \A a \in 1 .. Len(z) + 1, b \in 0 .. Len(z) : SubSeq(z, a, b) \in Paths
    BY PathsAreText
  <1>6. \A a \in 1 .. Len(z) : /\ SubSeq(z, a, a) \in Seq(STRING)
                               /\ Len(SubSeq(z, a, a)) = 1 /\ SubSeq(z, a, a)[1] = z[a]
    BY <1>1, SubSeqProperties
  <1>7. \A a \in 1 .. Len(z) + 1 : \A s \in a .. Len(z) + 1 : Len(SubSeq(z, a, s - 1)) = s - a
    BY <1>1, SubSeqProperties
  <1>8. \A n \in 1 .. m : Star(pat, n) <=> n <= Len(pat) /\ pat[n] = "*"
    BY <1>1 DEF Star
  <1> HIDE DEF M, W
  <1>10. ASSUME NEW n \in 1 .. m, Between(pat, n), \A k \in n + 1 .. m : Between(pat, k) => Agree(k)
         PROVE  Agree(n)
    <2>1. CASE n > Len(pat)
      <3>1. n = m /\ M[n] = {Len(z) + 1} /\ W[n] = {<< >>}
        BY <1>1, <1>2, <1>3, <2>1, MatchCases, MeaningCases
      <3>2. \A si \in 1 .. Len(z) + 1 : tail(si) = << >> <=> si = Len(z) + 1
        <4> TAKE si \in 1 .. Len(z) + 1
        <4>1. Len(tail(si)) = Len(z) + 1 - si /\ tail(si) \in Seq(STRING)
          BY <1>4
        <4> HIDE DEF tail
        <4> QED BY <1>1, <4>1
      <3> HIDE DEF tail
      <3> QED BY <3>1, <3>2
    <2>2. CASE Star(pat, n) /\ Star(pat, n + 1)
      <3>1. n + 1 <= Len(pat) /\ n + 2 \in n + 1 .. m /\ n + 2 \in 1 .. m /\ n \in DOMAIN pat
        BY <1>1, <2>2 DEF Star
      <3>2. Between(pat, n + 2)
        <4>1. ~Star(pat, n + 2)
          BY <2>2, <3>1 DEF Legible
        <4> QED BY <4>1 DEF Between
      <3>3. Agree(n + 2)
        <4> HIDE DEF Agree
        <4> QED BY <1>10, <3>1, <3>2
      <3>4. W[n] = Concats(Paths, W[n + 2])
        BY <1>1, <1>3, <2>2, MeaningCases
      <3>5. \A si \in 1 .. Len(z) + 1 :
               tail(si) \in W[n] <=> \E s \in si .. Len(z) + 1 :
                                        SubSeq(z, si, s - 1) \in Paths /\ tail(s) \in W[n + 2]
        <4> TAKE si \in 1 .. Len(z) + 1
        <4>1. Paths \in SUBSET Seq(STRING) /\ W[n + 2] \in SUBSET Paths
          BY <1>3, <3>1, PathsAreText
        <4> QED BY <3>4, <4>1, Cut
      <3>6. \A si \in 1 .. Len(z) + 1 : \A s \in si .. Len(z) + 1 : SubSeq(z, si, s - 1) \in Paths
        BY <1>1, <1>5
      <3>7. M[n + 2] \subseteq 1 .. Len(z) + 1
        BY <1>2, <3>1
      <3>8. CASE n + 2 <= Len(pat) /\ pat[n + 2] = "/"
        <4>1. PairEnds(pat, n) = n + 3 /\ n + 3 \in 1 .. m
          BY <1>1, <3>1, <3>8 DEF PairEnds
        <4>2. M[n] = {si \in 1 .. Len(z) + 1 : \E s \in M[n + 3] : si <= s}
          BY <1>1, <1>2, <2>2, <4>1, MatchCases
        <4>3. M[n + 2] = {si \in 1 .. Len(z) : Fits(pat[n + 2], z[si]) /\ (si + 1) \in M[n + 3]}
          <5>1. ~Star(pat, n + 2) /\ (n + 2) + 1 = n + 3
            BY <3>1, <3>8 DEF Star
          <5>2. GlobMatchFrom(pat, z, M, n + 2) =
                   {si \in 1 .. Len(z) : Fits(pat[n + 2], z[si]) /\ (si + 1) \in M[(n + 2) + 1]}
            BY <1>1, <3>1, <3>8, <5>1, MatchCases
          <5> QED BY <1>2, <3>1, <5>1, <5>2
        <4>4. ~NothingLoose(pat)
          <5>1. n + 1 \in DOMAIN pat /\ (n + 1) + 1 = n + 2 /\ n + 2 \in DOMAIN pat
            BY <1>1, <3>1, <3>8
          <5>2. BeforeSlash(pat, n + 1)
            BY <2>2, <3>8, <5>1 DEF BeforeSlash
          <5> QED BY <5>1, <5>2 DEF NothingLoose
        <4>5. ASSUME NEW si \in 1 .. Len(z) + 1, tail(si) \in W[n]
              PROVE  si \in M[n]
          <5>1. PICK s \in si .. Len(z) + 1 : tail(s) \in W[n + 2]
            <6> HIDE DEF tail
            <6> QED BY <3>5, <4>5
          <5>2. s \in M[n + 2]
            <6> HIDE DEF tail
            <6> QED BY <1>1, <3>3, <5>1
          <5>3. s + 1 \in M[n + 3] /\ si <= s + 1
            BY <1>1, <4>3, <5>1, <5>2
          <5> QED BY <4>2, <5>3
        <4> HIDE DEF tail
        <4> QED BY <4>4, <4>5
      <3>9. CASE ~(n + 2 <= Len(pat) /\ pat[n + 2] = "/")
        <4>1. M[n] = {si \in 1 .. Len(z) + 1 : \E s \in M[n + 2] : si <= s}
          <5>1. PairEnds(pat, n) = n + 2
            BY <1>1, <3>9 DEF PairEnds
          <5> QED BY <1>1, <1>2, <2>2, <5>1, MatchCases
        <4> HIDE DEF tail
        <4> QED BY <1>1, <3>3, <3>5, <3>6, <3>7, <4>1, SMTT(30)
      <3> QED BY <3>8, <3>9
    <2>3. CASE Star(pat, n) /\ ~Star(pat, n + 1)
      <3>1. n \in DOMAIN pat /\ n <= Len(pat) /\ n + 1 \in n + 1 .. m /\ n + 1 \in 1 .. m
        BY <1>1, <2>3 DEF Star
      <3>2. Between(pat, n + 1)
        BY <2>3 DEF Between
      <3>3. Agree(n + 1)
        <4> HIDE DEF Agree
        <4> QED BY <1>10, <3>1, <3>2
      <3>4. Single(pat, n)
        BY <1>10, <2>3 DEF Single, Between
      <3>5. M[n] = {si \in 1 .. Len(z) + 1 :
                       \E s \in M[n + 1] : si <= s /\ ~(s <= Len(z) /\ z[s] = "/")}
        BY <1>1, <1>2, <2>3, MatchCases
      <3>6. \A s \in M[n + 1] : ~(s <= Len(z) /\ z[s] = "/")
        <4>1. CASE n + 1 = m
          <5>1. M[n + 1] = {Len(z) + 1}
            BY <1>1, <1>2, <3>1, <4>1, MatchCases
          <5> QED BY <1>1, <5>1
        <4>2. CASE n + 1 # m
          <5>1. n + 1 <= Len(pat) /\ n + 1 \in DOMAIN pat
            BY <1>1, <3>1, <4>2
          <5>2. pat[n + 1] # "/"
            BY <2>3, <3>1, <3>4, <5>1 DEF NothingMissed, BeforeSlash
          <5>3. \A s \in M[n + 1] : s \in 1 .. Len(z) /\ Fits(pat[n + 1], z[s])
            <6>1. GlobMatchFrom(pat, z, M, n + 1) =
                     {si \in 1 .. Len(z) : Fits(pat[n + 1], z[si]) /\ si + 1 \in M[(n + 1) + 1]}
              BY <1>1, <2>3, <3>1, <5>1, MatchCases
            <6> QED BY <1>2, <3>1, <6>1
          <5> QED BY <5>2, <5>3 DEF Fits
        <4> QED BY <4>1, <4>2
      <3>7. W[n] = Concats(Segment, W[n + 1])
        BY <1>1, <1>3, <2>3, MeaningCases
      <3>8. \A si \in 1 .. Len(z) + 1 :
               tail(si) \in W[n] => \E s \in si .. Len(z) + 1 : tail(s) \in W[n + 1]
        <4> TAKE si \in 1 .. Len(z) + 1
        <4>1. Segment \in SUBSET Seq(STRING) /\ W[n + 1] \in SUBSET Paths
          BY <1>3, <3>1, PathsAreText DEF Segment
        <4> QED BY <3>7, <4>1, Cut
      <3>9. ~NothingLoose(pat)
        BY <3>1, <3>4 DEF NothingLoose
      <3> HIDE DEF tail
      <3> QED BY <1>1, <3>3, <3>5, <3>6, <3>8, <3>9
    <2>4. CASE n <= Len(pat) /\ ~Star(pat, n)
      <3>1. n + 1 \in n + 1 .. m /\ n + 1 \in 1 .. m /\ (n + 1) - 1 = n
        BY <1>1, <2>4
      <3>2. Between(pat, n + 1)
        BY <2>4, <3>1 DEF Between
      <3>3. Agree(n + 1)
        <4> HIDE DEF Agree
        <4> QED BY <1>10, <3>1, <3>2
      <3> DEFINE one == OneChar(pat[n])
      <3>4. M[n] = {si \in 1 .. Len(z) : Fits(pat[n], z[si]) /\ si + 1 \in M[n + 1]}
        BY <1>1, <1>2, <2>4, MatchCases
      <3>5. W[n] = Concats(one, W[n + 1])
        BY <1>1, <1>3, <2>4, MeaningCases
      <3>6. one \in SUBSET Seq(STRING) /\ \A x \in one : Len(x) = 1
        BY <1>1, <2>4, PathsAreText DEF OneChar
      <3>7. \A s \in 1 .. Len(z) : SubSeq(z, s, s) \in one <=> Fits(pat[n], z[s])
        <4> TAKE s \in 1 .. Len(z)
        <4>1. SubSeq(z, s, s) \in Paths
          BY <1>1, <1>5
        <4>2. SubSeq(z, s, s) = <<z[s]>>
          <5>1. <<z[s]>> \in Seq(STRING) /\ Len(<<z[s]>>) = 1 /\ <<z[s]>>[1] = z[s]
            BY <1>1
          <5>2. \A i \in 1 .. 1 : SubSeq(z, s, s)[i] = <<z[s]>>[i]
            BY <1>6, <5>1
          <5> QED BY <1>6, <5>1, <5>2, SeqEqual
        <4> QED BY <4>1, <4>2 DEF OneChar, Fits
      <3> HIDE DEF one
      <3>11. \A si \in 1 .. Len(z) + 1 :
                tail(si) \in W[n] <=> /\ si <= Len(z) /\ SubSeq(z, si, si) \in one
                                     /\ tail(si + 1) \in W[n + 1]
        <4> TAKE si \in 1 .. Len(z) + 1
        <4>8. tail(si) \in W[n] <=> \E s \in si .. Len(z) + 1 :
                                       SubSeq(z, si, s - 1) \in one /\ tail(s) \in W[n + 1]
          BY <1>3, <3>1, <3>5, <3>6, Cut, SMTT(30)
        <4>9. \A s \in si .. Len(z) + 1 : SubSeq(z, si, s - 1) \in one => s = si + 1
          <5> TAKE s \in si .. Len(z) + 1
          <5>1. Len(SubSeq(z, si, s - 1)) = s - si
            BY <1>7
          <5> HIDE DEF one
          <5>2. SubSeq(z, si, s - 1) \in one => s - si = 1
            BY <3>6, <5>1
          <5> QED BY <1>1, <5>2
        <4>10. tail(si) \in W[n] <=> /\ si <= Len(z) /\ SubSeq(z, si, si) \in one
                                     /\ tail(si + 1) \in W[n + 1]
          <5>1. (si + 1) - 1 = si
            BY <1>1
          <5> HIDE DEF tail, one
          <5>2. ASSUME tail(si) \in W[n]
                PROVE  si <= Len(z) /\ SubSeq(z, si, si) \in one /\ tail(si + 1) \in W[n + 1]
            <6>1. PICK s \in si .. Len(z) + 1 : SubSeq(z, si, s - 1) \in one /\ tail(s) \in W[n + 1]
              BY <4>8, <5>2
            <6>2. s = si + 1
              BY <4>9, <6>1
            <6> QED BY <1>1, <5>1, <6>1, <6>2
          <5>3. ASSUME si <= Len(z), SubSeq(z, si, si) \in one, tail(si + 1) \in W[n + 1]
                PROVE  tail(si) \in W[n]
            <6>1. si + 1 \in si .. Len(z) + 1
              BY <1>1, <5>3
            <6> QED BY <4>8, <5>1, <5>3, <6>1
          <5> QED BY <5>2, <5>3
        <4> HIDE DEF tail
        <4> QED BY <4>10
      <3> HIDE DEF tail
      <3> QED BY <1>1, <3>3, <3>4, <3>7, <3>11, SMTT(30)
    <2> QED BY <1>1, <1>8, <2>1, <2>2, <2>3, <2>4
  <1>11. T = 1 .. m
    <2>1. \A n \in 1 .. m : (\A k \in n + 1 .. m : k \in T) => n \in T
      <3> TAKE n \in 1 .. m
      <3>1. \A k \in n + 1 .. m : k \in 1 .. m
        OBVIOUS
      <3> HIDE DEF Agree, m
      <3> QED BY <1>10
    <2> HIDE DEF T
    <2>2. T \in SUBSET (1 .. m) /\ m \in Nat
      BY <1>1 DEF T
    <2> QED BY <2>1, <2>2, DownwardInduction
  <1>12. \A n \in 1 .. m : Between(pat, n) => Agree(n)
    <2> HIDE DEF Agree, m
    <2> QED BY <1>11
  <1> QED BY <1>12 DEF M, W

(* "`*' (any chars except `/') and `**' (any chars including `/')"           *)
(* (pipeline.rs:333-334): for every glob and paths of any length, the        *)
(* backtracking matcher finds every path that a rule's glob denotes, unless  *)
(* a single `*' is followed by a slash, and finds no other one, unless the   *)
(* glob has a single `*' or a slash behind a `**'.                           *)
THEOREM GlobsMatchAsDocumented == PolicySpec => []GlobsAsDocumented
  <1>1. PolicyTypeOK => GlobsAsDocumented
    <2> SUFFICES ASSUME PolicyTypeOK, NEW i \in 1 .. Len(rules), Legible(rules[i].glob)
                 PROVE  LET g == rules[i].glob
                            matched == {x \in Paths : GlobMatch(g, x)}
                        IN  /\ NothingMissed(g) => Denotes(g) \subseteq matched
                            /\ NothingLoose(g) => matched \subseteq Denotes(g)
      BY DEF GlobsAsDocumented, NothingMissed, NothingLoose
    <2> DEFINE g == rules[i].glob
    <2>1. g \in Globs
      <3>1. rules[i] \in Rule
        BY DEF PolicyTypeOK
      <3> QED BY <3>1 DEF Rule
    <2>2. g \in Seq(STRING) /\ Len(g) \in Nat /\ Legible(g)
      <3> HIDE DEF g
      <3>1. g \in Seq(STRING)
        BY <2>1, PolicyConstants
      <3> QED BY <3>1 DEF g
    <2> HIDE DEF g
    <2>3. ASSUME NEW x \in Paths, NothingMissed(g)
          PROVE  /\ x \in Denotes(g) => GlobMatch(g, x)
                 /\ NothingLoose(g) /\ GlobMatch(g, x) => x \in Denotes(g)
      <3>1. x \in Seq(STRING) /\ SubSeq(x, 1, Len(x)) = x /\ Len(x) \in Nat
        BY PathsAreText, SubSeqFull
      <3>2. 1 \in 1 .. Len(x) + 1 /\ 1 \in 1 .. Len(g) + 1 /\ Between(g, 1)
        BY <2>2, <3>1 DEF Between, Star
      <3>3. /\ SubSeq(x, 1, Len(x)) \in Meanings(g)[1] => 1 \in GlobMatchRec(g, x)[1]
            /\ NothingLoose(g) /\ 1 \in GlobMatchRec(g, x)[1] => SubSeq(x, 1, Len(x)) \in Meanings(g)[1]
        BY <2>2, <2>3, <3>2, MatchesWhatItDenotes
      <3> QED BY <3>1, <3>3 DEF GlobMatch, Denotes
    <2>4. Denotes(g) \subseteq Paths
      <3>1. 1 \in 1 .. Len(g) + 1
        BY <2>2
      <3> QED BY <2>2, <3>1, MeaningTable DEF Denotes
    <2>5. NothingLoose(g) => NothingMissed(g)
      BY DEF NothingLoose, NothingMissed
    <2>6. /\ NothingMissed(g) => Denotes(g) \subseteq {x \in Paths : GlobMatch(g, x)}
          /\ NothingLoose(g) => {x \in Paths : GlobMatch(g, x)} \subseteq Denotes(g)
      BY <2>3, <2>4, <2>5
    <2> QED BY <2>6 DEF g
  <1> QED BY <1>1, PolicyTypes, PTL

(* A `*' alone goes on only where no slash follows (the `continue' of        *)
(* pipeline.rs:361-363): with a slash behind it, it matches no path at all,  *)
(* so that a rule on "*/secret" speaks of nothing.                           *)
THEOREM StarBeforeSlashMatchesNothing ==
    ASSUME NEW pat \in Seq(STRING), Len(pat) > 1, pat[1] = "*", pat[2] = "/",
           NEW pth \in Seq(STRING)
    PROVE  ~GlobMatch(pat, pth)
  <1> DEFINE M == GlobMatchRec(pat, pth)
  <1>1. Len(pat) \in Nat /\ Len(pth) \in Nat /\ 1 \in 1 .. Len(pat) + 1 /\ 2 \in 1 .. Len(pat) + 1
    OBVIOUS
  <1>2. \A n \in 1 .. Len(pat) + 1 : M[n] = GlobMatchFrom(pat, pth, M, n)
    <2> HIDE DEF M
    <2>1. M = [pi \in 1 .. Len(pat) + 1 |-> GlobMatchFrom(pat, pth, M, pi)]
      BY MatchTable DEF M
    <2> QED BY <2>1
  <1> HIDE DEF M
  <1>3. \A s \in M[2] : s \in 1 .. Len(pth) /\ pth[s] = "/"
    <2>1. GlobMatchFrom(pat, pth, M, 2) =
             {si \in 1 .. Len(pth) : Fits(pat[2], pth[si]) /\ si + 1 \in M[2 + 1]}
      <3>1. 2 <= Len(pat) /\ ~Star(pat, 2)
        BY <1>1 DEF Star
      <3> QED BY <1>1, <3>1, MatchCases
    <2> QED BY <1>1, <1>2, <2>1 DEF Fits
  <1>4. GlobMatchFrom(pat, pth, M, 1) = {}
    BY <1>1, <1>3 DEF GlobMatchFrom
  <1> QED BY <1>1, <1>2, <1>4 DEF GlobMatch, M

\* A text of one character, and texts put together.
LEMMA OneLong ==
    \A c \in STRING : <<c>> \in Seq(STRING) /\ Len(<<c>>) = 1 /\ <<c>>[1] = c /\ <<c>> \o << >> = <<c>>
  <1> SUFFICES \A S : \A c \in S : /\ <<c>> \in Seq(S) /\ Len(<<c>>) = 1
                                   /\ <<c>>[1] = c /\ <<c>> \o << >> = <<c>>
    OBVIOUS
  <1> QED OBVIOUS

LEMMA OneMore ==
    ASSUME NEW y \in Seq(STRING), NEW v \in Seq(STRING), Len(v) = 1
    PROVE  /\ Len(y \o v) = Len(y) + 1 /\ Len(y) \in Nat
           /\ \A i \in 1 .. Len(y) : (y \o v)[i] = y[i]
  <1>1. Len(y \o v) = Len(y) + 1 /\ Len(y) \in Nat
    BY ConcatProperties, SMTT(30)
  <1>2. \A i \in 1 .. Len(y) : (y \o v)[i] = y[i]
    BY ConcatProperties
  <1> QED BY <1>1, <1>2

LEMMA TwoMore ==
    ASSUME NEW y \in Seq(STRING), NEW u \in Seq(STRING), NEW v \in Seq(STRING), Len(u) = 1, Len(v) = 1
    PROVE  /\ Len(y \o (u \o v)) = Len(y) + 2 /\ Len(y) \in Nat
           /\ (y \o (u \o v))[Len(y) + 1] = u[1]
  <1> DEFINE w == u \o v
  <1>1. w \in Seq(STRING) /\ Len(w) = 2
    BY ConcatProperties, SMTT(30)
  <1>2. w[1] = u[1]
    BY ConcatProperties
  <1> HIDE DEF w
  <1>3. Len(y \o w) = Len(y) + 2 /\ Len(y) \in Nat
    BY <1>1, ConcatProperties, SMTT(30)
  <1>4. (y \o w)[Len(y) + 1] = w[1]
    BY <1>1, ConcatProperties, SMTT(30)
  <1> QED BY <1>2, <1>3, <1>4 DEF w

LEMMA FromSingle ==
    ASSUME NEW a, NEW ys, NEW t \in Concats({a}, ys)
    PROVE  \E y \in ys : t = a \o y
  BY DEF Concats

LEMMA FromConcats ==
    ASSUME NEW xs, NEW ys, NEW t \in Concats(xs, ys)
    PROVE  t \in Paths /\ \E x \in xs, y \in ys : t = x \o y
  BY DEF Concats

\* The two tables of a glob and a path: what the matcher and the meaning say
\* at a plain character and at the end of the glob.
LEMMA PlainEnd ==
    ASSUME NEW pat \in Seq(STRING), NEW x \in Seq(STRING), Len(pat) > 0, Len(x) > 0,
           pat[Len(pat)] \notin {"*", "?"}, x[Len(x)] = pat[Len(pat)]
    PROVE  /\ Len(x) \in GlobMatchRec(pat, x)[Len(pat)]
           /\ \A u \in Meanings(pat)[Len(pat)] : u \in Seq(STRING) /\ Len(u) = 1
  <1> DEFINE M == GlobMatchRec(pat, x)
             W == Meanings(pat)
             n == Len(pat)
  <1>1. /\ n \in 1 .. n + 1 /\ n + 1 \in 1 .. n + 1 /\ n <= n
        /\ Len(x) \in 1 .. Len(x) /\ n \in Nat /\ DOMAIN pat = 1 .. n
    OBVIOUS
  <1>2. \A k \in 1 .. n + 1 : M[k] = GlobMatchFrom(pat, x, M, k) /\ W[k] = Meaning(pat, W, k)
    <2> HIDE DEF M, W, n
    <2>1. M = [k \in 1 .. n + 1 |-> GlobMatchFrom(pat, x, M, k)]
      BY MatchTable DEF M, n
    <2>2. W = [k \in 1 .. n + 1 |-> Meaning(pat, W, k)]
      BY MeaningTable DEF W, n
    <2> QED BY <2>1, <2>2
  <1> HIDE DEF M, W
  <1>3. ~Star(pat, n)
    BY DEF Star
  <1>4. Len(x) \in M[n]
    <2>1. GlobMatchFrom(pat, x, M, n + 1) = {Len(x) + 1}
      BY <1>1, MatchCases
    <2>2. GlobMatchFrom(pat, x, M, n) = {si \in 1 .. Len(x) : Fits(pat[n], x[si]) /\ si + 1 \in M[n + 1]}
      BY <1>1, <1>3, MatchCases
    <2>3. Fits(pat[n], x[Len(x)])
      BY DEF Fits
    <2> QED BY <1>1, <1>2, <2>1, <2>2, <2>3
  <1>5. ASSUME NEW u \in W[n]
        PROVE  u \in Seq(STRING) /\ Len(u) = 1
    <2>1. W[n] = Concats({<<pat[n]>>}, {<< >>})
      <3>1. Meaning(pat, W, n + 1) = {<< >>}
        BY <1>1, MeaningCases
      <3>2. Meaning(pat, W, n) = Concats(OneChar(pat[n]), W[n + 1])
        BY <1>1, <1>3, MeaningCases
      <3>3. OneChar(pat[n]) = {<<pat[n]>>}
        BY DEF OneChar
      <3> QED BY <1>1, <1>2, <3>1, <3>2, <3>3
    <2>2. u = <<pat[n]>> \o << >>
      <3>1. u \in Concats({<<pat[n]>>}, {<< >>})
        BY <1>5, <2>1
      <3> QED BY <3>1, FromConcats
    <2>3. pat[n] \in STRING
      BY <1>1
    <2> QED BY <2>2, <2>3, OneLong
  <1> QED BY <1>4, <1>5 DEF M, W

\* "**/c" and "*c", and what the next two theorems ask of a path "dc".
StarsSlash(pat) ==
    Len(pat) = 4 /\ pat[1] = "*" /\ pat[2] = "*" /\ pat[3] = "/" /\ pat[4] \notin {"*", "?"}
StarOnly(pat) == Len(pat) = 2 /\ pat[1] = "*" /\ pat[2] \notin {"*", "?", "/"}
EndsAlike(pat, x) == Len(x) = 2 /\ x[2] = pat[Len(pat)]
SlashFirst(x) == x[1] = "/"

(* The comment's `**' stands for characters and its slash for a slash; the   *)
(* matcher steps over a slash behind the `**' (pipeline.rs:348-353), so that *)
(* a rule on "**/b" speaks of "ab" too, which that glob does not denote.     *)
THEOREM SlashBehindStarsIsSkipped ==
    ASSUME NEW pat \in Seq(STRING), StarsSlash(pat),
           NEW x \in Seq(STRING), EndsAlike(pat, x), ~SlashFirst(x)
    PROVE  GlobMatch(pat, x) /\ x \notin Denotes(pat)
  <1> DEFINE M == GlobMatchRec(pat, x)
             W == Meanings(pat)
  <1>1. /\ Len(pat) = 4 /\ DOMAIN pat = 1 .. 4 /\ Len(x) = 2
        /\ pat[3] \in STRING
    <2>1. Len(pat) = 4 /\ Len(x) = 2
      BY DEF StarsSlash, EndsAlike
    <2>2. \A n \in 1 .. Len(pat) : pat[n] \in STRING
      BY ElementOfSeq
    <2>3. DOMAIN pat = 1 .. 4 /\ 3 \in 1 .. Len(pat)
      BY <2>1
    <2> QED BY <2>1, <2>2, <2>3
  <1>2. \A n \in 1 .. Len(pat) + 1 : M[n] = GlobMatchFrom(pat, x, M, n) /\ W[n] = Meaning(pat, W, n)
    <2> HIDE DEF M, W
    <2>1. M = [n \in 1 .. Len(pat) + 1 |-> GlobMatchFrom(pat, x, M, n)]
      BY MatchTable DEF M
    <2>2. W = [n \in 1 .. Len(pat) + 1 |-> Meaning(pat, W, n)]
      BY MeaningTable DEF W
    <2> QED BY <2>1, <2>2
  <1>3. Len(x) \in M[Len(pat)] /\ \A u \in W[Len(pat)] : u \in Seq(STRING) /\ Len(u) = 1
    <2>1. Len(pat) > 0 /\ Len(x) > 0 /\ pat[Len(pat)] \notin {"*", "?"} /\ x[Len(x)] = pat[Len(pat)]
      BY DEF StarsSlash, EndsAlike
    <2> QED BY <2>1, PlainEnd
  <1> HIDE DEF M, W
  <1>4. /\ Star(pat, 1) /\ Star(pat, 2) /\ ~Star(pat, 3) /\ pat[3] = "/"
        /\ PairEnds(pat, 1) = 4 /\ OneChar(pat[3]) = {<<pat[3]>>}
    BY <1>1 DEF StarsSlash, Star, PairEnds, OneChar
  <1>5. 1 \in M[1]
    <2>1. GlobMatchFrom(pat, x, M, 1) = {si \in 1 .. Len(x) + 1 : \E s \in M[PairEnds(pat, 1)] : si <= s}
      <3>1. 1 \in 1 .. Len(pat) + 1 /\ Star(pat, 1 + 1)
        BY <1>1, <1>4
      <3> QED BY <1>4, <3>1, MatchCases
    <2> QED BY <1>1, <1>2, <1>3, <1>4, <2>1
  <1>6. \A t \in W[1] : Len(t) = 2 => t[1] = "/"
    <2>1. W[1] = Concats(Paths, W[3])
      <3>1. 1 \in 1 .. Len(pat) + 1 /\ Star(pat, 1 + 1) /\ 1 + 2 = 3
        BY <1>1, <1>4
      <3>2. Meaning(pat, W, 1) = Concats(Paths, W[1 + 2])
        BY <1>4, <3>1, MeaningCases
      <3> QED BY <1>2, <3>1, <3>2
    <2>2. W[3] = Concats({<<pat[3]>>}, W[4])
      <3>1. 3 \in 1 .. Len(pat) + 1 /\ 3 <= Len(pat) /\ 3 + 1 = 4
        BY <1>1
      <3>2. Meaning(pat, W, 3) = Concats(OneChar(pat[3]), W[3 + 1])
        BY <1>4, <3>1, MeaningCases
      <3> QED BY <1>2, <1>4, <3>1, <3>2
    <2> DEFINE V == W[4]
               a == <<pat[3]>>
    <2>3. \A v \in V : v \in Seq(STRING) /\ Len(v) = 1
      BY <1>1, <1>3
    <2>4. a \in Seq(STRING) /\ Len(a) = 1 /\ a[1] = "/"
      <3>1. pat[3] \in STRING
        BY <1>1
      <3> QED BY <1>4, <3>1, OneLong
    <2>5. W[1] = Concats(Paths, Concats({a}, V))
      BY <2>1, <2>2
    <2> HIDE DEF V, a
    <2>6. ASSUME NEW y \in Paths, NEW v \in V, Len(y \o (a \o v)) = 2
          PROVE  (y \o (a \o v))[1] = "/"
      <3> DEFINE t == y \o (a \o v)
      <3>1. Len(t) = Len(y) + 2 /\ t[Len(y) + 1] = a[1] /\ Len(y) \in Nat
        <4>1. y \in Seq(STRING)
          BY PathsAreText
        <4> QED BY <2>3, <2>4, <4>1, TwoMore, Zenon
      <3>2. Len(t) = 2
        BY <2>6
      <3> HIDE DEF t
      <3>3. Len(y) + 1 = 1
        <4>1. \A k \in Nat : k + 2 = 2 => k + 1 = 1
          OBVIOUS
        <4> QED BY <3>1, <3>2, <4>1, Zenon
      <3> QED BY <2>4, <3>1, <3>3, Zenon DEF t
    <2>7. ASSUME NEW U, NEW t \in Concats(Paths, U)
          PROVE  \E y \in Paths, u \in U : t = y \o u
      BY <2>7, FromConcats
    <2>8. ASSUME NEW u \in Concats({a}, V)
          PROVE  \E v \in V : u = a \o v
      BY <2>8, FromSingle
    <2>9. ASSUME NEW t \in Concats(Paths, Concats({a}, V)), Len(t) = 2
          PROVE  t[1] = "/"
      <3> DEFINE U == Concats({a}, V)
      <3>1. \A u \in U : \E v \in V : u = a \o v
        BY <2>8
      <3> HIDE DEF U
      <3>2. t \in Concats(Paths, U)
        BY DEF U
      <3>3. \E y \in Paths, u \in U : t = y \o u
        BY <2>7, <3>2, Zenon
      <3>4. PICK y \in Paths, v \in V : t = y \o (a \o v)
        BY <3>1, <3>3, Zenon
      <3> QED BY <2>6, <2>9, <3>4, Zenon
    <2> QED BY <2>5, <2>9, Zenon
  <1> QED BY <1>1, <1>5, <1>6 DEF GlobMatch, Denotes, SlashFirst, M, W

(* The comment's `*' stands for no slash; the matcher only looks at the      *)
(* character it stops at (pipeline.rs:360-366), so that a rule on "*b"       *)
(* speaks of "/b" too.                                                       *)
THEOREM StarCrossesSlash ==
    ASSUME NEW pat \in Seq(STRING), StarOnly(pat),
           NEW x \in Seq(STRING), EndsAlike(pat, x), SlashFirst(x)
    PROVE  GlobMatch(pat, x) /\ x \notin Denotes(pat)
  <1> DEFINE M == GlobMatchRec(pat, x)
             W == Meanings(pat)
  <1>1. Len(pat) = 2 /\ DOMAIN pat = 1 .. 2 /\ Len(x) = 2
    BY DEF StarOnly, EndsAlike
  <1>2. M[1] = GlobMatchFrom(pat, x, M, 1) /\ W[1] = Meaning(pat, W, 1)
    <2> HIDE DEF M, W
    <2>1. M = [n \in 1 .. Len(pat) + 1 |-> GlobMatchFrom(pat, x, M, n)]
      BY MatchTable DEF M
    <2>2. W = [n \in 1 .. Len(pat) + 1 |-> Meaning(pat, W, n)]
      BY MeaningTable DEF W
    <2>3. 1 \in 1 .. Len(pat) + 1
      BY <1>1
    <2> QED BY <2>1, <2>2, <2>3
  <1>3. Len(x) \in M[Len(pat)] /\ \A u \in W[Len(pat)] : u \in Seq(STRING) /\ Len(u) = 1
    <2>1. Len(pat) > 0 /\ Len(x) > 0 /\ pat[Len(pat)] \notin {"*", "?"} /\ x[Len(x)] = pat[Len(pat)]
      BY DEF StarOnly, EndsAlike
    <2> QED BY <2>1, PlainEnd
  <1> HIDE DEF M, W
  <1>4. /\ Star(pat, 1) /\ ~Star(pat, 1 + 1) /\ x[2] # "/" /\ 1 + 1 = 2
        /\ 1 \in 1 .. Len(pat) + 1
    BY <1>1 DEF StarOnly, EndsAlike, Star
  <1>5. 1 \in M[1]
    <2>1. GlobMatchFrom(pat, x, M, 1) =
             {si \in 1 .. Len(x) + 1 : \E s \in M[1 + 1] : si <= s /\ ~(s <= Len(x) /\ x[s] = "/")}
      BY <1>4, MatchCases
    <2> QED BY <1>1, <1>2, <1>3, <1>4, <2>1
  <1>6. \A t \in W[1] : Len(t) = 2 => t[1] # "/"
    <2>1. W[1] = Concats(Segment, W[2])
      BY <1>2, <1>4, MeaningCases
    <2>2. \A y \in Segment : y \in Seq(STRING) /\ \A i \in 1 .. Len(y) : y[i] # "/"
      BY PathsAreText DEF Segment
    <2> DEFINE V == W[2]
    <2>3. \A v \in V : v \in Seq(STRING) /\ Len(v) = 1
      BY <1>1, <1>3
    <2> HIDE DEF V
    <2>4. ASSUME NEW y \in Segment, NEW v \in V, Len(y \o v) = 2
          PROVE  (y \o v)[1] # "/"
      <3> DEFINE t == y \o v
      <3>1. /\ Len(t) = Len(y) + 1 /\ Len(y) \in Nat
            /\ \A i \in 1 .. Len(y) : t[i] = y[i]
        BY <2>2, <2>3, OneMore, Zenon
      <3>2. Len(t) = 2
        BY <2>4
      <3> HIDE DEF t
      <3>3. 1 \in 1 .. Len(y)
        <4>1. \A k \in Nat : k + 1 = 2 => 1 \in 1 .. k
          OBVIOUS
        <4> QED BY <3>1, <3>2, <4>1, Zenon
      <3> QED BY <2>2, <3>1, <3>3, Zenon DEF t
    <2>5. ASSUME NEW t \in Concats(Segment, V), Len(t) = 2
          PROVE  t[1] # "/"
      <3>1. \E y \in Segment, v \in V : t = y \o v
        BY FromConcats
      <3>2. PICK y \in Segment, v \in V : t = y \o v
        BY <3>1
      <3> QED BY <2>4, <2>5, <3>2, Zenon
    <2> QED BY <2>1, <2>5, Zenon DEF V
  <1> QED BY <1>1, <1>5, <1>6 DEF GlobMatch, Denotes, SlashFirst, M, W

=============================================================================
