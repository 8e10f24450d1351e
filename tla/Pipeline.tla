------------------------------ MODULE Pipeline ------------------------------
(***************************************************************************)
(* The dispatch pipeline of pan-core/src/pipeline.rs:                      *)
(* resolve -> validate -> govern -> (hooks) execute (hooks) -> record, and *)
(* the nested dispatches a capability such as cap.skill.run makes through  *)
(* its ScopedInvoker (pan-core/src/invoker.rs).  Any number of dispatches  *)
(* are in flight at once: the stages share no lock.                        *)
(*                                                                         *)
(* The registry, the schemas and the governor are functions of the request *)
(* that do not change while the pipeline exists (it borrows them), so they *)
(* are constants.  What an executor or a hook answers is open.             *)
(***************************************************************************)
EXTENDS Naturals, Sequences

CONSTANTS
    Calls,          \* identities of dispatches
    Requests,       \* (capability, args, scope) triples
    CapOf,          \* CapOf[r], OriginOf[r]: their parts
    OriginOf,
    Registered,     \* capability ids in the registry
    Valid,          \* requests whose args pass minimal_schema_check
    Policy,         \* Policy[r]: the governor's verdict
    Composite,      \* capabilities that need a ScopedInvoker
    NHooks,         \* number of EffectHooks
    None            \* no parent

Verdicts == {"Allow", "Deny", "RequireApproval"}

ASSUME PipelineConstants ==
    /\ Requests # {}
    /\ Policy \in [Requests -> Verdicts]
    /\ NHooks \in Nat
    /\ None \notin Calls

VARIABLES
    stage,      \* stage[c]: the stage call c is about to run
    req,        \* req[c]: its request
    parent,     \* parent[c]: the call whose executor dispatched c, or None
    invoker,    \* invoker[c]: will its executor get a ScopedInvoker?
    pre, post,  \* hooks called before and after the executor
    ok,         \* ok[c]: did the executor return Ok?
    trail       \* trail[c]: StageCompleted events of c, oldest first

vars == <<stage, req, parent, invoker, pre, post, ok, trail>>

Settled == {"effected", "failed"}
Stages == {"free", "resolve", "validate", "govern", "hooks", "run", "posthooks"} \cup Settled

Entry == {"resolve", "validate", "govern", "execute"} \X {"Ok", "Denied", "Error"}

InFlight(c) == stage[c] \notin Settled \cup {"free"}

Init ==
    /\ stage = [c \in Calls |-> "free"]
    /\ req = [c \in Calls |-> CHOOSE r \in Requests : TRUE]
    /\ parent = [c \in Calls |-> None]
    /\ invoker = [c \in Calls |-> FALSE]
    /\ pre = [c \in Calls |-> 0]
    /\ post = [c \in Calls |-> 0]
    /\ ok = [c \in Calls |-> FALSE]
    /\ trail = [c \in Calls |-> << >>]

GoTo(c, s) == stage' = [stage EXCEPT ![c] = s]
Record(c, what, status) == trail' = [trail EXCEPT ![c] = Append(@, <<what, status>>)]

\* Call c enters the pipeline with request r on behalf of p.
Enter(c, r, p, inv) ==
    /\ stage[c] = "free"
    /\ GoTo(c, "resolve")
    /\ req' = [req EXCEPT ![c] = r]
    /\ parent' = [parent EXCEPT ![c] = p]
    /\ invoker' = [invoker EXCEPT ![c] = inv]
    /\ UNCHANGED <<pre, post, ok, trail>>

-----------------------------------------------------------------------------
\* dispatch (the daemon) and dispatch_with_invoker (the loop).
Dispatch(c, r) == Enter(c, r, None, FALSE)
DispatchWithInvoker(c, r) == Enter(c, r, None, TRUE)

\* PipelineInvoker::invoke, called by the running executor of p, one call at a
\* time: a plain dispatch under the scope the loop stamped on p.
NestedInvoke(p, c, r) ==
    /\ stage[p] = "run"
    /\ invoker[p]
    /\ CapOf[req[p]] \in Composite
    /\ OriginOf[r] = OriginOf[req[p]]
    /\ ~\E d \in Calls : parent[d] = p /\ InFlight(d)
    /\ Enter(c, r, p, FALSE)

Resolve(c) ==
    /\ stage[c] = "resolve"
    /\ IF CapOf[req[c]] \in Registered
       THEN GoTo(c, "validate") /\ UNCHANGED trail
       ELSE GoTo(c, "failed") /\ Record(c, "resolve", "Error")
    /\ UNCHANGED <<req, parent, invoker, pre, post, ok>>

Validate(c) ==
    /\ stage[c] = "validate"
    /\ IF req[c] \in Valid
       THEN GoTo(c, "govern") /\ Record(c, "validate", "Ok")
       ELSE GoTo(c, "failed") /\ Record(c, "validate", "Error")
    /\ UNCHANGED <<req, parent, invoker, pre, post, ok>>

\* Mutant of Govern: only an outright Deny stops the effect.
GovernDenyOnly(c) ==
    /\ stage[c] = "govern"
    /\ IF Policy[req[c]] # "Deny"
       THEN GoTo(c, "hooks") /\ Record(c, "govern", "Ok")
       ELSE GoTo(c, "failed") /\ Record(c, "govern", "Denied")
    /\ UNCHANGED <<req, parent, invoker, pre, post, ok>>

\* Only Allow yields the Governed token.
Govern(c) ==
    /\ stage[c] = "govern"
    /\ IF Policy[req[c]] = "Allow"
       THEN GoTo(c, "hooks") /\ Record(c, "govern", "Ok")
       ELSE GoTo(c, "failed") /\ Record(c, "govern", "Denied")
    /\ UNCHANGED <<req, parent, invoker, pre, post, ok>>

\* The next pre_invoke hook lets the effect through.
PreHook(c) ==
    /\ stage[c] = "hooks"
    /\ pre[c] < NHooks
    /\ pre' = [pre EXCEPT ![c] = @ + 1]
    /\ UNCHANGED <<stage, req, parent, invoker, post, ok, trail>>

\* Mutant of HookAborts: a failing hook is logged and the effect goes on.
HookIgnored(c) ==
    /\ stage[c] = "hooks"
    /\ pre[c] < NHooks
    /\ GoTo(c, "run")
    /\ UNCHANGED <<req, parent, invoker, pre, post, ok, trail>>

\* The next pre_invoke hook returns Err: the effect is aborted on the spot.
HookAborts(c) ==
    /\ stage[c] = "hooks"
    /\ pre[c] < NHooks
    /\ GoTo(c, "failed")
    /\ UNCHANGED <<req, parent, invoker, pre, post, ok, trail>>

\* Every hook has agreed: the executor is called.
StartExecutor(c) ==
    /\ stage[c] = "hooks"
    /\ pre[c] = NHooks
    /\ GoTo(c, "run")
    /\ UNCHANGED <<req, parent, invoker, pre, post, ok, trail>>

\* The executor returns.  It has awaited the calls it made, and a composite
\* capability without an invoker can only fail.
ExecutorReturns(c, good) ==
    /\ stage[c] = "run"
    /\ ~\E d \in Calls : parent[d] = c /\ InFlight(d)
    /\ good => invoker[c] \/ CapOf[req[c]] \notin Composite
    /\ ok' = [ok EXCEPT ![c] = good]
    /\ GoTo(c, "posthooks")
    /\ UNCHANGED <<req, parent, invoker, pre, post, trail>>

\* The next post_invoke hook has seen the result.
PostHook(c) ==
    /\ stage[c] = "posthooks"
    /\ post[c] < NHooks
    /\ post' = [post EXCEPT ![c] = @ + 1]
    /\ UNCHANGED <<stage, req, parent, invoker, pre, ok, trail>>

\* Mutant of Finish: an executor error is reported as a completed stage.
FinishAlwaysOk(c) ==
    /\ stage[c] = "posthooks"
    /\ post[c] = NHooks
    /\ GoTo(c, IF ok[c] THEN "effected" ELSE "failed")
    /\ Record(c, "execute", "Ok")
    /\ UNCHANGED <<req, parent, invoker, pre, post, ok>>

\* record: the execute stage is reported and the dispatch returns.
Finish(c) ==
    /\ stage[c] = "posthooks"
    /\ post[c] = NHooks
    /\ GoTo(c, IF ok[c] THEN "effected" ELSE "failed")
    /\ Record(c, "execute", IF ok[c] THEN "Ok" ELSE "Error")
    /\ UNCHANGED <<req, parent, invoker, pre, post, ok>>

Step(c) ==
    \/ Resolve(c)
    \/ Validate(c)
    \/ Govern(c)
    \/ PreHook(c)
    \/ HookAborts(c)
    \/ StartExecutor(c)
    \/ \E good \in BOOLEAN : ExecutorReturns(c, good)
    \/ PostHook(c)
    \/ Finish(c)

Next ==
    \E c \in Calls :
        \/ Step(c)
        \/ \E r \in Requests :
              \/ Dispatch(c, r)
              \/ DispatchWithInvoker(c, r)
              \/ \E p \in Calls : NestedInvoke(p, c, r)

Spec == Init /\ [][Next]_vars

-----------------------------------------------------------------------------
(* Properties.                                                             *)

(* Stages, counters and trails keep their types: no hook is called more   *)
(* often than there are hooks.                                            *)
TypeOK ==
    /\ stage \in [Calls -> Stages]
    /\ req \in [Calls -> Requests]
    /\ parent \in [Calls -> Calls \cup {None}]
    /\ invoker \in [Calls -> BOOLEAN] /\ ok \in [Calls -> BOOLEAN]
    /\ pre \in [Calls -> 0 .. NHooks] /\ post \in [Calls -> 0 .. NHooks]
    /\ trail \in [Calls -> Seq(Entry)]

MayAct == {r \in Requests : CapOf[r] \in Registered /\ r \in Valid /\ Policy[r] = "Allow"}

\* The executor was called for c.
Acted(c) ==
    \/ stage[c] \in {"run", "posthooks", "effected"}
    \/ stage[c] = "failed" /\ \E i \in 1 .. Len(trail[c]) : trail[c][i][1] = "execute"

(* "Execution cannot happen without a passing govern decision"             *)
(* (pipeline.rs:6-7): whatever else is in flight, an executor runs only    *)
(* for a registered, valid, allowed request to which every hook agreed,    *)
(* and the trail of the call shows both verdicts, in order.                *)
EffectsAreGoverned ==
    \A c \in Calls : Acted(c) =>
        /\ req[c] \in MayAct
        /\ pre[c] = NHooks
        /\ Len(trail[c]) >= 2
        /\ trail[c][1] = <<"validate", "Ok">> /\ trail[c][2] = <<"govern", "Ok">>

(* A nested invocation (invoker.rs:145-158) happens inside its parent's    *)
(* execution, judged under the parent's origin: while it is in flight the  *)
(* parent's executor runs, is itself governed, and no post hook of the     *)
(* parent has been called.                                                 *)
NestedInsideParent ==
    \A c \in Calls : parent[c] # None =>
        /\ OriginOf[req[c]] = OriginOf[req[parent[c]]]
        /\ Acted(parent[c]) /\ req[parent[c]] \in MayAct
        /\ InFlight(c) => stage[parent[c]] = "run" /\ post[parent[c]] = 0

(* Nesting stops after one level: a nested call gets no invoker            *)
(* (PipelineInvoker::invoke uses dispatch, not dispatch_with_invoker), so  *)
(* a skill that runs a skill cannot recurse and never succeeds.            *)
NestingIsShallow ==
    \A c \in Calls : parent[c] # None =>
        /\ parent[parent[c]] = None
        /\ stage[c] = "effected" => CapOf[req[c]] \notin Composite

(* The trail of a settled call tells how it ended: effected if and only if *)
(* the last stage is execute/Ok; a refusal names its stage; the one        *)
(* failure that leaves no trace of its own is a hook's abort, after        *)
(* govern/Ok (pipeline.rs:711-757).                                        *)
LastOf(c) == trail[c][Len(trail[c])]
TrailTellsOutcome ==
    \A c \in Calls :
        /\ stage[c] = "effected" => LastOf(c) = <<"execute", "Ok">>
        /\ stage[c] = "failed" =>
              \/ LastOf(c) \in {<<"resolve", "Error">>, <<"validate", "Error">>,
                                <<"govern", "Denied">>, <<"execute", "Error">>}
              \/ LastOf(c) = <<"govern", "Ok">> /\ pre[c] < NHooks

(* The pipeline implements the promise of module GovernedEffect.           *)
PhaseOf(c) ==
    IF stage[c] = "free" THEN "idle"
    ELSE IF stage[c] \in {"resolve", "validate", "govern", "hooks"} THEN "asked"
    ELSE IF stage[c] \in {"run", "posthooks"} THEN "acting"
    ELSE IF stage[c] = "effected" THEN "effected"
    ELSE IF Acted(c) THEN "broken" ELSE "refused"

Promise == INSTANCE GovernedEffect WITH phase <- [c \in Calls |-> PhaseOf(c)]

KeepsPromise == Promise!Governed
=============================================================================
