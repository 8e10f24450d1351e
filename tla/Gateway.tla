------------------------------ MODULE Gateway ------------------------------
(* The HTTP gateway (pan-gateway) serving a pool of assembled agents to      *)
(* concurrent clients: chat, goals and delegation, whole answers and event   *)
(* streams.  A request runs one span of its agent (modules RunSpan and       *)
(* Pipeline have the detail; here a span is its decisions, its calls and     *)
(* what it says), whose provider may be a shared LLM client, and whose calls *)
(* may delegate to a child agent that runs inside the call                   *)
(* (pan-agent/src/agent.rs).                                                 *)
EXTENDS AgentAssembly, LlmClient

CONSTANTS
    Clients,            \* each makes one request
    Menu,               \* the requests a client may make
    Dirs,               \* what the agents directory may hold: names to manifests
    Outside,            \* names that lead out of it ("../x", "sub/x", "/x")
    Edits,              \* how its files may be changed while the gateway runs
    Global,             \* the plugin tables of ~/.pan/config.toml
    Bodies,             \* the bodies a model may answer with
    MaxSteps,           \* the span's step limit
    MaxDelegationDepth  \* MAX_DELEGATION_DEPTH

\* A token_budget is a number of tokens.
Budgeted(table) == "token_budget" \in DOMAIN table => table["token_budget"] \in Nat

\* What a request may be, at the stages given.
Requests(stages) ==
    [at: stages, kind: {"chat", "goals", "delegate"}, agent: STRING, child: STRING,
     stream: BOOLEAN, auth: BOOLEAN, messages: Seq([role: STRING, id: Nat]),
     status: {None, "200", "401", "404", "500"},
     end: {None, "step_limit", "achieved", "abandoned", "unknown"}, said: Nat]

Manifests == UNION {Range(d) : d \in Dirs}

ASSUME GatewayConstants ==
    /\ Callers = Clients /\ Clients # {} /\ IsFiniteSet(Clients)
    /\ MaxSteps \in Nat \ {0} /\ MaxDelegationDepth \in Nat /\ MaxRetries \in Nat
    /\ Costs \subseteq Nat /\ \E m \in Costs \ {0} : \A n \in Costs : n <= m
    /\ Menu \subseteq Requests({"idle"})
    /\ \A b \in Bodies : b.kind \notin {"error", "shapeless"} =>
          b.says \in BOOLEAN /\ b.names \in Seq([underscored: Seq(STRING)])
    /\ \A i \in DOMAIN Global : Budgeted(Global[i])
    /\ \A d \in Dirs : DOMAIN d \subseteq STRING
    /\ Edits \subseteq Dirs \X Dirs
    /\ \A m \in Manifests :
          /\ m.enable \in Seq(STRING) /\ m.name \in STRING /\ m.persona \in Seq(STRING)
          /\ Budgeted(m.settings) /\ <<m.name>> \in Instances
    /\ Clients \X (1 .. MaxDelegationDepth + 1) \subseteq Instances

VARIABLES
    server,     \* loading, serving or exited
    dir,        \* the files an agent's name may lead to: those of the agents
                \* directory, and others outside it
    pool,       \* the assembled agents by name
    counted,    \* metrics.requests
    req,        \* per client: its request and how it stands
    frames,     \* per client: the span and the delegated spans inside it
    chan,       \* per client: tokens sent and not yet streamed
    sse,        \* per client: the events streamed
    effects,    \* history: effects executed, with the agent and the origin
    held        \* history: the manifests the files have held

vars == <<server, dir, pool, counted, req, frames, chan, sse, effects, held, used, call>>

Running(c) == req[c].at = "running"
Depth(c) == Len(frames[c])
Top(c) == frames[c][Depth(c)]

NoRequest == [at |-> "idle"]
Done == 0       \* the done event of a stream; tokens are numbered from 1

Init ==
    /\ server = "loading" /\ dir \in Dirs /\ pool = NoTable /\ counted = 0
    /\ req = [c \in Clients |-> NoRequest]
    /\ frames = [c \in Clients |-> <<>>]
    /\ chan = [c \in Clients |-> <<>>] /\ sse = [c \in Clients |-> <<>>]
    /\ effects = {} /\ held = Range(dir)
    /\ LlmInit

\* The pool is made of the files in the directory.
Load ==
    /\ server = "loading"
    /\ LET files == Restrict(dir, DOMAIN dir \ Outside)
           faults == PoolFaults(files, Global) IN
       \/ faults # {} /\ server' = "exited" /\ UNCHANGED pool
       \/ faults = {} /\ server' = "serving" /\ pool' = PoolOf(files, Global)
    /\ UNCHANGED <<dir, counted, req, frames, chan, sse, effects, held, used, call>>

\* Somebody edits, adds or removes files; the gateway does not notice.
Edit ==
    /\ \E e \in Edits : e[1] = dir /\ dir' = e[2]
    /\ held' = held \cup Range(dir')
    /\ UNCHANGED <<server, pool, counted, req, frames, chan, sse, effects, used, call>>

-----------------------------------------------------------------------------
(* A span: where it is, what its decision still has to do, what it has done. *)

Frame(agent, origin, inst) ==
    [agent |-> agent, origin |-> origin, inst |-> inst, at |-> "decide", step |-> 1,
     says |-> FALSE, calls |-> <<>>, ends |-> "no", results |-> <<>>, said |-> 0]

Agent(c) == Top(c).agent

\* Spans from depth d on are over: the providers built for them are dropped.
Dropped(c, d) ==
    [i \in Instances |-> IF Len(i) = 2 /\ i[1] = c /\ i[2] >= d THEN 0 ELSE used[i]]

\* messages_to_goal_and_context: system turns go to the persona, tool turns
\* nowhere.
TurnsOf(messages) == OfRole(messages, {"user", "assistant"})

\* Mutant: the last message stays in the history.
HistoryWithCurrent(messages) == TurnsOf(messages)

\* The last entry is taken for the current turn.
HistoryOf(messages) ==
    IF TurnsOf(messages) = <<>> THEN <<>> ELSE Front(TurnsOf(messages))

LastUser(messages) ==
    LET users == OfRole(messages, {"user"})
    IN  IF users = <<>> THEN Msg("user", 0) ELSE users[Len(users)]

\* What the provider of the request's own agent is sent.
Prompt(c) ==
    LET history == HistoryOf(req[c].messages)
        user == LastUser(req[c].messages)
        results == frames[c][1].results
    IN  IF frames[c][1].agent.provider = "provider.anthropic"
        THEN AnthropicMessages(history, user, results) ELSE OpenAiMessages(history, user, results)

-----------------------------------------------------------------------------
(* Requests.                                                                 *)

\* The auth layer, in front of every route.
Authorized(r) == r.auth

\* agent_delegate loads and assembles the child, from the file the name leads to
\* now and without the global config.
ChildStatus(r) ==
    IF r.child \notin DOMAIN dir \/ ~Valid(dir[r.child]) THEN "404"
    ELSE IF FreshFault(dir[r.child]) # None THEN "500" ELSE "200"

StatusOf(r) ==
    IF ~Authorized(r) THEN "401"
    ELSE IF r.agent \notin DOMAIN pool THEN "404"
    ELSE IF r.kind = "delegate" THEN ChildStatus(r) ELSE "200"

Refuse(c) ==
    /\ server = "serving" /\ req[c].at = "idle"
    /\ \E r \in Menu :
          /\ StatusOf(r) # "200"
          /\ req' = [req EXCEPT ![c] = [r EXCEPT !.at = "answered", !.status = StatusOf(r)]]
    /\ UNCHANGED <<server, dir, held, pool, counted, frames, chan, sse, effects, used, call>>

\* A request is counted and its span starts.
Accept(c, r, frame) ==
    /\ server = "serving" /\ req[c].at = "idle" /\ StatusOf(r) = "200"
    /\ req' = [req EXCEPT ![c] = [r EXCEPT !.at = "running", !.status = "200"]]
    /\ frames' = [frames EXCEPT ![c] = <<frame>>]
    /\ counted' = counted + 1
    /\ UNCHANGED <<server, dir, held, pool, chan, sse, effects, used, call>>

PoolFrame(name) == Frame(pool[name], pool[name].origin, <<name>>)

AcceptChat(c) == \E r \in Menu : r.kind = "chat" /\ Accept(c, r, PoolFrame(r.agent))

AcceptGoals(c) == \E r \in Menu : r.kind = "goals" /\ Accept(c, r, PoolFrame(r.agent))

\* The child runs under the parent's origin, narrowed.
AcceptDelegate(c) ==
    \E r \in Menu :
        /\ r.kind = "delegate"
        /\ Accept(c, r, Frame(AssembledFresh(dir[r.child]), Append(pool[r.agent].origin, r.child), <<c, 1>>))

-----------------------------------------------------------------------------
(* The provider.                                                             *)

SetTop(c, f) == frames' = [frames EXCEPT ![c][Depth(c)] = f]

Take(c, d) ==
    SetTop(c, [Top(c) EXCEPT !.at = "enact", !.says = d.says, !.calls = d.calls, !.ends = d.ends])

Say == Decision(TRUE, <<>>, "achieved")
Act(cap) == Decision(TRUE, <<cap>>, "achieved")

\* Every trigger of a request is an utterance.
EchoDecisions == {Say}
CommandDecisions ==
    {Say} \cup {Act(k) : k \in {<<"shell", "run">>, <<"state", "set">>, <<"state", "get">>, <<"fs", "write">>}}
RulesDecisions == {Decision(FALSE, <<>>, "continue")}           \* no rule matches an utterance
BehaviorTreeDecisions == {Decision(FALSE, <<>>, "achieved")}    \* the built-in tree succeeds

LocalDecisions(provider) ==
    CASE provider = "provider.echo" -> EchoDecisions
      [] provider = "provider.command" -> CommandDecisions
      [] provider = "provider.rules" -> RulesDecisions
      [] provider = "provider.behaviortree" -> BehaviorTreeDecisions
      [] OTHER -> {}

DecideLocally(c) ==
    /\ Running(c) /\ frames[c] # <<>> /\ Top(c).at = "decide"
    /\ \E d \in LocalDecisions(Agent(c).provider) : Take(c, d)
    /\ UNCHANGED <<server, dir, held, pool, counted, req, chan, sse, effects, used, call>>

DecideLlm(c) ==
    /\ Running(c) /\ frames[c] # <<>> /\ Top(c).at = "decide"
    /\ Agent(c).provider \in LlmProviders
    /\ IF Exhausted(Top(c).inst, Agent(c).budget)
       THEN Take(c, Abandoned) /\ UNCHANGED llmVars
       ELSE SetTop(c, [Top(c) EXCEPT !.at = "llm"]) /\ BeginCall(c, Top(c).inst)
    /\ UNCHANGED <<server, dir, held, pool, counted, req, chan, sse, effects>>

\* provider.anthropic makes its request with the blocking client.
Blocking(c) == Agent(c).provider = "provider.anthropic"

Met(c) == Outcomes(Blocking(c), call[c].attempt)

LlmRetry(c) ==
    /\ Running(c) /\ call[c] # NoCall /\ \E s \in Met(c) : Retry(c, s)
    /\ UNCHANGED <<server, dir, held, pool, counted, req, frames, chan, sse, effects>>

LlmFail(c) ==
    /\ Running(c) /\ call[c] # NoCall /\ \E s \in Met(c) : Fail(c, s)
    /\ Take(c, Abandoned)
    /\ UNCHANGED <<server, dir, held, pool, counted, req, chan, sse, effects>>

LlmAnswer(c) ==
    /\ Running(c)
    /\ \E cost \in Costs : Answer(c, cost)
    /\ LET schema == ToolSchema(Agent(c).caps) IN
       \E b \in Bodies :
          Take(c, IF Blocking(c) THEN InterpretAnthropic(b, schema) ELSE InterpretOpenAi(b, schema))
    /\ UNCHANGED <<server, dir, held, pool, counted, req, chan, sse, effects>>

-----------------------------------------------------------------------------
(* Enacting a decision: what it says, then its calls, then its end.          *)

Express(c) ==
    /\ Running(c) /\ frames[c] # <<>> /\ Top(c).at = "enact" /\ Top(c).says
    /\ SetTop(c, [Top(c) EXCEPT !.says = FALSE, !.said = @ + 1])
    /\ chan' = IF req[c].stream /\ Depth(c) = 1
               THEN [chan EXCEPT ![c] = Append(@, Top(c).said + 1)] ELSE chan
    /\ UNCHANGED <<server, dir, held, pool, counted, req, sse, effects, used, call>>

\* The call at hand is answered; the exchange goes back to the provider,
\* whether it succeeded or not.
Answered(f) == [f EXCEPT !.calls = Tail(@), !.results = Append(@, Head(f.calls))]

Calling(c) ==
    Running(c) /\ frames[c] # <<>> /\ Top(c).at = "enact" /\ ~Top(c).says /\ Top(c).calls # <<>>

Permitted(f) == Head(f.calls) \in f.agent.caps /\ Allows(f.agent, f.origin, Head(f.calls))

\* resolve, govern or the capability itself refuses.
CallFails(c) ==
    /\ Calling(c)
    /\ SetTop(c, Answered(Top(c)))
    /\ UNCHANGED <<server, dir, held, pool, counted, req, chan, sse, effects, used, call>>

CallEffect(c) ==
    /\ Calling(c) /\ Permitted(Top(c)) /\ Head(Top(c).calls) # <<"agent", "delegate">>
    /\ effects' = effects \cup
          {[agent |-> Agent(c).name, origin |-> Top(c).origin, cap |-> Head(Top(c).calls)]}
    /\ SetTop(c, Answered(Top(c)))
    /\ UNCHANGED <<server, dir, held, pool, counted, req, chan, sse, used, call>>

\* How many ".delegated." the child's origin will have.
MayDelegate(origin) == Len(origin) - 1 + 1 <= MaxDelegationDepth

\* cap.agent.delegate: load the child afresh, from whatever file the name leads
\* to, and run it inside the call.
CallDelegate(c) ==
    /\ Calling(c) /\ Permitted(Top(c)) /\ Head(Top(c).calls) = <<"agent", "delegate">>
    /\ MayDelegate(Top(c).origin)
    /\ \E k \in DOMAIN dir :
          /\ Valid(dir[k]) /\ FreshFault(dir[k]) = None
          /\ frames' = [frames EXCEPT ![c] =
                Append(@, Frame(AssembledFresh(dir[k]), Append(Top(c).origin, k), <<c, Depth(c) + 1>>))]
    /\ UNCHANGED <<server, dir, held, pool, counted, req, chan, sse, effects, used, call>>

\* to_gateway_response.
EndName(ends) == IF ends = "no" THEN "step_limit" ELSE IF ends = "continue" THEN "abandoned" ELSE ends

\* The decision is done: ask again, or end the span.
StepEnds(c) ==
    /\ Running(c) /\ frames[c] # <<>> /\ Top(c).at = "enact" /\ ~Top(c).says /\ Top(c).calls = <<>>
    /\ \/ /\ Top(c).ends = "no" /\ Top(c).step < MaxSteps
          /\ SetTop(c, [Top(c) EXCEPT !.at = "decide", !.step = @ + 1])
          /\ UNCHANGED <<req, used>>
       \/ /\ Top(c).ends # "no" \/ Top(c).step = MaxSteps
          /\ used' = Dropped(c, Depth(c))
          /\ IF Depth(c) > 1
             THEN /\ frames' = [frames EXCEPT ![c] =
                        Append(SubSeq(@, 1, Depth(c) - 2), Answered(@[Depth(c) - 1]))]
                  /\ UNCHANGED req
             ELSE /\ frames' = [frames EXCEPT ![c] = <<>>]
                  /\ req' = [req EXCEPT ![c].at = IF req[c].stream THEN "ran" ELSE "answered",
                                        ![c].end = EndName(Top(c).ends), ![c].said = Top(c).said]
    /\ UNCHANGED <<server, dir, held, pool, counted, chan, sse, effects, call>>

-----------------------------------------------------------------------------
(* Streams, and requests that end early.                                     *)

\* channel_to_sse: a token at a time ...
StreamToken(c) ==
    /\ req[c].at \in {"running", "ran"} /\ req[c].stream /\ chan[c] # <<>>
    /\ sse' = [sse EXCEPT ![c] = Append(@, Head(chan[c]))]
    /\ chan' = [chan EXCEPT ![c] = Tail(@)]
    /\ UNCHANGED <<server, dir, held, pool, counted, req, frames, effects, used, call>>

\* Mutant: the done event is sent as soon as the run is over.
StreamDoneEarly(c) ==
    /\ req[c].at = "ran"
    /\ sse' = [sse EXCEPT ![c] = Append(@, Done)]
    /\ req' = [req EXCEPT ![c].at = "answered"]
    /\ UNCHANGED <<server, dir, held, pool, counted, frames, chan, effects, used, call>>

\* ... and, once the channel is closed and empty, the report.
StreamDone(c) ==
    /\ req[c].at = "ran" /\ chan[c] = <<>>
    /\ sse' = [sse EXCEPT ![c] = Append(@, Done)]
    /\ req' = [req EXCEPT ![c].at = "answered"]
    /\ UNCHANGED <<server, dir, held, pool, counted, frames, chan, effects, used, call>>

\* A tool output is cut inside a character when it is replayed, or an error
\* body when it is reported: the task panics.  A stream's report is the
\* default one; a plain request's connection closes.
Panic(c) ==
    /\ Running(c) /\ frames[c] # <<>>
    /\ \/ Top(c).at = "decide" /\ Agent(c).provider \in LlmProviders /\ Top(c).results # <<>>
       \/ Top(c).at = "llm"
    /\ frames' = [frames EXCEPT ![c] = <<>>]
    /\ req' = [req EXCEPT ![c].at = IF req[c].stream THEN "ran" ELSE "closed", ![c].end = "unknown"]
    /\ used' = Dropped(c, 1) /\ Drop(c)
    /\ UNCHANGED <<server, dir, held, pool, counted, chan, sse, effects>>

\* The client disconnects: a plain request's handler is dropped with its span;
\* a stream's run goes on, and what it says is not sent.  A blocking request
\* has no await at which it could be dropped.
Disconnect(c) ==
    /\ Running(c) /\ ~req[c].stream /\ ~(Top(c).at = "llm" /\ Blocking(c))
    /\ frames' = [frames EXCEPT ![c] = <<>>]
    /\ req' = [req EXCEPT ![c].at = "closed"]
    /\ used' = Dropped(c, 1) /\ Drop(c)
    /\ UNCHANGED <<server, dir, held, pool, counted, chan, sse, effects>>

Step(c) ==
    \/ DecideLocally(c) \/ DecideLlm(c) \/ LlmRetry(c) \/ LlmFail(c) \/ LlmAnswer(c)
    \/ Express(c) \/ CallFails(c) \/ CallEffect(c) \/ CallDelegate(c) \/ StepEnds(c)
    \/ StreamToken(c) \/ StreamDone(c)

Next == Load \/ Edit
        \/ \E c \in Clients : Refuse(c) \/ AcceptChat(c) \/ AcceptGoals(c) \/ AcceptDelegate(c)
                             \/ Step(c) \/ Panic(c) \/ Disconnect(c)

\* A span's task is polled, its provider answers or times out, its capability
\* calls return, and a stream is read.
Fairness == \A c \in Clients : WF_vars(Step(c))

Spec == Init /\ [][Next]_vars /\ Fairness

-----------------------------------------------------------------------------
\* The agents that can have been made from the files, what they may be asked to
\* call, and the spans they run.
Agents == {Assembled(m, g) : m \in held, g \in {Global, NoTable}}

Callable ==
    (UNION {a.caps : a \in Agents}) \cup (UNION {Range(d.calls) : d \in CommandDecisions})
        \cup {<<"unknown">>}

Spans ==
    [agent: Agents, origin: Seq(STRING), inst: Instances, at: {"decide", "llm", "enact"},
     step: 1 .. MaxSteps, says: BOOLEAN, calls: Seq(Callable), results: Seq(Callable),
     ends: {"no", "continue", "achieved", "abandoned"}, said: Nat]

\* Type invariant.
TypeOK ==
    /\ server \in {"loading", "serving", "exited"}
    /\ dir \in Dirs /\ Range(dir) \subseteq held /\ held \subseteq Manifests
    /\ server # "serving" => pool = NoTable
    /\ pool \in [DOMAIN pool -> {Assembled(m, Global) : m \in held}]
    /\ \A n \in DOMAIN pool : pool[n].name = n
    /\ counted \in 0 .. Cardinality(Clients)
    /\ req \in [Clients -> {NoRequest} \cup Requests({"running", "ran", "answered", "closed"})]
    /\ frames \in [Clients -> Seq(Spans)]
    /\ chan \in [Clients -> Seq(Nat)] /\ sse \in [Clients -> Seq(Nat)]
    /\ \A c \in Clients :
          /\ frames[c] # <<>> <=> Running(c)
          /\ call[c] # NoCall <=> frames[c] # <<>> /\ Top(c).at = "llm"
    /\ LlmTypeOK

(* An agent's effects are what an Agent.toml declared when it was read, and  *)
(* no more: the capability belongs to an enabled component, its family is    *)
(* switched on in [caps.grant], and the span acts under the origin that the  *)
(* manifest declares, also when it was delegated to (assembler.rs:44-90,     *)
(* agent.rs:95-124, handlers.rs:299-362).                                    *)
EffectsAreDeclared ==
    \A e \in effects : \E m \in held :
        /\ m.name = e.agent /\ e.origin = Origin(m)
        /\ Head(e.cap) \in Range(m.enable)
        /\ Head(e.cap) \in DOMAIN m.grant /\ m.grant[Head(e.cap)]

(* A stream is the report: its tokens are what the span expressed, in order, *)
(* all before the one done event that ends it (handlers.rs:408-445).         *)
StreamTellsTheReport ==
    \A c \in Clients :
        LET over == sse[c] # <<>> /\ sse[c][Len(sse[c])] = Done
            tokens == IF over THEN Len(sse[c]) - 1 ELSE Len(sse[c])
        IN  /\ \A i \in 1 .. tokens : sse[c][i] = i
            /\ req[c].at = "answered" /\ sse[c] # <<>> =>
                  over /\ (req[c].end # "unknown" => tokens = req[c].said)

(* The prompt of a chat that ends with the user's turn is the conversation,  *)
(* every turn once and in order, followed by the calls made so far, each     *)
(* with its result (handlers.rs:506-569, openai.rs:145-191).                 *)
PromptIsTheConversation ==
    \A c \in Clients :
        Running(c) /\ req[c].kind = "chat" =>
            LET turns == TurnsOf(req[c].messages)
                made == frames[c][1].results
                sent == OfRole(Prompt(c), {"user", "assistant", "call", "tool"})
            IN  turns # <<>> /\ turns[Len(turns)].role = "user" =>
                   /\ SubSeq(sent, 1, Len(turns)) = turns
                   /\ Len(sent) = Len(turns) + 2 * Len(made)
                   /\ \A i \in DOMAIN made :
                         /\ sent[Len(turns) + 2 * i - 1] = Msg("call", made[i])
                         /\ sent[Len(turns) + 2 * i] = Msg("tool", made[i])

(* A provider's token budget is overrun by no more than what the decides     *)
(* already in flight report: one answer for each concurrent request          *)
(* (openai.rs:67-75 and 118-126).                                            *)
BudgetOverrunIsBounded ==
    \A n \in DOMAIN pool : \A budget \in pool[n].budget :
        used[<<n>>] < budget + Cardinality(Clients) * Max(Costs)

(* Every request that was accepted is answered or closed, however often the  *)
(* model calls tools, delegates or fails, as long as the capabilities it     *)
(* calls return (handlers.rs:371-480, loop_engine.rs:415-425).               *)
EveryRequestEnds == \A c \in Clients : Running(c) ~> req[c].at \in {"answered", "closed"}

=============================================================================
