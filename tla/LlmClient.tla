----------------------------- MODULE LlmClient -----------------------------
(* provider.llm and provider.anthropic (pan-llm): one decide is one chat     *)
(* request with retries, within a token budget that the concurrent decides   *)
(* of one provider share.  The server and the network are external: any      *)
(* status, body or failure may come back.                                    *)
EXTENDS Naturals, Sequences, FiniteSets, SequencesExt, Selection

CONSTANTS
    Callers,        \* who may have a decide in progress
    Instances,      \* provider instances
    MaxRetries,     \* MAX_RETRIES
    Costs           \* tokens an answer may report

VARIABLES
    used,       \* per instance: tokens_used
    call        \* per caller: the request in progress, and what it last met

llmVars == <<used, call>>

NoCall == [at |-> "idle"]

LlmInit ==
    /\ used = [i \in Instances |-> 0]
    /\ call = [c \in Callers |-> NoCall]

-----------------------------------------------------------------------------
(* The transcript of a request, rebuilt from the context at every step.      *)

Msg(role, id) == [role |-> role, id |-> id]

\* A tool_result fragment replays as the call and its result.
ReplayExchange(result) == <<Msg("call", result), Msg("tool", result)>>
Replayed(results) ==
    [i \in 1 .. 2 * Len(results) |-> ReplayExchange(results[(i + 1) \div 2])[2 - (i % 2)]]

OfRole(messages, roles) ==
    Picked(messages, {i \in DOMAIN messages : messages[i].role \in roles})

\* A history fragment: only its user and assistant turns are kept.
Turns(history) == OfRole(history, {"user", "assistant"})

OpenAiMessages(history, user, results) ==
    <<Msg("system", 0)>> \o Turns(history) \o <<user>> \o Replayed(results)

\* The system prompt travels beside the messages.
AnthropicMessages(history, user, results) == Turns(history) \o <<user>> \o Replayed(results)

-----------------------------------------------------------------------------
(* Names.  A capability is offered under a function name and mapped back.    *)

\* Dots become underscores; built-in ids have none, so the words tell them apart.
Sanitize(cap) == [underscored |-> cap]
ToolSchema(caps) == [n \in {Sanitize(c) : c \in caps} |-> CHOOSE c \in caps : Sanitize(c) = n]

\* A name that was not offered passes through, for the pipeline to refuse.
MapBack(schema, n) == IF n \in DOMAIN schema THEN schema[n] ELSE <<"unknown">>

Decision(says, calls, ends) == [says |-> says, calls |-> calls, ends |-> ends]
Abandoned == Decision(FALSE, <<>>, "abandoned")

\* A message may speak and may call functions; without calls it concludes.
FromMessage(body, schema) ==
    Decision(body.says, [i \in DOMAIN body.names |-> MapBack(schema, body.names[i])],
             IF body.names = <<>> THEN "achieved" ELSE "no")

\* interpret.  A body is "error", "shapeless" (no message in it), or a message.
InterpretOpenAi(body, schema) ==
    CASE body.kind = "error" -> Abandoned
      [] body.kind = "shapeless" -> Decision(FALSE, <<>>, "achieved")
      [] OTHER -> FromMessage(body, schema)

InterpretAnthropic(body, schema) ==
    IF body.kind \in {"error", "shapeless"} THEN Abandoned ELSE FromMessage(body, schema)

-----------------------------------------------------------------------------
(* One request.                                                              *)

\* Mutant: the budget is exhausted only when it is exceeded.
ExhaustedWhenExceeded(i, budget) == \E n \in budget : used[i] > n

\* decide's check, before the request is made.
Exhausted(i, budget) == \E n \in budget : used[i] >= n

BeginCall(c, i) ==
    /\ call' = [call EXCEPT ![c] = [at |-> "post", inst |-> i, attempt |-> 0, last |-> "none"]]
    /\ UNCHANGED used

\* Why an attempt has no response to parse: the base URL is bad, which is
\* found before the first; or an exchange fails, async and blocking.
BadBase(attempt) == {"base" : x \in {0} \cap {attempt}}
AsyncFaults == {"connect", "connect timeout", "tls", "send", "read", "read timeout"}
BlockingFaults == {"connect", "tls", "send", "read"}

\* How parse_response refuses: 2xx other than 200 and 3xx are "other"; what is
\* not HTTP, or 200 without JSON, is "garbled".
Refusals == {"other", "4xx", "429", "430-499", "5xx", "garbled"}

Outcomes(blocking, attempt) ==
    BadBase(attempt) \cup (IF blocking THEN BlockingFaults ELSE AsyncFaults) \cup Refusals

Retryable(s) == s \in {"429", "5xx"}

\* Mutant: the attempts are not counted.
RetryUncounted(c, s) ==
    /\ call[c].at = "post" /\ Retryable(s)
    /\ call' = [call EXCEPT ![c].last = s]
    /\ UNCHANGED used

\* A 429 or 5xx: pause (Retry-After and backoff), then send again.
Retry(c, s) ==
    /\ call[c].at = "post" /\ Retryable(s) /\ call[c].attempt < MaxRetries
    /\ call' = [call EXCEPT ![c].attempt = @ + 1, ![c].last = s]
    /\ UNCHANGED used

\* Any other failure, or the last attempt: an error, which the provider turns
\* into Abandoned.
Fail(c, s) ==
    /\ call[c].at = "post" /\ (Retryable(s) => call[c].attempt = MaxRetries)
    /\ call' = [call EXCEPT ![c] = NoCall]
    /\ UNCHANGED used

\* 200 with JSON: the tokens reported are counted.
Answer(c, cost) ==
    /\ call[c].at = "post"
    /\ used' = [used EXCEPT ![call[c].inst] = @ + cost]
    /\ call' = [call EXCEPT ![c] = NoCall]

\* The future is dropped: whatever the server did is not counted.
Drop(c) == call' = [call EXCEPT ![c] = NoCall]

-----------------------------------------------------------------------------
\* Type invariant.
LlmTypeOK ==
    /\ used \in [Instances -> Nat]
    /\ call \in [Callers -> {NoCall} \cup [at: {"post"}, inst: Instances, attempt: 0 .. MaxRetries,
                                         last: Refusals \cup {"none"}]]

=============================================================================
