----------------------------- MODULE MCGateway -----------------------------
(* An agents directory with an LLM agent on a token budget whose endpoint    *)
(* comes from the global config, children that declare the origin they are   *)
(* delegated under, a command agent, one outside the directory, one that the *)
(* global config's empty key spoils, and one that cannot be assembled.       *)
(* Grants are taken back while the gateway runs.                             *)
EXTENDS Gateway, TLC
CONSTANTS c1, c2

Manifest(name, persona, provider, settings, enable, grant) ==
    [parses |-> TRUE, name |-> name, persona |-> persona, provider |-> provider, model |-> "m",
     settings |-> settings, enable |-> enable, grant |-> grant,
     capSettings |-> [agent |-> [agents_dir |-> "dir"]]]

Boss == Manifest("boss", <<>>, "provider.llm", [token_budget |-> 2], <<"state", "agent">>,
                 [state |-> FALSE, agent |-> TRUE])
K1 == Manifest("kid1", <<"boss", "k1">>, "provider.anthropic", [base |-> "b", api_key |-> "k"],
               <<"state", "agent">>, [state |-> TRUE, agent |-> TRUE])
Scribe == Manifest("scribe", <<>>, "provider.command", NoTable, <<"state">>, [state |-> TRUE])
Helper(provider) == Manifest("helper", <<>>, provider, NoTable, <<>>, NoTable)
Broken == Manifest("broken", <<>>, "provider.llm", [context |-> "context.session", path |-> "p"], <<"fs">>, NoTable)

Up == Manifest("up", <<"helper", "../up">>, "provider.command", NoTable, <<"state">>, [state |-> TRUE])
Keyless == Manifest("keyless", <<>>, "provider.anthropic", [base |-> "b"], <<>>, NoTable)

Office(edited(_)) ==
    [scribe |-> edited(Scribe), helper |-> Helper("provider.echo"), keyless |-> Keyless]
        @@ ("../up" :> edited(Up))
AsIs(m) == m
FewerGrants(m) == [m EXCEPT !.grant = [state |-> FALSE]]

MCDirs == {[boss |-> Boss, k1 |-> K1] @@ ("../up" :> Helper("provider.rules")),
           Office(AsIs), Office(FewerGrants),
           [helper |-> Helper("provider.rules")],
           [helper |-> Helper("provider.behaviortree")],
           [boss |-> Boss, twin |-> Boss],
           [broken |-> Broken],
           [helper |-> [Helper("provider.echo") EXCEPT !.parses = FALSE]]}
MCEdits == {<<Office(AsIs), Office(FewerGrants)>>}
MCGlobal == ("provider.llm" :> [base |-> "b"]) @@ ("provider.anthropic" :> [api_key |-> ""])
                @@ ("fs" :> [root |-> "r"])

Request(kind, agent, child, stream, messages) ==
    [at |-> "idle", kind |-> kind, agent |-> agent, child |-> child, stream |-> stream,
     auth |-> TRUE, messages |-> messages, status |-> None, end |-> None, said |-> 0]
Ask == <<Msg("user", 1)>>
Talk == <<Msg("system", 1), Msg("user", 2), Msg("assistant", 3), Msg("tool", 4), Msg("user", 5)>>
Prefill == <<Msg("user", 1), Msg("assistant", 2)>>

MCMenu ==
    {Request("chat", "boss", None, TRUE, Talk),
     Request("chat", "kid1", None, FALSE, Talk),
     Request("goals", "scribe", None, TRUE, Ask),
     Request("goals", "helper", None, FALSE, Ask),
     Request("delegate", "boss", "k1", FALSE, Ask),
     Request("delegate", "boss", "boss", FALSE, Ask),
     Request("delegate", "boss", "nobody", FALSE, Ask),
     Request("delegate", "helper", "../up", FALSE, Ask),
     Request("delegate", "helper", "keyless", FALSE, Ask),
     [Request("goals", "helper", None, FALSE, Ask) EXCEPT !.auth = FALSE]}

MCBodies ==
    {[kind |-> "error"], [kind |-> "shapeless"],
     [kind |-> "message", says |-> TRUE, names |-> <<>>],
     [kind |-> "message", says |-> TRUE,
      names |-> <<Sanitize(<<"agent", "delegate">>), Sanitize(<<"state", "set">>)>>]}
MCInstances == {<<n>> : n \in {"boss", "helper", "scribe", "kid1", "broken", "up", "keyless"}} \cup (Clients \X (1 .. 3))
MCSymmetry == Permutations(Clients)
=============================================================================
