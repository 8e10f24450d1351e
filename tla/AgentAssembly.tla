--------------------------- MODULE AgentAssembly ---------------------------
(* From an Agent.toml to an agent that can run: the manifest                 *)
(* (pan-agent/src/manifest.rs), the components a stock binary can build      *)
(* (builtin.rs and the registrations it calls), the merge of global and      *)
(* agent settings (merge.rs), the assembly (assembler.rs) and the gateway's  *)
(* pool (pan-gateway/src/pool.rs).  A capability is its dotted id without    *)
(* "cap"; an origin is the sequence that ".delegated." separates, without    *)
(* "persona."; a settings table is a function from keys to values; an        *)
(* optional value is a set of at most one.                                   *)
EXTENDS Naturals, Sequences, FiniteSets, SequencesExt

CONSTANTS
    EnvKeys     \* settings of the LLM providers that PAN_* variables supply

None == "none"
NoTable == [k \in {} |-> None]

-----------------------------------------------------------------------------
(* The components: what a stock registry can build, what each provides, and  *)
(* the settings without which its factory refuses.                           *)

StateVerbs == {"set", "get", "list", "delete", "namespaces"}
FsVerbs == {"read", "write", "list", "glob", "search", "undo"}
ShellVerbs == {"run"}
HttpVerbs == {"get", "post"}
TimeVerbs == {"now", "today"}
FormatVerbs == {"run"}
LspVerbs == {"check", "format"}
SkillVerbs == {"create", "edit", "list", "delete", "run"}
AgentVerbs == {"delegate"}

Verbs == [state |-> StateVerbs, fs |-> FsVerbs, shell |-> ShellVerbs, http |-> HttpVerbs,
          time |-> TimeVerbs, format |-> FormatVerbs, lsp |-> LspVerbs, skill |-> SkillVerbs,
          agent |-> AgentVerbs]

Provided(family) == {<<family, v>> : v \in Verbs[family]}

OpenAiNeeds == {"base", "model"}
AnthropicNeeds == {"base", "model", "api_key"}
FsNeeds == {"root"}
SkillNeeds == {"root"}
AgentNeeds == {"agents_dir"}
MemoryNeeds == {"state_path"}
SessionNeeds == {"path"}

LlmProviders == {"provider.llm", "provider.anthropic"}
Providers == {"provider.rules", "provider.behaviortree", "provider.echo", "provider.command"}
             \cup LlmProviders
CapComponents == DOMAIN Verbs
Assemblers == {"context.rolling_history", "context.memory_retrieval", "context.session"}

Required(id) ==
    CASE id = "provider.llm" -> OpenAiNeeds
      [] id = "provider.anthropic" -> AnthropicNeeds
      [] id = "fs" -> FsNeeds
      [] id = "skill" -> SkillNeeds
      [] id = "agent" -> AgentNeeds
      [] id = "context.memory_retrieval" -> MemoryNeeds
      [] id = "context.session" -> SessionNeeds
      [] OTHER -> {}

\* What a factory takes for a setting that is there.  The environment of an LLM
\* provider stands in for a setting that is missing, but not for an empty one.
Given(id, table, key) ==
    IF id \notin LlmProviders THEN key \in DOMAIN table
    ELSE IF key \in DOMAIN table THEN table[key] # "" ELSE key \in EnvKeys

\* ComponentRegistry::build_*: the id must be known and its factory content.
Builds(known, id, table) == id \in known /\ \A key \in Required(id) : Given(id, table, key)

-----------------------------------------------------------------------------
(* The manifest.                                                             *)

Valid(m) == m.parses /\ m.name # None /\ m.provider # None

Origin(m) == IF m.persona # <<>> THEN m.persona ELSE <<m.name>>

\* Mutant: a family that is listed counts as granted.
ListedPrefixes(m) == {<<f>> : f \in DOMAIN m.grant}

GrantedPrefixes(m) == {<<f>> : f \in {f \in DOMAIN m.grant : m.grant[f]}}

PersonaTable(m) ==
    [k \in {"instruction"} \cup (IF m.model # None THEN {"model"} ELSE {}) \cup DOMAIN m.settings |->
        IF k \in DOMAIN m.settings THEN m.settings[k]
        ELSE IF k = "model" THEN m.model ELSE "instruction"]

\* merge_global: the agent's table over the global one.
Merge(global, id, table) ==
    LET base == IF id \in DOMAIN global THEN global[id] ELSE NoTable
    IN  [k \in DOMAIN table \cup DOMAIN base |-> IF k \in DOMAIN table THEN table[k] ELSE base[k]]

CapTable(m, family) == IF family \in DOMAIN m.capSettings THEN m.capSettings[family] ELSE NoTable

-----------------------------------------------------------------------------
(* Assembly.                                                                 *)

\* Toolbox::add, for the i-th component enabled.
CapFault(m, global, i) ==
    LET f == m.enable[i] IN
    IF ~Builds(CapComponents, f, Merge(global, f, CapTable(m, f))) THEN "Capability"
    ELSE IF \E j \in 1 .. i - 1 : Provided(m.enable[j]) \cap Provided(f) # {}
    THEN "CapabilityConflict" ELSE None

\* The capability components are built in order: the first fault is returned.
CapsFault(m, global) ==
    LET faulty(n) == {i \in 1 .. n : CapFault(m, global, i) # None}
    IN  IF faulty(Len(m.enable)) = {} THEN None
        ELSE CapFault(m, global, CHOOSE i \in faulty(Len(m.enable)) : faulty(i - 1) = {})

\* The context assembler is built from its id alone.
ContextFault(m) ==
    IF "context" \notin DOMAIN m.settings \/ Builds(Assemblers, m.settings["context"], NoTable)
    THEN None ELSE "ContextAssembler"

\* assemble_with_config: the provider, the capabilities, the context assembler.
AssembleFault(m, global) ==
    IF ~Builds(Providers, m.provider, Merge(global, m.provider, PersonaTable(m))) THEN "Provider"
    ELSE IF CapsFault(m, global) # None THEN CapsFault(m, global) ELSE ContextFault(m)

Assembled(m, global) ==
    LET table == Merge(global, m.provider, PersonaTable(m))
    IN  [name |-> m.name, origin |-> Origin(m), grants |-> GrantedPrefixes(m),
         caps |-> UNION {Provided(m.enable[i]) : i \in DOMAIN m.enable},
         provider |-> m.provider,
         budget |-> {table[k] : k \in DOMAIN table \cap {"token_budget"}}]

\* assemble, load_child: the same without the global config.
FreshFault(m) == AssembleFault(m, NoTable)
AssembledFresh(m) == Assembled(m, NoTable)

\* ScopedGovernor: only the agent's own origin has an entry.
Allows(agent, origin, cap) ==
    origin = agent.origin /\ \E p \in agent.grants : IsPrefix(p, cap)

-----------------------------------------------------------------------------
(* The pool.  A directory maps the names of its files to manifests.          *)

Served(dir, global) == {f \in DOMAIN dir : AssembleFault(dir[f], global) = None}

\* Why load_with_config may fail; several reasons may apply, and the order of
\* the directory chooses.
PoolFaults(dir, global) ==
    {"Manifest" : f \in {f \in DOMAIN dir : ~Valid(dir[f])}}
    \cup {"Duplicate" : p \in {p \in Served(dir, global) \X Served(dir, global) :
                                  p[1] # p[2] /\ dir[p[1]].name = dir[p[2]].name}}
    \cup (IF Served(dir, global) = {} THEN {"Empty"} ELSE {})

\* The agents by meta.name.
PoolOf(dir, global) ==
    [n \in {dir[f].name : f \in Served(dir, global)} |->
        Assembled(dir[CHOOSE f \in Served(dir, global) : dir[f].name = n], global)]
=============================================================================
