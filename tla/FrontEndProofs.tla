--------------------------- MODULE FrontEndProofs ---------------------------
(***************************************************************************)
(* The front ends, for every manifest, plan, request and schedule: what    *)
(* the gateway's agents may run, what a delegation chain may spend, what   *)
(* an event stream says of the turn it reports, and what the command line  *)
(* remembers of a conversation and loses of its session file.              *)
(***************************************************************************)
EXTENDS Gateway, CliSession, FunctionTheorems, FiniteSetTheorems, SequenceTheorems, TLAPS

-----------------------------------------------------------------------------
(* Filters.                                                                *)

Below(W, i) == {j \in W : j < i}

\* Every position of a set has its rank in it, from 1, and every rank a position.
LEMMA Ranks ==
    ASSUME NEW m \in Nat, NEW W \in SUBSET (1 .. m)
    PROVE  /\ IsFiniteSet(W) /\ Cardinality(W) \in Nat
           /\ \A i \in W : \E k \in 1 .. Cardinality(W) : Nth(W, k) = i
           /\ \A k \in 1 .. Cardinality(W) : Nth(W, k) \in W /\ Cardinality(Below(W, Nth(W, k))) = k - 1
           /\ \A i \in W, k \in Nat : Cardinality(Below(W, i)) = k - 1 => Nth(W, k) = i
  <1> DEFINE n == Cardinality(W)
             Before(i) == {j \in W : j < i}
             rank == [i \in W |-> Cardinality(Before(i))]
  <1>1. \A i \in W : i \in 1 .. m
    OBVIOUS
  <1>2. IsFiniteSet(W) /\ n \in Nat
    <2>1. IsFiniteSet(1 .. m)
      BY FS_Interval
    <2> QED BY <2>1, FS_Subset, FS_CardinalityType
  <1>3. ASSUME NEW i \in W
        PROVE  /\ IsFiniteSet(Before(i)) /\ Cardinality(Before(i)) \in Nat
               /\ Cardinality(Before(i) \cup {i}) = Cardinality(Before(i)) + 1
               /\ Cardinality(Before(i) \cup {i}) \in Nat
    <2>1. IsFiniteSet(Before(i)) /\ Cardinality(Before(i)) \in Nat
      <3>1. Before(i) \in SUBSET W
        OBVIOUS
      <3> QED BY <1>2, <3>1, FS_Subset, FS_CardinalityType
    <2>2. i \notin Before(i)
      BY <1>1
    <2> HIDE DEF Before
    <2>3. Cardinality(Before(i) \cup {i}) = Cardinality(Before(i)) + 1
      BY <2>1, <2>2, FS_AddElement
    <2> QED BY <2>1, <2>3
  <1>4. ASSUME NEW i \in W PROVE rank[i] \in 0 .. n - 1
    <2>1. Before(i) \cup {i} \in SUBSET W
      OBVIOUS
    <2>2. Cardinality(Before(i) \cup {i}) <= n
      BY <1>2, <2>1, FS_Subset
    <2> HIDE DEF Before, n
    <2> QED BY <1>2, <1>3, <2>2
  <1>5. ASSUME NEW i \in W, NEW h \in W, i < h PROVE rank[i] # rank[h]
    <2>1. Before(i) \cup {i} \in SUBSET Before(h)
      <3>1. i \in Int /\ h \in Int /\ \A j \in W : j \in Int
        BY <1>1
      <3>2. \A j \in W : j < i => j < h
        BY <1>5, <3>1
      <3> QED BY <1>5, <3>2
    <2>2. Cardinality(Before(i) \cup {i}) <= Cardinality(Before(h))
      BY <1>3, <2>1, FS_Subset
    <2> HIDE DEF Before
    <2> QED BY <1>3, <2>2
  <1>6. \A i, h \in W : rank[i] = rank[h] => i = h
    <2> TAKE i, h \in W
    <2>1. i \in Int /\ h \in Int /\ (i < h \/ h < i \/ i = h)
      BY <1>1
    <2> HIDE DEF rank
    <2> QED BY <1>5, <2>1
  <1>7. rank \in Injection(W, 0 .. n - 1)
    <2>1. rank \in [W -> 0 .. n - 1]
      BY <1>4
    <2> HIDE DEF rank
    <2> QED BY <1>6, <2>1, Fun_IsInj
  <1>8. IsFiniteSet(0 .. n - 1) /\ Cardinality(0 .. n - 1) = n
    <2>1. n - 1 \in Int /\ 0 \in Int
      BY <1>2
    <2>2. /\ IsFiniteSet(0 .. n - 1)
          /\ Cardinality(0 .. n - 1) = IF 0 > n - 1 THEN 0 ELSE n - 1 - 0 + 1
      BY <2>1, FS_Interval
    <2> HIDE DEF n
    <2> QED BY <1>2, <2>2
  <1>9. rank \in Surjection(W, 0 .. n - 1)
    <2> HIDE DEF rank
    <2> QED BY <1>7, <1>8, FS_Injection
  <1>10. \A k \in 0 .. n - 1 : \E i \in W : rank[i] = k
    <2> HIDE DEF rank, n
    <2>1. rank \in Surjection(W, 0 .. n - 1)
      BY <1>9
    <2> QED BY <2>1 DEF Surjection
  <1>11. \A k : Nth(W, k) = CHOOSE i \in W : Cardinality(Before(i)) = k - 1
    BY DEF Nth
  <1>12. ASSUME NEW k \in 1 .. n PROVE Nth(W, k) \in W /\ Cardinality(Before(Nth(W, k))) = k - 1
    <2>1. k - 1 \in 0 .. n - 1
      BY <1>2
    <2>2. PICK i \in W : Cardinality(Before(i)) = k - 1
      BY <1>10, <2>1
    <2> HIDE DEF Before
    <2> QED BY <1>11, <2>2
  <1>13. ASSUME NEW i \in W PROVE \E k \in 1 .. n : Nth(W, k) = i
    <2> DEFINE k == rank[i] + 1
    <2>1. k \in 1 .. n /\ k - 1 = rank[i]
      BY <1>2, <1>4
    <2>2. \A h \in W : Cardinality(Before(h)) = k - 1 => h = i
      BY <1>6, <2>1
    <2>3. Cardinality(Before(i)) = k - 1
      BY <2>1
    <2> HIDE DEF Before, k
    <2>4. Nth(W, k) = i
      BY <1>11, <2>2, <2>3
    <2> QED BY <2>1, <2>4
  <1>14. ASSUME NEW i \in W, NEW k \in Nat, Cardinality(Before(i)) = k - 1 PROVE Nth(W, k) = i
    <2>1. \A h \in W : Cardinality(Before(h)) = k - 1 => h = i
      BY <1>6, <1>14
    <2> HIDE DEF Before
    <2> QED BY <1>11, <1>14, <2>1
  <1>15. \A i : Below(W, i) = Before(i)
    BY DEF Below
  <1> HIDE DEF Before, n
  <1>16. \A i \in W, k \in Nat : Cardinality(Below(W, i)) = k - 1 => Nth(W, k) = i
    BY <1>14, <1>15
  <1>17. \A k \in 1 .. n : Nth(W, k) \in W /\ Cardinality(Below(W, Nth(W, k))) = k - 1
    BY <1>12, <1>15
  <1> QED BY <1>2, <1>13, <1>16, <1>17 DEF n

\* The ranks in an interval.
LEMMA RankInInterval ==
    ASSUME NEW a \in Nat, NEW b \in Nat, a <= b
    PROVE  /\ Cardinality(a + 1 .. b) = b - a
           /\ \A k \in 1 .. b - a : Nth(a + 1 .. b, k) = a + k
  <1>1. Cardinality(a + 1 .. b) = b - a
    <2>1. Cardinality(a + 1 .. b) = IF a + 1 > b THEN 0 ELSE b - (a + 1) + 1
      BY FS_Interval
    <2> QED BY <2>1
  <1>2. ASSUME NEW k \in 1 .. b - a PROVE Nth(a + 1 .. b, k) = a + k
    <2>1. Below(a + 1 .. b, a + k) = a + 1 .. a + k - 1
      BY DEF Below
    <2>2. Cardinality(a + 1 .. a + k - 1) = k - 1
      <3>1. Cardinality(a + 1 .. a + k - 1) = IF a + 1 > a + k - 1 THEN 0 ELSE a + k - 1 - (a + 1) + 1
        BY FS_Interval
      <3> QED BY <3>1
    <2> DEFINE W == a + 1 .. b
               i == a + k
    <2>3. i \in W /\ W \in SUBSET (1 .. b) /\ k \in Nat /\ Cardinality(Below(W, i)) = k - 1
      BY <2>1, <2>2
    <2> HIDE DEF W, i
    <2>4. \A h \in W, l \in Nat : Cardinality(Below(W, h)) = l - 1 => Nth(W, l) = h
      BY <2>3, Ranks
    <2>5. Nth(W, k) = i
      BY <2>3, <2>4
    <2> QED BY <2>5 DEF W, i
  <1> QED BY <1>1, <1>2

\* The last of a set of positions has the last rank.
LEMMA RankOfLast ==
    ASSUME NEW m \in Nat, NEW W \in SUBSET (1 .. m), NEW i \in W, \A j \in W : j <= i
    PROVE  Nth(W, Cardinality(W)) = i
  <1>1. Below(W, i) = W \ {i}
    <2>1. \A j \in W : j \in Int /\ (j < i <=> j # i)
      OBVIOUS
    <2> QED BY <2>1 DEF Below
  <1>2. IsFiniteSet(W) /\ Cardinality(W) \in Nat
    BY Ranks
  <1>3. Cardinality(W \ {i}) = Cardinality(W) - 1
    BY <1>2, FS_RemoveElement
  <1> DEFINE n == Cardinality(W)
  <1>4. n \in Nat /\ Cardinality(Below(W, i)) = n - 1
    BY <1>1, <1>2, <1>3
  <1> HIDE DEF n
  <1>5. \A h \in W, k \in Nat : Cardinality(Below(W, h)) = k - 1 => Nth(W, k) = h
    BY Ranks
  <1>6. Nth(W, n) = i
    BY <1>4, <1>5
  <1> QED BY <1>6 DEF n

-----------------------------------------------------------------------------
(* The gateway.                                                            *)

\* What an agent is made of.
LEMMA AssembledFields ==
    ASSUME NEW m, NEW g
    PROVE  /\ Assembled(m, g).name = m.name
           /\ Assembled(m, g).origin = Origin(m) /\ Assembled(m, g).provider = m.provider
           /\ Assembled(m, g).grants = GrantedPrefixes(m)
           /\ Assembled(m, g).caps = UNION {Provided(m.enable[i]) : i \in DOMAIN m.enable}
  BY DEF Assembled

\* An agent's token budget is a number.
LEMMA AssembledBudget ==
    ASSUME NEW m, NEW g, Budgeted(m.settings), \A i \in DOMAIN g : Budgeted(g[i])
    PROVE  Assembled(m, g).budget \subseteq Nat
  <1> DEFINE table == Merge(g, m.provider, PersonaTable(m))
  <1>1. Assembled(m, g).budget = {table[k] : k \in DOMAIN table \cap {"token_budget"}}
    BY DEF Assembled
  <1>2. ASSUME "token_budget" \in DOMAIN table PROVE table["token_budget"] \in Nat
    <2>1. CASE "token_budget" \in DOMAIN PersonaTable(m)
      <3>1. table["token_budget"] = PersonaTable(m)["token_budget"]
        BY <1>2, <2>1 DEF Merge
      <3>2. "token_budget" \in DOMAIN m.settings
        BY <2>1 DEF PersonaTable
      <3>3. PersonaTable(m)["token_budget"] = m.settings["token_budget"]
        BY <2>1, <3>2 DEF PersonaTable
      <3> QED BY <3>1, <3>2, <3>3 DEF Budgeted
    <2>2. CASE "token_budget" \notin DOMAIN PersonaTable(m)
      <3> DEFINE base == IF m.provider \in DOMAIN g THEN g[m.provider] ELSE NoTable
      <3>1. "token_budget" \in DOMAIN base /\ table["token_budget"] = base["token_budget"]
        BY <1>2, <2>2 DEF Merge
      <3>2. m.provider \in DOMAIN g
        BY <3>1 DEF NoTable
      <3> QED BY <3>1, <3>2 DEF Budgeted
    <2> QED BY <2>1, <2>2
  <1> QED BY <1>1, <1>2

\* A manifest that a file may hold, and the agents that can be made from it.
LEMMA Declared ==
    ASSUME NEW m \in Manifests
    PROVE  /\ m.name \in STRING /\ <<m.name>> \in Instances
           /\ Budgeted(m.settings)
           /\ Origin(m) \in Seq(STRING) /\ Origin(m) # <<>>
  <1>1. /\ m.name \in STRING /\ <<m.name>> \in Instances
        /\ Budgeted(m.settings) /\ m.persona \in Seq(STRING)
    BY GatewayConstants
  <1>2. <<m.name>> \in Seq(STRING) /\ <<m.name>> # <<>>
    BY <1>1
  <1> QED BY <1>1, <1>2 DEF Origin

LEMMA Made ==
    ASSUME NEW m \in held, NEW g \in {Global, NoTable}
    PROVE  Assembled(m, g) \in Agents
  BY DEF Agents

LEMMA MayBeCalled ==
    /\ \A a \in Agents : a.caps \subseteq Callable
    /\ \A d \in CommandDecisions : Range(d.calls) \subseteq Callable
    /\ <<"unknown">> \in Callable
  <1>1. ASSUME NEW a \in Agents PROVE a.caps \in {b.caps : b \in Agents}
    OBVIOUS
  <1>2. ASSUME NEW d \in CommandDecisions
        PROVE  Range(d.calls) \in {Range(e.calls) : e \in CommandDecisions}
    OBVIOUS
  <1>3. \A a \in Agents : a.caps \subseteq UNION {b.caps : b \in Agents}
    BY <1>1
  <1>4. \A d \in CommandDecisions :
           Range(d.calls) \subseteq UNION {Range(e.calls) : e \in CommandDecisions}
    BY <1>2
  <1> QED BY <1>3, <1>4 DEF Callable

LEMMA AgentFacts ==
    ASSUME held \subseteq Manifests, NEW a \in Agents
    PROVE  /\ a.name \in STRING /\ a.origin \in Seq(STRING) /\ Len(a.origin) >= 1
           /\ a.budget \subseteq Nat /\ a.caps \subseteq Callable
  <1>1. PICK m \in held, g \in {Global, NoTable} : a = Assembled(m, g)
    BY DEF Agents
  <1>2. a.name = m.name /\ a.origin = Origin(m)
    BY <1>1, AssembledFields
  <1>3. \A i \in DOMAIN g : Budgeted(g[i])
    BY GatewayConstants DEF NoTable
  <1>4. a.budget \subseteq Nat
    BY <1>1, <1>3, Declared, AssembledBudget
  <1>5. a.caps \subseteq Callable
    BY MayBeCalled
  <1>6. m.name \in STRING /\ Origin(m) \in Seq(STRING) /\ Origin(m) # <<>>
    BY Declared
  <1>7. Len(Origin(m)) >= 1
    BY <1>6
  <1> QED BY <1>2, <1>4, <1>5, <1>6, <1>7

\* A pool holds agents made from the files, under their names.
LEMMA PoolsAgents ==
    ASSUME NEW files, \A f \in DOMAIN files : files[f] \in held, NEW n \in DOMAIN PoolOf(files, Global)
    PROVE  /\ PoolOf(files, Global)[n] \in {Assembled(m, Global) : m \in held}
           /\ PoolOf(files, Global)[n].name = n
  <1>1. PICK f \in Served(files, Global) : files[f].name = n
    BY DEF PoolOf
  <1> DEFINE found == CHOOSE h \in Served(files, Global) : files[h].name = n
  <1>2. found \in Served(files, Global) /\ files[found].name = n
    BY <1>1
  <1>3. found \in DOMAIN files
    BY <1>2 DEF Served
  <1>4. PoolOf(files, Global)[n] = Assembled(files[found], Global)
    BY <1>1 DEF PoolOf
  <1> HIDE DEF found
  <1>5. files[found] \in held
    BY <1>3
  <1> QED BY <1>2, <1>4, <1>5, AssembledFields

LEMMA Pooled ==
    ASSUME held \subseteq Manifests, pool \in [DOMAIN pool -> {Assembled(m, Global) : m \in held}],
           \A n \in DOMAIN pool : pool[n].name = n, NEW n \in DOMAIN pool
    PROVE  pool[n] \in Agents /\ n \in STRING /\ <<n>> \in Instances
  <1>1. PICK m \in held : pool[n] = Assembled(m, Global)
    OBVIOUS
  <1>2. n = m.name
    BY <1>1, AssembledFields
  <1> QED BY <1>1, <1>2, Made, Declared

\* The files that a name may lead to hold manifests.
LEMMA FileFacts ==
    ASSUME dir \in Dirs, Range(dir) \subseteq held, NEW k \in DOMAIN dir
    PROVE  dir[k] \in held /\ k \in STRING
  BY GatewayConstants DEF Range

-----------------------------------------------------------------------------
\* A span that is given another stage, other calls or a new answer is a span.
LEMMA SpanEdits ==
    ASSUME NEW f \in Spans
    PROVE  /\ \A at \in {"decide", "llm", "enact"} : [f EXCEPT !.at = at] \in Spans
           /\ \A says \in BOOLEAN, calls \in Seq(Callable), ends \in {"no", "continue", "achieved", "abandoned"} :
                 [f EXCEPT !.at = "enact", !.says = says, !.calls = calls, !.ends = ends] \in Spans
           /\ [f EXCEPT !.says = FALSE, !.said = @ + 1] \in Spans
           /\ f.step < MaxSteps => [f EXCEPT !.at = "decide", !.step = @ + 1] \in Spans
           /\ f.calls # <<>> => Answered(f) \in Spans
  <1>1. f.step < MaxSteps => f.step + 1 \in 1 .. MaxSteps
    BY GatewayConstants DEF Spans
  <1>2. f.calls # <<>> => Tail(f.calls) \in Seq(Callable) /\ Append(f.results, Head(f.calls)) \in Seq(Callable)
    <2>1. f.calls \in Seq(Callable) /\ f.results \in Seq(Callable)
      BY DEF Spans
    <2> QED BY <2>1
  <1>3. f.calls # <<>> => Answered(f) \in Spans
    BY <1>2 DEF Answered, Spans
  <1>4. \A at \in {"decide", "llm", "enact"} : [f EXCEPT !.at = at] \in Spans
    BY DEF Spans
  <1>5. ASSUME NEW says \in BOOLEAN, NEW calls \in Seq(Callable),
               NEW ends \in {"no", "continue", "achieved", "abandoned"}
        PROVE  [f EXCEPT !.at = "enact", !.says = says, !.calls = calls, !.ends = ends] \in Spans
    BY DEF Spans
  <1>6. [f EXCEPT !.says = FALSE, !.said = @ + 1] \in Spans
    <2>1. f.said + 1 \in Nat
      BY DEF Spans
    <2> QED BY <2>1 DEF Spans
  <1>7. f.step < MaxSteps => [f EXCEPT !.at = "decide", !.step = @ + 1] \in Spans
    BY <1>1 DEF Spans
  <1> QED BY <1>3, <1>4, <1>5, <1>6, <1>7

\* A span that starts.
LEMMA NewSpan ==
    ASSUME NEW a \in Agents, NEW o \in Seq(STRING), NEW i \in Instances
    PROVE  Frame(a, o, i) \in Spans
  <1>1. 1 \in 1 .. MaxSteps /\ <<>> \in Seq(Callable)
    BY GatewayConstants
  <1> QED BY <1>1 DEF Frame, Spans

\* A decision without calls.
LEMMA Silent ==
    ASSUME NEW says \in BOOLEAN, NEW ends \in {"no", "continue", "achieved", "abandoned"}, NEW d,
           d = Decision(says, <<>>, ends)
    PROVE  /\ d.says \in BOOLEAN /\ d.calls \in Seq(Callable)
           /\ d.ends \in {"no", "continue", "achieved", "abandoned"}
  <1>1. <<>> \in Seq(Callable)
    OBVIOUS
  <1> QED BY <1>1 DEF Decision

\* What a provider may decide.
LEMMA Decisions ==
    ASSUME NEW a \in Agents
    PROVE  /\ \A p : \A d \in LocalDecisions(p) :
                 d.says \in BOOLEAN /\ d.calls \in Seq(Callable)
                    /\ d.ends \in {"no", "continue", "achieved", "abandoned"}
           /\ \A b \in Bodies : \A d \in {InterpretOpenAi(b, ToolSchema(a.caps)),
                                          InterpretAnthropic(b, ToolSchema(a.caps)), Abandoned} :
                 d.says \in BOOLEAN /\ d.calls \in Seq(Callable)
                    /\ d.ends \in {"no", "continue", "achieved", "abandoned"}
  <1>1. /\ <<>> \in Seq(Callable)
        /\ \A k \in Callable : <<k>> \in Seq(Callable)
    OBVIOUS
  <1>2. ASSUME NEW d \in CommandDecisions PROVE Range(d.calls) \subseteq Callable
    BY MayBeCalled
  <1>3. ASSUME NEW k \in {<<"shell", "run">>, <<"state", "set">>, <<"state", "get">>, <<"fs", "write">>}
        PROVE  k \in Callable
    <2>1. Act(k) \in CommandDecisions /\ Act(k).calls = <<k>>
      BY DEF CommandDecisions, Act, Decision
    <2>2. k \in Range(<<k>>)
      BY DEF Range
    <2> QED BY <1>2, <2>1, <2>2
  <1>4. ASSUME NEW p, NEW d \in LocalDecisions(p)
        PROVE  d.says \in BOOLEAN /\ d.calls \in Seq(Callable)
                  /\ d.ends \in {"no", "continue", "achieved", "abandoned"}
    <2>1. \/ d = Say \/ d = Decision(FALSE, <<>>, "continue") \/ d = Decision(FALSE, <<>>, "achieved")
          \/ \E k \in {<<"shell", "run">>, <<"state", "set">>, <<"state", "get">>, <<"fs", "write">>} : d = Act(k)
      BY DEF LocalDecisions, EchoDecisions, CommandDecisions, RulesDecisions, BehaviorTreeDecisions
    <2>2. CASE d = Say \/ d = Decision(FALSE, <<>>, "continue") \/ d = Decision(FALSE, <<>>, "achieved")
      BY <1>1, <2>2, Silent DEF Say
    <2>3. ASSUME NEW k \in {<<"shell", "run">>, <<"state", "set">>, <<"state", "get">>, <<"fs", "write">>},
                 d = Act(k)
          PROVE  d.says \in BOOLEAN /\ d.calls = <<k>> /\ d.ends = "achieved"
      BY <2>3 DEF Act, Decision
    <2> QED BY <1>1, <1>3, <2>1, <2>2, <2>3
  <1>5. \A n : MapBack(ToolSchema(a.caps), n) \in Callable
    <2> SUFFICES ASSUME NEW n PROVE MapBack(ToolSchema(a.caps), n) \in Callable
      OBVIOUS
    <2>1. a.caps \subseteq Callable /\ <<"unknown">> \in Callable
      BY MayBeCalled
    <2>2. CASE n \in {Sanitize(c) : c \in a.caps}
      <3>1. PICK c \in a.caps : Sanitize(c) = n
        BY <2>2
      <3>2. (CHOOSE h \in a.caps : Sanitize(h) = n) \in a.caps
        BY <3>1
      <3>3. MapBack(ToolSchema(a.caps), n) = CHOOSE h \in a.caps : Sanitize(h) = n
        BY <2>2 DEF MapBack, ToolSchema
      <3> QED BY <2>1, <3>2, <3>3
    <2>3. CASE n \notin {Sanitize(c) : c \in a.caps}
      BY <2>1, <2>3 DEF MapBack, ToolSchema
    <2> QED BY <2>2, <2>3
  <1>6. ASSUME NEW b \in Bodies, b.kind \notin {"error", "shapeless"}
        PROVE  LET d == FromMessage(b, ToolSchema(a.caps)) IN
                 d.says \in BOOLEAN /\ d.calls \in Seq(Callable) /\ d.ends \in {"no", "achieved"}
    <2>1. b.says \in BOOLEAN /\ b.names \in Seq([underscored: Seq(STRING)])
      BY <1>6, GatewayConstants
    <2>2. [i \in DOMAIN b.names |-> MapBack(ToolSchema(a.caps), b.names[i])] \in Seq(Callable)
      <3>1. Len(b.names) \in Nat /\ DOMAIN b.names = 1 .. Len(b.names)
        BY <2>1
      <3> QED BY <1>5, <3>1
    <2> QED BY <2>1, <2>2 DEF FromMessage, Decision
  <1>7. ASSUME NEW b \in Bodies,
               NEW d \in {InterpretOpenAi(b, ToolSchema(a.caps)),
                          InterpretAnthropic(b, ToolSchema(a.caps)), Abandoned}
        PROVE  d.says \in BOOLEAN /\ d.calls \in Seq(Callable)
                  /\ d.ends \in {"no", "continue", "achieved", "abandoned"}
    <2>1. \/ d = Decision(FALSE, <<>>, "achieved") \/ d = Decision(FALSE, <<>>, "abandoned")
          \/ b.kind \notin {"error", "shapeless"} /\ d = FromMessage(b, ToolSchema(a.caps))
      BY DEF InterpretOpenAi, InterpretAnthropic, Abandoned
    <2>2. CASE d = Decision(FALSE, <<>>, "achieved") \/ d = Decision(FALSE, <<>>, "abandoned")
      BY <1>1, <2>2, Silent
    <2> QED BY <1>6, <2>1, <2>2
  <1> QED BY <1>4, <1>7

-----------------------------------------------------------------------------
\* A delegated span is no deeper than its origin is long, so that the delegation
\* limit bounds the providers too; the spans below wait in a call; and a span
\* with the provider of an agent of the pool is one of that agent.
Stacked(agents, spans) ==
    \A i \in 1 .. Len(spans) :
        /\ Len(spans[i].origin) >= i
        /\ i < Len(spans) => spans[i].at = "enact" /\ spans[i].calls # <<>>
        /\ \A n \in DOMAIN agents : spans[i].inst = <<n>> => spans[i].agent = agents[n]

Nested ==
    /\ server = "loading" => \A c \in Clients : frames[c] = <<>>
    /\ \A c \in Clients : Stacked(pool, frames[c])

\* A client's request is counted once.
Came == {c \in Clients : req[c].at # "idle"}
CountedOnce == counted <= Cardinality(Came)

\* The inductive invariant about types.
GatewayInv == TypeOK /\ Nested /\ CountedOnce

LEMMA TopFacts ==
    ASSUME TypeOK, NEW c \in Clients, frames[c] # <<>>
    PROVE  /\ frames[c] \in Seq(Spans)
           /\ Depth(c) \in Nat \ {0} /\ Depth(c) = Len(frames[c]) /\ Depth(c) \in 1 .. Len(frames[c])
           /\ Top(c) \in Spans /\ Top(c) = frames[c][Depth(c)]
  <1>1. frames[c] \in Seq(Spans)
    BY DEF TypeOK
  <1>2. Len(frames[c]) \in Nat \ {0}
    BY <1>1
  <1> QED BY <1>1, <1>2 DEF Depth, Top

LEMMA SpansStay == held' = held => Spans' = Spans
  BY DEF Spans, Callable, Agents

\* What SetTop does.
LEMMA TopReplaced ==
    ASSUME TypeOK, NEW c \in Clients, frames[c] # <<>>, NEW f \in Spans, SetTop(c, f), held' = held
    PROVE  /\ frames' \in [Clients -> Seq(Spans')]
           /\ \A d \in Clients \ {c} : frames'[d] = frames[d]
           /\ Len(frames'[c]) = Len(frames[c]) /\ frames'[c] # <<>>
           /\ \A i \in 1 .. Len(frames[c]) : frames'[c][i] = IF i = Depth(c) THEN f ELSE frames[c][i]
           /\ Top(c)' = f
  <1>1. frames[c] \in Seq(Spans) /\ Depth(c) \in 1 .. Len(frames[c]) /\ Depth(c) = Len(frames[c])
    BY TopFacts
  <1> DEFINE new == [frames[c] EXCEPT ![Depth(c)] = f]
  <1>2. new \in Seq(Spans) /\ Len(new) = Len(frames[c])
        /\ \A i \in 1 .. Len(frames[c]) : new[i] = IF i = Depth(c) THEN f ELSE frames[c][i]
    BY <1>1
  <1>3. frames \in [Clients -> Seq(Spans)] /\ frames' = [frames EXCEPT ![c] = new]
    BY DEF SetTop, TypeOK
  <1>4. Len(new) \in Nat \ {0}
    BY <1>1, <1>2
  <1> HIDE DEF new
  <1>5. frames' \in [Clients -> Seq(Spans)] /\ frames'[c] = new
        /\ \A d \in Clients \ {c} : frames'[d] = frames[d]
    BY <1>2, <1>3
  <1>6. new # <<>>
    BY <1>4
  <1>7. Top(c)' = f
    BY <1>1, <1>2, <1>5 DEF Top, Depth
  <1> QED BY <1>2, <1>5, <1>6, <1>7, SpansStay

\* A step that replaces the span at the top, and the call that it waits for.
LEMMA SpanStep ==
    ASSUME GatewayInv, NEW c \in Clients, frames[c] # <<>>,
           NEW f \in Spans, SetTop(c, f),
           f.origin = Top(c).origin, f.agent = Top(c).agent, f.inst = Top(c).inst,
           UNCHANGED <<server, dir, held, pool, counted, req>>,
           chan' \in [Clients -> Seq(Nat)], sse' \in [Clients -> Seq(Nat)],
           LlmTypeOK', \A d \in Clients \ {c} : call'[d] = call[d],
           call'[c] # NoCall <=> f.at = "llm"
    PROVE  GatewayInv'
  <1> USE DEF GatewayInv
  <1>1. /\ frames' \in [Clients -> Seq(Spans')]
        /\ \A d \in Clients \ {c} : frames'[d] = frames[d]
        /\ Len(frames'[c]) = Len(frames[c]) /\ frames'[c] # <<>>
        /\ \A i \in 1 .. Len(frames[c]) : frames'[c][i] = IF i = Depth(c) THEN f ELSE frames[c][i]
        /\ Top(c)' = f
    BY TopReplaced
  <1>2. ASSUME NEW d \in Clients
        PROVE  /\ frames'[d] # <<>> <=> Running(d)'
               /\ call'[d] # NoCall <=> frames'[d] # <<>> /\ Top(d)'.at = "llm"
    <2>1. /\ frames[d] # <<>> <=> Running(d)
          /\ call[d] # NoCall <=> frames[d] # <<>> /\ Top(d).at = "llm"
      BY DEF TypeOK
    <2>2. Running(d)' <=> Running(d)
      BY DEF Running
    <2>3. CASE d = c
      BY <1>1, <2>1, <2>2, <2>3
    <2>4. CASE d # c
      <3>1. frames'[d] = frames[d] /\ Top(d)' = Top(d) /\ call'[d] = call[d]
        BY <1>1, <2>4 DEF Top, Depth
      <3> QED BY <2>1, <2>2, <3>1
    <2> QED BY <2>3, <2>4
  <1>3. TypeOK'
    BY <1>1, <1>2 DEF TypeOK, LlmTypeOK
  <1>4. Nested'
    <2>1. ASSUME NEW i \in 1 .. Len(frames'[c])
          PROVE  /\ Len(frames'[c][i].origin) >= i
                 /\ i < Len(frames'[c]) =>
                       frames'[c][i].at = "enact" /\ frames'[c][i].calls # <<>>
                 /\ \A n \in DOMAIN pool' :
                       frames'[c][i].inst = <<n>> => frames'[c][i].agent = pool'[n]
      <3>1. i \in 1 .. Len(frames[c])
        BY <1>1
      <3>2. /\ frames'[c][i].origin = frames[c][i].origin
            /\ frames'[c][i].agent = frames[c][i].agent
            /\ frames'[c][i].inst = frames[c][i].inst
            /\ i < Len(frames[c]) => frames'[c][i] = frames[c][i]
        <4>1. Depth(c) = Len(frames[c]) /\ Depth(c) \in Nat /\ Top(c) = frames[c][Depth(c)]
          BY TopFacts
        <4>2. CASE i = Depth(c)
          <5>1. frames'[c][i] = f
            BY <1>1, <3>1, <4>2
          <5>2. frames[c][i] = Top(c) /\ ~(i < Len(frames[c]))
            BY <3>1, <4>1, <4>2
          <5> QED BY <5>1, <5>2
        <4>3. CASE i # Depth(c)
          BY <1>1, <3>1, <4>1, <4>3
        <4> QED BY <4>2, <4>3
      <3>3. Stacked(pool, frames[c])
        BY DEF Nested
      <3> QED BY <1>1, <3>1, <3>2, <3>3 DEF Stacked
    <2>2. Stacked(pool', frames'[c])
      BY <2>1 DEF Stacked
    <2>3. server # "loading"
      BY DEF Nested
    <2> QED BY <1>1, <2>2, <2>3 DEF Nested
  <1>5. CountedOnce'
    BY DEF CountedOnce, Came
  <1> QED BY <1>3, <1>4, <1>5

-----------------------------------------------------------------------------
\* What the steps of a provider's call leave.
LEMMA CallSteps ==
    ASSUME LlmTypeOK, NEW c \in Clients
    PROVE  /\ \A i \in Instances : BeginCall(c, i) =>
                 LlmTypeOK' /\ call'[c] # NoCall /\ \A d \in Clients \ {c} : call'[d] = call[d]
           /\ \A s : Retry(c, s) =>
                 LlmTypeOK' /\ call'[c] # NoCall /\ \A d \in Clients \ {c} : call'[d] = call[d]
           /\ \A s : Fail(c, s) =>
                 LlmTypeOK' /\ call'[c] = NoCall /\ \A d \in Clients \ {c} : call'[d] = call[d]
           /\ \A cost \in Costs : Answer(c, cost) =>
                 LlmTypeOK' /\ call'[c] = NoCall /\ \A d \in Clients \ {c} : call'[d] = call[d]
           /\ Drop(c) =>
                 /\ call' \in [Callers -> {NoCall} \cup [at: {"post"}, inst: Instances, attempt: 0 .. MaxRetries,
                                                        last: Refusals \cup {"none"}]]
                 /\ call'[c] = NoCall /\ \A d \in Clients \ {c} : call'[d] = call[d]
  <1> DEFINE Posted == [at: {"post"}, inst: Instances, attempt: 0 .. MaxRetries,
                        last: Refusals \cup {"none"}]
  <1>1. /\ used \in [Instances -> Nat] /\ call \in [Clients -> {NoCall} \cup Posted]
        /\ Callers = Clients /\ MaxRetries \in Nat /\ Costs \subseteq Nat
    BY GatewayConstants DEF LlmTypeOK
  <1>2. ASSUME NEW p \in Posted PROVE p # NoCall
    BY DEF NoCall
  <1>3. ASSUME NEW i \in Instances, BeginCall(c, i)
        PROVE  LlmTypeOK' /\ call'[c] # NoCall /\ \A d \in Clients \ {c} : call'[d] = call[d]
    <2> DEFINE p == [at |-> "post", inst |-> i, attempt |-> 0, last |-> "none"]
    <2>1. p \in Posted
      BY <1>1
    <2>2. call' = [call EXCEPT ![c] = p] /\ UNCHANGED used
      BY <1>3 DEF BeginCall
    <2> HIDE DEF p, Posted
    <2>3. call' \in [Clients -> {NoCall} \cup Posted] /\ call'[c] = p
          /\ \A d \in Clients \ {c} : call'[d] = call[d]
      BY <1>1, <2>1, <2>2
    <2> QED BY <1>1, <1>2, <2>1, <2>2, <2>3 DEF LlmTypeOK, Posted
  <1>4. ASSUME NEW s, Retry(c, s)
        PROVE  LlmTypeOK' /\ call'[c] # NoCall /\ \A d \in Clients \ {c} : call'[d] = call[d]
    <2> DEFINE p == [call[c] EXCEPT !.attempt = @ + 1, !.last = s]
    <2>1. call[c] \in Posted /\ call[c].attempt < MaxRetries /\ s \in Refusals
      BY <1>1, <1>4 DEF Retry, Retryable, Refusals, NoCall
    <2>2. p \in Posted
      <3>1. call[c].attempt + 1 \in 0 .. MaxRetries
        BY <1>1, <2>1
      <3> QED BY <2>1, <3>1
    <2>3. call' = [call EXCEPT ![c] = p] /\ UNCHANGED used
      BY <1>1, <1>4, <2>1 DEF Retry
    <2> HIDE DEF p, Posted
    <2>4. call' \in [Clients -> {NoCall} \cup Posted] /\ call'[c] = p
          /\ \A d \in Clients \ {c} : call'[d] = call[d]
      BY <1>1, <2>2, <2>3
    <2> QED BY <1>1, <1>2, <2>2, <2>3, <2>4 DEF LlmTypeOK, Posted
  <1>5. ASSUME call' = [call EXCEPT ![c] = NoCall]
        PROVE  /\ call' \in [Callers -> {NoCall} \cup Posted]
               /\ call'[c] = NoCall /\ \A d \in Clients \ {c} : call'[d] = call[d]
    <2> HIDE DEF Posted
    <2> QED BY <1>1, <1>5
  <1>6. ASSUME NEW s, Fail(c, s)
        PROVE  LlmTypeOK' /\ call'[c] = NoCall /\ \A d \in Clients \ {c} : call'[d] = call[d]
    BY <1>1, <1>5, <1>6 DEF Fail, LlmTypeOK
  <1>7. ASSUME NEW cost \in Costs, Answer(c, cost)
        PROVE  LlmTypeOK' /\ call'[c] = NoCall /\ \A d \in Clients \ {c} : call'[d] = call[d]
    <2>1. call[c] \in Posted
      BY <1>1, <1>7 DEF Answer, NoCall
    <2>2. used' \in [Instances -> Nat]
      BY <1>1, <1>7, <2>1 DEF Answer
    <2> QED BY <1>5, <1>7, <2>2 DEF Answer, LlmTypeOK
  <1>8. Drop(c) =>
          /\ call' \in [Callers -> {NoCall} \cup Posted]
          /\ call'[c] = NoCall /\ \A d \in Clients \ {c} : call'[d] = call[d]
    BY <1>5 DEF Drop
  <1> QED BY <1>3, <1>4, <1>6, <1>7, <1>8

\* A client's span leaves or starts its stage with or without a call.
LEMMA CallAndStage ==
    ASSUME TypeOK, NEW c \in Clients
    PROVE  /\ frames[c] # <<>> <=> Running(c)
           /\ call[c] # NoCall <=> frames[c] # <<>> /\ Top(c).at = "llm"
           /\ call[c] # NoCall => call[c].at = "post" /\ call[c].inst \in Instances
           /\ NoCall.at = "idle"
  <1>1. call[c] # NoCall => call[c].at = "post" /\ call[c].inst \in Instances
    BY GatewayConstants DEF TypeOK, LlmTypeOK
  <1> QED BY <1>1 DEF TypeOK, NoCall

\* A decision is taken.
LEMMA TakeKeeps ==
    ASSUME GatewayInv, NEW c \in Clients, frames[c] # <<>>, NEW d,
           d.says \in BOOLEAN, d.calls \in Seq(Callable),
           d.ends \in {"no", "continue", "achieved", "abandoned"}, Take(c, d),
           UNCHANGED <<server, dir, held, pool, counted, req, chan, sse>>,
           LlmTypeOK', call'[c] = NoCall, \A e \in Clients \ {c} : call'[e] = call[e]
    PROVE  GatewayInv'
  <1> DEFINE f == [Top(c) EXCEPT !.at = "enact", !.says = d.says, !.calls = d.calls, !.ends = d.ends]
  <1>1. Top(c) \in Spans
    BY TopFacts DEF GatewayInv
  <1>2. f \in Spans
    BY <1>1, SpanEdits
  <1>3. f.origin = Top(c).origin /\ f.agent = Top(c).agent /\ f.inst = Top(c).inst /\ f.at = "enact"
    BY <1>1 DEF Spans
  <1>4. SetTop(c, f)
    BY DEF Take
  <1>5. chan' \in [Clients -> Seq(Nat)] /\ sse' \in [Clients -> Seq(Nat)]
    BY DEF GatewayInv, TypeOK
  <1> HIDE DEF f
  <1> QED BY <1>2, <1>3, <1>4, <1>5, SpanStep

\* The provider's steps.
LEMMA ProviderKeeps ==
    ASSUME GatewayInv, NEW c \in Clients,
           DecideLocally(c) \/ DecideLlm(c) \/ LlmRetry(c) \/ LlmFail(c) \/ LlmAnswer(c)
    PROVE  GatewayInv'
  <1> USE DEF GatewayInv
  <1>1. TypeOK /\ LlmTypeOK
    BY DEF TypeOK
  <1>2. frames[c] # <<>>
    BY CallAndStage DEF DecideLocally, DecideLlm, LlmRetry, LlmFail, LlmAnswer, Answer
  <1>3. Top(c) \in Spans /\ Agent(c) \in Agents /\ Top(c).inst \in Instances
    BY <1>2, TopFacts DEF Spans, Agent
  <1>4. CASE DecideLocally(c)
    <2>1. PICK d \in LocalDecisions(Agent(c).provider) : Take(c, d)
      BY <1>4 DEF DecideLocally
    <2>2. d.says \in BOOLEAN /\ d.calls \in Seq(Callable)
             /\ d.ends \in {"no", "continue", "achieved", "abandoned"}
      BY <1>3, Decisions
    <2>3. call[c] = NoCall /\ LlmTypeOK' /\ call' = call
      BY <1>4, <1>1, CallAndStage DEF DecideLocally, LlmTypeOK
    <2> QED BY <1>2, <1>4, <2>1, <2>2, <2>3, TakeKeeps DEF DecideLocally
  <1>5. CASE DecideLlm(c)
    <2>1. call[c] = NoCall
      BY <1>5, CallAndStage DEF DecideLlm
    <2>2. CASE Take(c, Abandoned) /\ UNCHANGED llmVars
      <3>1. Abandoned.says \in BOOLEAN /\ Abandoned.calls \in Seq(Callable)
               /\ Abandoned.ends \in {"no", "continue", "achieved", "abandoned"}
        BY Silent DEF Abandoned
      <3>2. LlmTypeOK' /\ call' = call
        BY <1>1, <2>2 DEF LlmTypeOK, llmVars
      <3> QED BY <1>2, <1>5, <2>1, <2>2, <3>1, <3>2, TakeKeeps DEF DecideLlm
    <2>3. CASE SetTop(c, [Top(c) EXCEPT !.at = "llm"]) /\ BeginCall(c, Top(c).inst)
      <3> DEFINE f == [Top(c) EXCEPT !.at = "llm"]
      <3>1. /\ f \in Spans /\ f.at = "llm"
            /\ f.origin = Top(c).origin /\ f.agent = Top(c).agent /\ f.inst = Top(c).inst
        <4>1. f \in Spans
          BY <1>3, SpanEdits
        <4>2. /\ f.at = "llm"
              /\ f.origin = Top(c).origin /\ f.agent = Top(c).agent /\ f.inst = Top(c).inst
          BY <1>3 DEF Spans
        <4> QED BY <4>1, <4>2
      <3>2. LlmTypeOK' /\ call'[c] # NoCall /\ \A d \in Clients \ {c} : call'[d] = call[d]
        BY <1>1, <1>3, <2>3, CallSteps
      <3>3. chan' \in [Clients -> Seq(Nat)] /\ sse' \in [Clients -> Seq(Nat)]
            /\ UNCHANGED <<server, dir, held, pool, counted, req>>
        BY <1>5 DEF DecideLlm, TypeOK
      <3> HIDE DEF f
      <3> QED BY <1>2, <2>3, <3>1, <3>2, <3>3, SpanStep DEF f
    <2> QED BY <1>5, <2>2, <2>3 DEF DecideLlm
  <1>6. CASE LlmRetry(c)
    <2>1. PICK s : Retry(c, s)
      BY <1>6 DEF LlmRetry
    <2>2. LlmTypeOK' /\ call'[c] # NoCall /\ \A d \in Clients \ {c} : call'[d] = call[d]
      BY <1>1, <2>1, CallSteps
    <2>3. call[c] # NoCall /\ UNCHANGED <<server, dir, held, pool, counted, req, frames, chan, sse>>
      BY <1>6 DEF LlmRetry
    <2>4. \A d \in Clients : Top(d)' = Top(d) /\ (Running(d)' <=> Running(d))
             /\ (call'[d] # NoCall <=> call[d] # NoCall)
      BY <2>2, <2>3 DEF Top, Depth, Running
    <2> QED BY <2>2, <2>3, <2>4, SpansStay DEF TypeOK, Nested, CountedOnce, Came
  <1>7. CASE LlmFail(c)
    <2>1. PICK s : Fail(c, s)
      BY <1>7 DEF LlmFail
    <2>2. Abandoned.says \in BOOLEAN /\ Abandoned.calls \in Seq(Callable)
             /\ Abandoned.ends \in {"no", "continue", "achieved", "abandoned"}
      BY Silent DEF Abandoned
    <2> QED BY <1>1, <1>2, <1>7, <2>1, <2>2, CallSteps, TakeKeeps DEF LlmFail
  <1>8. CASE LlmAnswer(c)
    <2>1. PICK cost \in Costs : Answer(c, cost)
      BY <1>8 DEF LlmAnswer
    <2>2. PICK b \in Bodies :
             Take(c, IF Blocking(c) THEN InterpretAnthropic(b, ToolSchema(Agent(c).caps))
                     ELSE InterpretOpenAi(b, ToolSchema(Agent(c).caps)))
      BY <1>8 DEF LlmAnswer
    <2>3. PICK d : /\ d \in {InterpretOpenAi(b, ToolSchema(Agent(c).caps)),
                             InterpretAnthropic(b, ToolSchema(Agent(c).caps)), Abandoned}
                   /\ Take(c, d)
      BY <2>2
    <2>4. d.says \in BOOLEAN /\ d.calls \in Seq(Callable)
             /\ d.ends \in {"no", "continue", "achieved", "abandoned"}
      BY <1>3, <2>3, Decisions
    <2> QED BY <1>1, <1>2, <1>8, <2>1, <2>3, <2>4, CallSteps, TakeKeeps DEF LlmAnswer
  <1> QED BY <1>4, <1>5, <1>6, <1>7, <1>8

-----------------------------------------------------------------------------
\* A request that has come may be counted.
LEMMA CountFacts ==
    /\ Cardinality(Clients) \in Nat
    /\ Cardinality(Came) \in Nat /\ Cardinality(Came) <= Cardinality(Clients)
    /\ \A c \in Clients \ Came : Cardinality(Came \cup {c}) = Cardinality(Came) + 1
  <1>1. IsFiniteSet(Clients) /\ Came \subseteq Clients
    BY GatewayConstants DEF Came
  <1>2. IsFiniteSet(Came) /\ Cardinality(Came) <= Cardinality(Clients)
    BY <1>1, FS_Subset
  <1> QED BY <1>1, <1>2, FS_CardinalityType, FS_AddElement

\* The pool is loaded, or the server exits.
LEMMA LoadKeeps ==
    ASSUME GatewayInv, Load PROVE GatewayInv'
  <1>1. \A d \in Clients : Top(d)' = Top(d) /\ (Running(d)' <=> Running(d))
    BY DEF Load, Top, Depth, Running
  <1>2. /\ pool' \in [DOMAIN pool' -> {Assembled(m, Global) : m \in held}]
        /\ \A n \in DOMAIN pool' : pool'[n].name = n
    <2>1. CASE UNCHANGED pool
      BY <2>1 DEF GatewayInv, TypeOK
    <2> DEFINE files == Restrict(dir, DOMAIN dir \ Outside)
    <2>2. CASE pool' = PoolOf(files, Global)
      <3>1. \A f \in DOMAIN files : files[f] \in held
        BY FileFacts DEF GatewayInv, TypeOK, Restrict
      <3> HIDE DEF files
      <3>2. pool' = [n \in DOMAIN pool' |-> pool'[n]]
        BY <2>2 DEF PoolOf
      <3>3. \A n \in DOMAIN pool' : /\ pool'[n] \in {Assembled(m, Global) : m \in held}
                                   /\ pool'[n].name = n
        BY <2>2, <3>1, PoolsAgents
      <3> QED BY <3>2, <3>3
    <2> QED BY <2>1, <2>2 DEF Load
  <1>3. TypeOK' /\ CountedOnce'
    BY <1>1, <1>2, SpansStay DEF GatewayInv, Load, TypeOK, CountedOnce, Came, LlmTypeOK
  <1>4. Stacked(pool', <<>>)
    BY DEF Stacked
  <1>5. Nested'
    BY <1>4 DEF GatewayInv, Load, Nested
  <1> QED BY <1>3, <1>5 DEF GatewayInv

\* The files change.
LEMMA EditKeeps ==
    ASSUME GatewayInv, Edit PROVE GatewayInv'
  <1>1. /\ UNCHANGED <<server, pool, counted, req, frames, chan, sse, effects, used, call>>
        /\ held' = held \cup Range(dir')
    BY DEF Edit
  <1>2. dir' \in Dirs
    BY GatewayConstants DEF Edit
  <1>3. Range(dir') \subseteq held' /\ held \subseteq held' /\ held' \subseteq Manifests
    BY <1>1, <1>2 DEF GatewayInv, TypeOK, Manifests
  <1>4. Agents \subseteq Agents' /\ Callable \subseteq Callable'
    <2>1. Agents \subseteq Agents'
      BY <1>3 DEF Agents
    <2> QED BY <2>1 DEF Callable
  <1>5. Spans \subseteq Spans'
    <2>1. \A x \in Seq(Callable) : x \in Seq(Callable')
      BY <1>4
    <2> QED BY <1>4, <2>1 DEF Spans
  <1>6. frames' \in [Clients -> Seq(Spans')]
    <2>1. \A x \in Seq(Spans) : x \in Seq(Spans')
      BY <1>5
    <2> QED BY <1>1, <2>1 DEF GatewayInv, TypeOK
  <1>7. pool' \in [DOMAIN pool' -> {Assembled(m, Global) : m \in held'}]
    BY <1>1, <1>3 DEF GatewayInv, TypeOK
  <1>8. \A d \in Clients : Top(d)' = Top(d) /\ (Running(d)' <=> Running(d))
    BY <1>1 DEF Top, Depth, Running
  <1>9. TypeOK'
    BY <1>1, <1>2, <1>3, <1>6, <1>7, <1>8 DEF GatewayInv, TypeOK, LlmTypeOK
  <1> QED BY <1>1, <1>9 DEF GatewayInv, Nested, CountedOnce, Came

\* A refused request.
LEMMA RefuseKeeps ==
    ASSUME GatewayInv, NEW c \in Clients, Refuse(c) PROVE GatewayInv'
  <1> DEFINE Later == Requests({"running", "ran", "answered", "closed"})
  <1>1. PICK r \in Menu : req' = [req EXCEPT ![c] = [r EXCEPT !.at = "answered", !.status = StatusOf(r)]]
    BY DEF Refuse
  <1> DEFINE q == [r EXCEPT !.at = "answered", !.status = StatusOf(r)]
  <1>2. StatusOf(r) \in {"200", "401", "404", "500"}
    BY DEF StatusOf, ChildStatus
  <1>3. q \in Later /\ q.at = "answered"
    BY <1>2, GatewayConstants, ZenonT(60) DEF Requests
  <1> HIDE DEF q, Later
  <1>4. req \in [Clients -> {NoRequest} \cup Later] /\ req[c].at = "idle"
    BY DEF GatewayInv, TypeOK, Refuse, Later
  <1>5. /\ req' \in [Clients -> {NoRequest} \cup Later] /\ req'[c] = q
        /\ \A d \in Clients \ {c} : req'[d] = req[d]
    BY <1>1, <1>3, <1>4 DEF q
  <1>6. \A d \in Clients : Top(d)' = Top(d) /\ (Running(d)' <=> Running(d))
    BY <1>3, <1>4, <1>5 DEF Refuse, Top, Depth, Running
  <1>7. TypeOK'
    BY <1>5, <1>6, SpansStay DEF GatewayInv, TypeOK, Refuse, LlmTypeOK, Later
  <1>8. Came' = Came \cup {c} /\ c \notin Came
    BY <1>3, <1>4, <1>5 DEF Came
  <1>9. Nested'
    BY DEF GatewayInv, Nested, Refuse
  <1>10. CountedOnce'
    <2>1. Cardinality(Came') = Cardinality(Came) + 1 /\ Cardinality(Came) \in Nat
      BY <1>8, CountFacts
    <2>2. counted' = counted /\ counted \in Nat /\ counted <= Cardinality(Came)
      BY DEF GatewayInv, Refuse, CountedOnce, TypeOK
    <2> QED BY <2>1, <2>2 DEF CountedOnce
  <1> QED BY <1>7, <1>9, <1>10 DEF GatewayInv

\* An accepted request.
LEMMA AcceptKeeps ==
    ASSUME GatewayInv, NEW c \in Clients, NEW r \in Menu, NEW f \in Spans,
           Len(f.origin) >= 1, f.at = "decide", Accept(c, r, f),
           \A n \in DOMAIN pool : f.inst = <<n>> => f.agent = pool[n]
    PROVE  GatewayInv'
  <1> DEFINE Later == Requests({"running", "ran", "answered", "closed"})
             q == [r EXCEPT !.at = "running", !.status = "200"]
  <1>1. q \in Later /\ q.at = "running"
    BY GatewayConstants, ZenonT(60) DEF Requests
  <1> HIDE DEF q, Later
  <1>2. /\ req \in [Clients -> {NoRequest} \cup Later] /\ req[c].at = "idle"
        /\ frames \in [Clients -> Seq(Spans)] /\ counted \in Nat
    BY DEF GatewayInv, TypeOK, Accept, Later
  <1>3. /\ req' \in [Clients -> {NoRequest} \cup Later] /\ req'[c] = q
        /\ \A d \in Clients \ {c} : req'[d] = req[d]
    BY <1>1, <1>2 DEF Accept, q
  <1>4. <<f>> \in Seq(Spans) /\ <<f>> # <<>> /\ Len(<<f>>) = 1 /\ <<f>>[1] = f
    OBVIOUS
  <1>5. /\ frames' \in [Clients -> Seq(Spans)] /\ frames'[c] = <<f>>
        /\ \A d \in Clients \ {c} : frames'[d] = frames[d]
    BY <1>2, <1>4 DEF Accept
  <1>6. UNCHANGED <<server, dir, held, pool, chan, sse, used, call>> /\ counted' = counted + 1
    BY DEF Accept
  <1>7. call[c] = NoCall
    BY <1>2, CallAndStage DEF GatewayInv, Running
  <1>8. ASSUME NEW d \in Clients
        PROVE  /\ frames'[d] # <<>> <=> Running(d)'
               /\ call'[d] # NoCall <=> frames'[d] # <<>> /\ Top(d)'.at = "llm"
    <2>1. CASE d = c
      <3>1. Top(c)' = f /\ Running(c)'
        BY <1>1, <1>3, <1>4, <1>5 DEF Top, Depth, Running
      <3> QED BY <1>4, <1>5, <1>6, <1>7, <2>1, <3>1
    <2>2. CASE d # c
      <3>1. Top(d)' = Top(d) /\ (Running(d)' <=> Running(d)) /\ frames'[d] = frames[d]
        BY <1>3, <1>5, <2>2 DEF Top, Depth, Running
      <3> QED BY <1>6, <3>1, CallAndStage DEF GatewayInv
    <2> QED BY <2>1, <2>2
  <1>9. Came' = Came \cup {c} /\ c \notin Came
    BY <1>1, <1>2, <1>3 DEF Came
  <1>10. CountedOnce' /\ counted' \in Nat
    <2>1. Came' = Came \cup {c} /\ c \in Clients \ Came
      BY <1>9 DEF Came
    <2>2. Cardinality(Came') = Cardinality(Came) + 1 /\ Cardinality(Came) \in Nat
      BY <2>1, CountFacts
    <2>3. counted' = counted + 1 /\ counted \in Nat /\ counted <= Cardinality(Came)
      BY <1>2, <1>6 DEF GatewayInv, CountedOnce
    <2> QED BY <2>2, <2>3 DEF CountedOnce
  <1>11. counted' \in 0 .. Cardinality(Clients)
    <2>1. Cardinality(Came') <= Cardinality(Clients) /\ Cardinality(Came') \in Nat
      <3>1. Came' \subseteq Clients
        BY DEF Came
      <3> QED BY <3>1, GatewayConstants, FS_Subset, FS_CardinalityType
    <2> QED BY <1>10, <2>1, CountFacts DEF CountedOnce
  <1>12. TypeOK'
    BY <1>3, <1>5, <1>6, <1>8, <1>11, SpansStay DEF GatewayInv, TypeOK, LlmTypeOK, Later
  <1>13. Nested'
    <2>1. Stacked(pool, <<f>>)
      BY <1>4 DEF Stacked
    <2> QED BY <1>5, <1>6, <2>1 DEF GatewayInv, Nested, Accept
  <1> QED BY <1>10, <1>12, <1>13 DEF GatewayInv

\* A request of any kind.
LEMMA AcceptsKeep ==
    ASSUME GatewayInv, NEW c \in Clients, AcceptChat(c) \/ AcceptGoals(c) \/ AcceptDelegate(c)
    PROVE  GatewayInv'
  <1>1. /\ dir \in Dirs /\ Range(dir) \subseteq held /\ held \subseteq Manifests
        /\ pool \in [DOMAIN pool -> {Assembled(m, Global) : m \in held}]
        /\ \A n \in DOMAIN pool : pool[n].name = n
    BY DEF GatewayInv, TypeOK
  <1>2. ASSUME NEW r \in Menu, StatusOf(r) = "200"
        PROVE  /\ pool[r.agent] \in Agents /\ <<r.agent>> \in Instances
               /\ r.kind = "delegate" => r.child \in DOMAIN dir
    <2>1. r.agent \in DOMAIN pool
      BY <1>2 DEF StatusOf
    <2>2. r.kind = "delegate" => ChildStatus(r) = "200"
      BY <1>2 DEF StatusOf
    <2>3. r.kind = "delegate" => r.child \in DOMAIN dir
      BY <2>2 DEF ChildStatus
    <2> QED BY <1>1, <1>2, <2>1, <2>3, Pooled
  <1>3. CASE AcceptChat(c) \/ AcceptGoals(c)
    <2>1. PICK r \in Menu : Accept(c, r, PoolFrame(r.agent))
      BY <1>3 DEF AcceptChat, AcceptGoals
    <2>2. pool[r.agent] \in Agents /\ <<r.agent>> \in Instances
      BY <1>2, <2>1 DEF Accept
    <2> DEFINE f == PoolFrame(r.agent)
    <2>3. f \in Spans
      BY <1>1, <2>2, AgentFacts, NewSpan DEF PoolFrame
    <2>4. /\ f.origin = pool[r.agent].origin /\ f.at = "decide"
          /\ \A n \in DOMAIN pool : f.inst = <<n>> => f.agent = pool[n]
      BY DEF PoolFrame, Frame
    <2>5. Len(f.origin) >= 1
      BY <1>1, <2>2, <2>4, AgentFacts
    <2> HIDE DEF f
    <2> QED BY <2>1, <2>3, <2>4, <2>5, AcceptKeeps DEF f
  <1>4. CASE AcceptDelegate(c)
    <2>1. PICK r \in Menu :
            /\ r.kind = "delegate"
            /\ Accept(c, r, Frame(AssembledFresh(dir[r.child]), Append(pool[r.agent].origin, r.child), <<c, 1>>))
      BY <1>4 DEF AcceptDelegate
    <2>2. pool[r.agent] \in Agents /\ r.child \in DOMAIN dir
      BY <1>2, <2>1 DEF Accept
    <2>3. pool[r.agent].origin \in Seq(STRING) /\ r.child \in STRING /\ dir[r.child] \in held
      BY <1>1, <2>2, AgentFacts, FileFacts
    <2>4. Append(pool[r.agent].origin, r.child) \in Seq(STRING)
          /\ Len(Append(pool[r.agent].origin, r.child)) >= 1
      BY <2>3
    <2>5. AssembledFresh(dir[r.child]) \in Agents
      BY <2>3, Made DEF AssembledFresh
    <2>6. <<c, 1>> \in Instances
      BY GatewayConstants
    <2> DEFINE f == Frame(AssembledFresh(dir[r.child]), Append(pool[r.agent].origin, r.child), <<c, 1>>)
    <2>7. f \in Spans
      BY <2>4, <2>5, <2>6, NewSpan
    <2>8. /\ f.origin = Append(pool[r.agent].origin, r.child) /\ f.at = "decide"
          /\ \A n \in DOMAIN pool : f.inst # <<n>>
      BY DEF Frame
    <2> HIDE DEF f
    <2> QED BY <2>1, <2>4, <2>7, <2>8, AcceptKeeps DEF f
  <1> QED BY <1>3, <1>4

-----------------------------------------------------------------------------
\* A span enacts its decision.
LEMMA EnactKeeps ==
    ASSUME GatewayInv, NEW c \in Clients, Express(c) \/ CallFails(c) \/ CallEffect(c)
    PROVE  GatewayInv'
  <1> USE DEF GatewayInv
  <1>1. /\ frames[c] # <<>> /\ Top(c).at = "enact"
        /\ UNCHANGED <<server, dir, held, pool, counted, req, sse, used, call>>
    BY DEF Express, CallFails, CallEffect, Calling
  <1>2. Top(c) \in Spans
    BY <1>1, TopFacts
  <1>3. /\ LlmTypeOK' /\ sse' \in [Clients -> Seq(Nat)] /\ call'[c] = NoCall
        /\ chan \in [Clients -> Seq(Nat)]
    BY <1>1, CallAndStage DEF TypeOK, LlmTypeOK
  <1>4. CASE Express(c)
    <2> DEFINE f == [Top(c) EXCEPT !.says = FALSE, !.said = @ + 1]
    <2>1. f \in Spans
      BY <1>2, SpanEdits
    <2>2. /\ f.at = "enact"
          /\ f.origin = Top(c).origin /\ f.agent = Top(c).agent /\ f.inst = Top(c).inst
      BY <1>1, <1>2 DEF Spans
    <2>3. chan' \in [Clients -> Seq(Nat)]
      <3>1. Top(c).said + 1 \in Nat
        BY <1>2 DEF Spans
      <3>2. \A q \in Seq(Nat) : Append(q, Top(c).said + 1) \in Seq(Nat)
        BY <3>1
      <3> QED BY <1>3, <1>4, <3>2 DEF Express
    <2>4. SetTop(c, f)
      BY <1>4 DEF Express
    <2> HIDE DEF f
    <2> QED BY <1>1, <1>3, <2>1, <2>2, <2>3, <2>4, SpanStep
  <1>5. CASE CallFails(c) \/ CallEffect(c)
    <2> DEFINE f == Answered(Top(c))
    <2>1. f \in Spans
      BY <1>2, <1>5, SpanEdits DEF CallFails, CallEffect, Calling
    <2>2. /\ f.at = "enact"
          /\ f.origin = Top(c).origin /\ f.agent = Top(c).agent /\ f.inst = Top(c).inst
      BY <1>1, <1>2 DEF Spans, Answered
    <2>3. SetTop(c, f) /\ chan' = chan
      BY <1>5 DEF CallFails, CallEffect
    <2> HIDE DEF f
    <2> QED BY <1>1, <1>3, <2>1, <2>2, <2>3, SpanStep
  <1> QED BY <1>4, <1>5

\* A client's spans are replaced by others.
LEMMA SpansReplaced ==
    ASSUME GatewayInv, NEW c \in Clients, Running(c), NEW s \in Seq(Spans), s # <<>>, Stacked(pool, s),
           s[Len(s)].at # "llm", frames' = [frames EXCEPT ![c] = s],
           UNCHANGED <<server, dir, held, pool, counted, req, chan, sse, call>>, call[c] = NoCall,
           used' \in [Instances -> Nat]
    PROVE  GatewayInv'
  <1> USE DEF GatewayInv
  <1>1. /\ frames' \in [Clients -> Seq(Spans)] /\ frames'[c] = s
        /\ \A d \in Clients \ {c} : frames'[d] = frames[d]
    BY DEF TypeOK
  <1>2. ASSUME NEW d \in Clients
        PROVE  /\ frames'[d] # <<>> <=> Running(d)'
               /\ call'[d] # NoCall <=> frames'[d] # <<>> /\ Top(d)'.at = "llm"
    <2>1. CASE d = c
      BY <1>1, <2>1 DEF Running, Top, Depth
    <2>2. CASE d # c
      <3>1. Top(d)' = Top(d) /\ (Running(d)' <=> Running(d)) /\ frames'[d] = frames[d]
        BY <1>1, <2>2 DEF Top, Depth, Running
      <3> QED BY <3>1, CallAndStage
    <2> QED BY <2>1, <2>2
  <1>3. TypeOK'
    BY <1>1, <1>2, SpansStay DEF TypeOK, LlmTypeOK
  <1>4. Nested'
    BY <1>1, CallAndStage DEF Nested
  <1>5. CountedOnce'
    BY DEF CountedOnce, Came
  <1> QED BY <1>3, <1>4, <1>5

\* A call that delegates.
LEMMA DelegateKeeps ==
    ASSUME GatewayInv, NEW c \in Clients, CallDelegate(c)
    PROVE  GatewayInv'
  <1> USE DEF GatewayInv
  <1>1. /\ Running(c) /\ frames[c] # <<>> /\ Top(c).at = "enact" /\ Top(c).calls # <<>>
        /\ Len(Top(c).origin) - 1 + 1 <= MaxDelegationDepth
        /\ UNCHANGED <<server, dir, held, pool, counted, req, chan, sse, used, call>>
    BY DEF CallDelegate, Calling, MayDelegate
  <1>2. PICK k \in DOMAIN dir :
           frames' = [frames EXCEPT ![c] =
              Append(@, Frame(AssembledFresh(dir[k]), Append(Top(c).origin, k), <<c, Depth(c) + 1>>))]
    BY DEF CallDelegate
  <1> DEFINE f == Frame(AssembledFresh(dir[k]), Append(Top(c).origin, k), <<c, Depth(c) + 1>>)
  <1>3. /\ frames[c] \in Seq(Spans) /\ Depth(c) = Len(frames[c]) /\ Depth(c) \in Nat \ {0}
        /\ Top(c) \in Spans /\ Top(c) = frames[c][Len(frames[c])] /\ Stacked(pool, frames[c])
        /\ frames \in [Clients -> Seq(Spans)]
    BY <1>1, TopFacts DEF Nested, TypeOK
  <1>4. Top(c).origin \in Seq(STRING) /\ k \in STRING /\ Len(Top(c).origin) >= Depth(c)
    <2>1. Top(c).origin \in Seq(STRING)
      BY <1>3 DEF Spans
    <2>2. k \in STRING
      BY FileFacts DEF TypeOK
    <2>3. Len(frames[c][Len(frames[c])].origin) >= Len(frames[c])
      BY <1>3 DEF Stacked
    <2> QED BY <1>3, <2>1, <2>2, <2>3
  <1>5. /\ Append(Top(c).origin, k) \in Seq(STRING)
        /\ Len(Append(Top(c).origin, k)) >= Depth(c) + 1
    BY <1>3, <1>4
  <1>6. <<c, Depth(c) + 1>> \in Instances
    <2>1. Depth(c) + 1 \in 1 .. MaxDelegationDepth + 1
      BY <1>1, <1>3, <1>4, GatewayConstants
    <2>2. Clients \X (1 .. MaxDelegationDepth + 1) \subseteq Instances
      BY GatewayConstants
    <2> QED BY <2>1, <2>2
  <1>7. AssembledFresh(dir[k]) \in Agents
    <2>1. dir[k] \in held
      BY FileFacts DEF TypeOK
    <2> QED BY <2>1, Made DEF AssembledFresh
  <1>8. /\ f \in Spans /\ f.at = "decide" /\ f.origin = Append(Top(c).origin, k)
        /\ \A n \in DOMAIN pool : f.inst # <<n>>
    <2>1. f \in Spans
      BY <1>5, <1>6, <1>7, NewSpan
    <2> QED BY <2>1 DEF Frame
  <1> HIDE DEF f
  <1> DEFINE s == Append(frames[c], f)
  <1>9. /\ s \in Seq(Spans) /\ s # <<>> /\ Len(s) = Len(frames[c]) + 1 /\ s[Len(s)] = f
        /\ \A i \in 1 .. Len(frames[c]) : s[i] = frames[c][i]
    BY <1>3, <1>8
  <1> HIDE DEF s
  <1>10. Stacked(pool, s)
    <2> SUFFICES ASSUME NEW i \in 1 .. Len(s)
                 PROVE  /\ Len(s[i].origin) >= i
                        /\ i < Len(s) => s[i].at = "enact" /\ s[i].calls # <<>>
                        /\ \A n \in DOMAIN pool : s[i].inst = <<n>> => s[i].agent = pool[n]
      BY DEF Stacked
    <2>1. CASE i = Len(s)
      BY <1>3, <1>5, <1>8, <1>9, <2>1
    <2>2. CASE i # Len(s)
      <3>1. i \in 1 .. Len(frames[c]) /\ s[i] = frames[c][i]
        BY <1>3, <1>9, <2>2
      <3>2. CASE i < Len(frames[c])
        BY <1>3, <3>1, <3>2 DEF Stacked
      <3>3. CASE i = Len(frames[c])
        BY <1>1, <1>3, <3>1, <3>3 DEF Stacked
      <3> QED BY <1>3, <3>1, <3>2, <3>3
    <2> QED BY <2>1, <2>2
  <1>11. frames' = [frames EXCEPT ![c] = s]
    BY <1>2 DEF s, f
  <1>12. call[c] = NoCall /\ used' \in [Instances -> Nat]
    BY <1>1, CallAndStage DEF TypeOK, LlmTypeOK
  <1> QED BY <1>1, <1>8, <1>9, <1>10, <1>11, <1>12, SpansReplaced

\* A request that has come to an end.
LEMMA EndKeeps ==
    ASSUME GatewayInv, NEW c \in Clients, Running(c),
           NEW r \in Requests({"ran", "answered", "closed"}),
           frames' = [frames EXCEPT ![c] = <<>>], req' = [req EXCEPT ![c] = r],
           UNCHANGED <<server, dir, held, pool, counted, chan, sse>>,
           LlmTypeOK', call'[c] = NoCall, \A d \in Clients \ {c} : call'[d] = call[d]
    PROVE  GatewayInv'
  <1> DEFINE Later == Requests({"running", "ran", "answered", "closed"})
  <1> USE DEF GatewayInv
  <1>1. r \in Later /\ r.at \in {"ran", "answered", "closed"}
    BY DEF Requests
  <1> HIDE DEF Later
  <1>2. req \in [Clients -> {NoRequest} \cup Later] /\ frames \in [Clients -> Seq(Spans)]
    BY DEF TypeOK, Later
  <1>3. /\ req' \in [Clients -> {NoRequest} \cup Later] /\ req'[c] = r
        /\ \A d \in Clients \ {c} : req'[d] = req[d]
    BY <1>1, <1>2
  <1>4. /\ frames' \in [Clients -> Seq(Spans)] /\ frames'[c] = <<>>
        /\ \A d \in Clients \ {c} : frames'[d] = frames[d]
    <2>1. <<>> \in Seq(Spans)
      OBVIOUS
    <2> QED BY <1>2, <2>1
  <1>5. ASSUME NEW d \in Clients
        PROVE  /\ frames'[d] # <<>> <=> Running(d)'
               /\ call'[d] # NoCall <=> frames'[d] # <<>> /\ Top(d)'.at = "llm"
    <2>1. CASE d = c
      BY <1>1, <1>3, <1>4, <2>1 DEF Running
    <2>2. CASE d # c
      <3>1. Top(d)' = Top(d) /\ (Running(d)' <=> Running(d)) /\ frames'[d] = frames[d]
        BY <1>3, <1>4, <2>2 DEF Top, Depth, Running
      <3> QED BY <2>2, <3>1, CallAndStage
    <2> QED BY <2>1, <2>2
  <1>6. TypeOK'
    BY <1>3, <1>4, <1>5, SpansStay DEF TypeOK, Later
  <1>7. Stacked(pool, <<>>)
    BY DEF Stacked
  <1>8. Nested'
    BY <1>4, <1>7 DEF Nested
  <1>9. Came' = Came
    <2>1. req[c].at = "running"
      BY DEF Running
    <2> QED BY <1>1, <1>3, <2>1 DEF Came
  <1>10. CountedOnce'
    BY <1>9 DEF CountedOnce
  <1> QED BY <1>6, <1>8, <1>10

\* Dropped providers leave counts.
LEMMA DroppedType ==
    ASSUME LlmTypeOK, NEW c, NEW n PROVE Dropped(c, n) \in [Instances -> Nat]
  BY DEF Dropped, LlmTypeOK

\* A decision is done: the span goes on, or ends, inside a call or not.
LEMMA StepEndsKeeps ==
    ASSUME GatewayInv, NEW c \in Clients, StepEnds(c)
    PROVE  GatewayInv'
  <1> USE DEF GatewayInv
  <1>1. /\ Running(c) /\ frames[c] # <<>> /\ Top(c).at = "enact"
        /\ UNCHANGED <<server, dir, held, pool, counted, chan, sse, call>>
    BY DEF StepEnds
  <1>2. /\ frames[c] \in Seq(Spans) /\ Depth(c) = Len(frames[c]) /\ Depth(c) \in Nat \ {0}
        /\ Top(c) \in Spans /\ Top(c) = frames[c][Len(frames[c])] /\ Stacked(pool, frames[c])
        /\ frames \in [Clients -> Seq(Spans)]
        /\ chan \in [Clients -> Seq(Nat)] /\ sse \in [Clients -> Seq(Nat)] /\ LlmTypeOK
    BY <1>1, TopFacts DEF Nested, TypeOK
  <1>3. call[c] = NoCall
    BY <1>1, CallAndStage
  <1>4. CASE /\ Top(c).ends = "no" /\ Top(c).step < MaxSteps
             /\ SetTop(c, [Top(c) EXCEPT !.at = "decide", !.step = @ + 1])
             /\ UNCHANGED <<req, used>>
    <2> DEFINE f == [Top(c) EXCEPT !.at = "decide", !.step = @ + 1]
    <2>1. f \in Spans
      BY <1>2, <1>4, SpanEdits
    <2>2. /\ f.at = "decide"
          /\ f.origin = Top(c).origin /\ f.agent = Top(c).agent /\ f.inst = Top(c).inst
      BY <1>2 DEF Spans
    <2>3. LlmTypeOK'
      BY <1>1, <1>2, <1>4 DEF LlmTypeOK
    <2> HIDE DEF f
    <2> QED BY <1>1, <1>2, <1>3, <1>4, <2>1, <2>2, <2>3, SpanStep DEF f
  <1>5. CASE /\ used' = Dropped(c, Depth(c)) /\ Depth(c) > 1 /\ UNCHANGED req
             /\ frames' = [frames EXCEPT ![c] =
                   Append(SubSeq(@, 1, Depth(c) - 2), Answered(@[Depth(c) - 1]))]
    <2> DEFINE n == Len(frames[c]) - 1
               g == Answered(frames[c][n])
               s == Append(SubSeq(frames[c], 1, n - 1), g)
    <2>1. n \in 1 .. Len(frames[c]) /\ n < Len(frames[c]) /\ n \in Nat \ {0}
      BY <1>2, <1>5
    <2>2. frames[c][n] \in Spans /\ frames[c][n].at = "enact" /\ frames[c][n].calls # <<>>
          /\ Len(frames[c][n].origin) >= n
          /\ \A m \in DOMAIN pool : frames[c][n].inst = <<m>> => frames[c][n].agent = pool[m]
      BY <1>2, <2>1 DEF Stacked
    <2>3. g \in Spans
      BY <2>2, SpanEdits
    <2>4. /\ g.at = "enact" /\ g.origin = frames[c][n].origin
          /\ g.agent = frames[c][n].agent /\ g.inst = frames[c][n].inst
      BY <2>2 DEF Answered, Spans
    <2> HIDE DEF g
    <2>5. /\ SubSeq(frames[c], 1, n - 1) \in Seq(Spans)
          /\ Len(SubSeq(frames[c], 1, n - 1)) = n - 1
          /\ \A i \in 1 .. n - 1 : SubSeq(frames[c], 1, n - 1)[i] = frames[c][i]
      <3>1. 1 \in 1 .. Len(frames[c]) + 1 /\ n - 1 \in 0 .. Len(frames[c]) /\ n - 1 \in Nat
        BY <1>2, <2>1
      <3>2. SubSeq(frames[c], 1, n - 1) = [i \in 1 .. n - 1 |-> frames[c][i]]
        BY <1>2, <3>1
      <3>3. \A i \in 1 .. n - 1 : frames[c][i] \in Spans
        BY <1>2, <2>1
      <3> HIDE DEF n
      <3> QED BY <3>1, <3>2, <3>3
    <2> DEFINE low == SubSeq(frames[c], 1, n - 1)
    <2> HIDE DEF low
    <2>6. /\ s \in Seq(Spans) /\ Len(s) = n /\ s[n] = g /\ s # <<>>
          /\ \A i \in 1 .. n - 1 : s[i] = frames[c][i]
      <3>1. low \in Seq(Spans) /\ Len(low) = n - 1 /\ \A i \in 1 .. n - 1 : low[i] = frames[c][i]
        BY <2>5 DEF low
      <3>2. s = Append(low, g)
        BY DEF low
      <3> HIDE DEF n, s
      <3> QED BY <2>1, <2>3, <3>1, <3>2
    <2>7. frames' = [frames EXCEPT ![c] = s]
      <3>1. Depth(c) - 2 = n - 1 /\ Depth(c) - 1 = n
        BY <1>2
      <3> QED BY <1>5, <3>1 DEF g
    <2> HIDE DEF s
    <2>8. Stacked(pool, s)
      <3> SUFFICES ASSUME NEW i \in 1 .. Len(s)
                   PROVE  /\ Len(s[i].origin) >= i
                          /\ i < Len(s) => s[i].at = "enact" /\ s[i].calls # <<>>
                          /\ \A m \in DOMAIN pool : s[i].inst = <<m>> => s[i].agent = pool[m]
        BY DEF Stacked
      <3>1. CASE i = n
        BY <2>2, <2>4, <2>6, <3>1
      <3>2. CASE i # n
        <4>1. i \in 1 .. n - 1 /\ s[i] = frames[c][i] /\ i \in 1 .. Len(frames[c]) /\ i < Len(frames[c])
          BY <1>2, <2>1, <2>6, <3>2
        <4> QED BY <1>2, <4>1 DEF Stacked
      <3> QED BY <3>1, <3>2
    <2>9. used' \in [Instances -> Nat]
      BY <1>2, <1>5, DroppedType
    <2> QED BY <1>1, <1>3, <1>5, <2>4, <2>6, <2>7, <2>8, <2>9, SpansReplaced
  <1>6. CASE /\ used' = Dropped(c, Depth(c))
             /\ frames' = [frames EXCEPT ![c] = <<>>]
             /\ req' = [req EXCEPT ![c].at = IF req[c].stream THEN "ran" ELSE "answered",
                                   ![c].end = EndName(Top(c).ends), ![c].said = Top(c).said]
    <2> DEFINE r == [req[c] EXCEPT !.at = IF req[c].stream THEN "ran" ELSE "answered",
                                   !.end = EndName(Top(c).ends), !.said = Top(c).said]
    <2>1. req[c] \in Requests({"running", "ran", "answered", "closed"})
      BY <1>1 DEF TypeOK, Running, NoRequest
    <2>2. EndName(Top(c).ends) \in {"step_limit", "achieved", "abandoned"} /\ Top(c).said \in Nat
      BY <1>2 DEF EndName, Spans
    <2>3. r \in Requests({"ran", "answered", "closed"})
      BY <2>1, <2>2 DEF Requests
    <2>4. req' = [req EXCEPT ![c] = r]
      BY <1>6, <2>1 DEF TypeOK
    <2> HIDE DEF r
    <2>5. used' \in [Instances -> Nat] /\ LlmTypeOK'
      BY <1>1, <1>2, <1>6, DroppedType DEF LlmTypeOK
    <2> QED BY <1>1, <1>3, <1>6, <2>3, <2>4, <2>5, EndKeeps
  <1> QED BY <1>4, <1>5, <1>6 DEF StepEnds

\* A stream takes a token or its end.
LEMMA StreamKeeps ==
    ASSUME GatewayInv, NEW c \in Clients, StreamToken(c) \/ StreamDone(c)
    PROVE  GatewayInv'
  <1> USE DEF GatewayInv
  <1> DEFINE Later == Requests({"running", "ran", "answered", "closed"})
  <1>1. /\ req \in [Clients -> {NoRequest} \cup Later] /\ req[c].at \in {"running", "ran"}
        /\ chan \in [Clients -> Seq(Nat)] /\ sse \in [Clients -> Seq(Nat)]
        /\ UNCHANGED <<server, dir, held, pool, counted, frames, used, call>>
    BY DEF StreamToken, StreamDone, TypeOK
  <1>2. chan' \in [Clients -> Seq(Nat)] /\ sse' \in [Clients -> Seq(Nat)]
    <2>1. CASE StreamToken(c)
      <3>1. Append(sse[c], Head(chan[c])) \in Seq(Nat) /\ Tail(chan[c]) \in Seq(Nat)
        BY <1>1, <2>1 DEF StreamToken
      <3> QED BY <1>1, <2>1, <3>1 DEF StreamToken
    <2>2. CASE StreamDone(c)
      <3>1. Append(sse[c], Done) \in Seq(Nat)
        BY <1>1 DEF Done
      <3> QED BY <1>1, <2>2, <3>1 DEF StreamDone
    <2> QED BY <2>1, <2>2
  <1>3. /\ req' \in [Clients -> {NoRequest} \cup Later]
        /\ \A d \in Clients : /\ req'[d].at = "running" <=> req[d].at = "running"
                              /\ req'[d].at = "idle" <=> req[d].at = "idle"
    <2>1. CASE UNCHANGED req
      BY <1>1, <2>1
    <2>2. CASE req[c].at = "ran" /\ req' = [req EXCEPT ![c].at = "answered"]
      <3> DEFINE r == [req[c] EXCEPT !.at = "answered"]
      <3>1. req[c] \in Later
        BY <1>1 DEF NoRequest
      <3>2. r \in Later /\ r.at = "answered"
        BY <3>1 DEF Requests
      <3>3. req' = [req EXCEPT ![c] = r]
        BY <1>1, <2>2
      <3> HIDE DEF r, Later
      <3> QED BY <1>1, <2>2, <3>2, <3>3
    <2> QED BY <2>1, <2>2 DEF StreamToken, StreamDone
  <1>4. \A d \in Clients : Top(d)' = Top(d) /\ (Running(d)' <=> Running(d))
    BY <1>1, <1>3 DEF Top, Depth, Running
  <1>5. TypeOK'
    BY <1>1, <1>2, <1>3, <1>4, SpansStay DEF TypeOK, LlmTypeOK
  <1>6. Nested' /\ CountedOnce'
    <2>1. Came' = Came
      BY <1>3 DEF Came
    <2> QED BY <1>1, <2>1 DEF Nested, CountedOnce
  <1> QED BY <1>5, <1>6

\* The run panics, or its client goes.
LEMMA GoneKeeps ==
    ASSUME GatewayInv, NEW c \in Clients, Panic(c) \/ Disconnect(c)
    PROVE  GatewayInv'
  <1> USE DEF GatewayInv
  <1>1. /\ Running(c) /\ Drop(c) /\ used' = Dropped(c, 1) /\ LlmTypeOK
        /\ frames' = [frames EXCEPT ![c] = <<>>]
        /\ UNCHANGED <<server, dir, held, pool, counted, chan, sse>>
    BY DEF Panic, Disconnect, TypeOK
  <1>2. req[c] \in Requests({"running", "ran", "answered", "closed"})
    BY <1>1 DEF TypeOK, Running, NoRequest
  <1>3. PICK r \in Requests({"ran", "answered", "closed"}) : req' = [req EXCEPT ![c] = r]
    <2>1. CASE Panic(c)
      <3> DEFINE r == [req[c] EXCEPT !.at = IF req[c].stream THEN "ran" ELSE "closed", !.end = "unknown"]
      <3>1. r \in Requests({"ran", "answered", "closed"})
        BY <1>2 DEF Requests
      <3>2. req' = [req EXCEPT ![c] = r]
        BY <1>2, <2>1 DEF Panic, TypeOK
      <3> HIDE DEF r
      <3> QED BY <3>1, <3>2
    <2>2. CASE Disconnect(c)
      <3> DEFINE r == [req[c] EXCEPT !.at = "closed"]
      <3>1. r \in Requests({"ran", "answered", "closed"})
        BY <1>2 DEF Requests
      <3>2. req' = [req EXCEPT ![c] = r]
        BY <1>2, <2>2 DEF Disconnect, TypeOK
      <3> HIDE DEF r
      <3> QED BY <3>1, <3>2
    <2> QED BY <2>1, <2>2
  <1>4. LlmTypeOK' /\ call'[c] = NoCall /\ \A d \in Clients \ {c} : call'[d] = call[d]
    BY <1>1, CallSteps, DroppedType DEF LlmTypeOK
  <1> QED BY <1>1, <1>3, <1>4, EndKeeps

\* Every action keeps the types.
LEMMA GatewayTypesKeep == GatewayInv /\ [Next]_vars => GatewayInv'
  <1> SUFFICES ASSUME GatewayInv, [Next]_vars PROVE GatewayInv'
    OBVIOUS
  <1>1. ASSUME UNCHANGED vars PROVE GatewayInv'
    <2>1. \A d \in Clients : Top(d)' = Top(d) /\ (Running(d)' <=> Running(d))
      BY <1>1 DEF vars, Top, Depth, Running
    <2> QED BY <1>1, <2>1, SpansStay
            DEF GatewayInv, vars, TypeOK, Nested, CountedOnce, Came, LlmTypeOK
  <1> QED BY <1>1, LoadKeeps, EditKeeps, RefuseKeeps, AcceptsKeep, ProviderKeeps, EnactKeeps, DelegateKeeps,
             StepEndsKeeps, StreamKeeps, GoneKeeps DEF Next, Step

LEMMA GatewayStarts == Init => GatewayInv
  <1> SUFFICES ASSUME Init PROVE GatewayInv
    OBVIOUS
  <1>1. \A c \in Clients : frames[c] = <<>> /\ req[c] = NoRequest /\ ~Running(c)
    BY DEF Init, NoRequest, Running
  <1>2. LlmTypeOK /\ \A c \in Clients : call[c] = NoCall
    BY GatewayConstants DEF Init, LlmInit, LlmTypeOK
  <1>3. TypeOK
    <2>1. dir \in Dirs /\ Range(dir) \subseteq held /\ held \subseteq Manifests
      BY DEF Init, Manifests
    <2>2. /\ pool \in [DOMAIN pool -> {Assembled(m, Global) : m \in held}]
          /\ DOMAIN pool = {} /\ pool = NoTable
      BY DEF Init, NoTable
    <2> QED BY <1>1, <1>2, <2>1, <2>2, CountFacts DEF Init, TypeOK
  <1>4. Stacked(pool, <<>>)
    BY DEF Stacked
  <1> QED BY <1>1, <1>3, <1>4, CountFacts DEF GatewayInv, Nested, CountedOnce, Init

\* The types of the gateway's requests, spans, streams and provider calls: a
\* client runs a span or none, waits for its provider in at most one call, and
\* a delegated span has one of the providers the delegation limit allows.
THEOREM GatewayTypes == Spec => []TypeOK
  <1>1. Spec => []GatewayInv
    BY GatewayStarts, GatewayTypesKeep, PTL DEF Spec
  <1>2. GatewayInv => TypeOK
    BY DEF GatewayInv
  <1> QED BY <1>1, <1>2, PTL

-----------------------------------------------------------------------------
\* A capability that a span may execute is one its manifest declares.
LEMMA PermittedIsDeclared ==
    ASSUME NEW m, NEW g, NEW cap, cap \in Assembled(m, g).caps,
           \E p \in Assembled(m, g).grants : IsPrefix(p, cap)
    PROVE  /\ Head(cap) \in Range(m.enable)
           /\ Head(cap) \in DOMAIN m.grant /\ m.grant[Head(cap)]
  <1>1. PICK i \in DOMAIN m.enable : cap \in Provided(m.enable[i])
    BY AssembledFields
  <1>2. PICK v : cap = <<m.enable[i], v>>
    BY <1>1 DEF Provided
  <1>3. Head(cap) = m.enable[i] /\ cap[1] = m.enable[i]
    BY <1>2
  <1>4. PICK p \in GrantedPrefixes(m) : IsPrefix(p, cap)
    BY AssembledFields
  <1>5. PICK f \in DOMAIN m.grant : m.grant[f] /\ p = <<f>>
    BY <1>4 DEF GrantedPrefixes
  <1>6. SubSeq(<<f>>, 1, 1)[1] = f /\ SubSeq(cap, 1, 1)[1] = cap[1]
    <2>1. SubSeq(<<f>>, 1, 1) = [j \in 1 .. 1 |-> <<f>>[j]]
          /\ SubSeq(cap, 1, 1) = [j \in 1 .. 1 |-> cap[j]]
      BY <1>2
    <2> QED BY <2>1
  <1>7. f = cap[1]
    <2>1. Len(<<f>>) = 1
      OBVIOUS
    <2>2. SubSeq(<<f>>, 1, 1) = SubSeq(cap, 1, 1)
      BY <1>4, <1>5, <2>1 DEF IsPrefix
    <2> QED BY <1>6, <2>2
  <1>8. m.enable[i] \in Range(m.enable)
    BY DEF Range
  <1> QED BY <1>3, <1>5, <1>7, <1>8

\* Every action keeps the effects declared.
LEMMA EffectsKeep == TypeOK /\ EffectsAreDeclared /\ [Next]_vars => EffectsAreDeclared'
  <1> SUFFICES ASSUME TypeOK, EffectsAreDeclared, [Next]_vars PROVE EffectsAreDeclared'
    OBVIOUS
  <1>1. CASE effects' = effects /\ held' = held
    BY <1>1 DEF EffectsAreDeclared
  <1>2. ASSUME NEW c \in Clients, CallEffect(c) PROVE EffectsAreDeclared'
    <2> DEFINE e == [agent |-> Agent(c).name, origin |-> Top(c).origin, cap |-> Head(Top(c).calls)]
    <2>1. effects' = effects \cup {e} /\ held' = held /\ frames[c] # <<>> /\ Permitted(Top(c))
      BY <1>2 DEF CallEffect, Calling
    <2>2. Agent(c) \in Agents /\ Agent(c) = Top(c).agent
      BY <2>1, TopFacts DEF Agent, Spans
    <2>3. PICK m \in held, g \in {Global, NoTable} : Agent(c) = Assembled(m, g)
      BY <2>2 DEF Agents
    <2>4. /\ e.cap \in Agent(c).caps /\ e.origin = Agent(c).origin
          /\ \E p \in Agent(c).grants : IsPrefix(p, e.cap)
      BY <2>1, <2>2 DEF Permitted, Allows
    <2>5. e.agent = m.name /\ e.origin = Origin(m)
      BY <2>3, <2>4, AssembledFields
    <2>6. /\ Head(e.cap) \in Range(m.enable)
          /\ Head(e.cap) \in DOMAIN m.grant /\ m.grant[Head(e.cap)]
      BY <2>3, <2>4, PermittedIsDeclared
    <2> HIDE DEF e
    <2> QED BY <2>1, <2>5, <2>6 DEF EffectsAreDeclared
  <1>3. CASE UNCHANGED vars
    BY <1>1, <1>3 DEF vars
  <1>4. CASE Load
    BY <1>1, <1>4 DEF Load
  <1>5. ASSUME NEW c \in Clients, Refuse(c) \/ AcceptChat(c) \/ AcceptGoals(c) \/ AcceptDelegate(c)
        PROVE  effects' = effects /\ held' = held
    BY <1>5 DEF Refuse, AcceptChat, AcceptGoals, AcceptDelegate, Accept
  <1>6. ASSUME NEW c \in Clients,
               \/ DecideLocally(c) \/ DecideLlm(c) \/ LlmRetry(c) \/ LlmFail(c) \/ LlmAnswer(c)
               \/ Express(c) \/ CallFails(c) \/ CallDelegate(c) \/ StepEnds(c)
               \/ StreamToken(c) \/ StreamDone(c) \/ Panic(c) \/ Disconnect(c)
        PROVE  effects' = effects /\ held' = held
    BY <1>6 DEF DecideLocally, DecideLlm, LlmRetry, LlmFail, LlmAnswer, Express, CallFails,
                CallDelegate, StepEnds, StreamToken, StreamDone, Panic, Disconnect
  <1>7. CASE Edit
    BY <1>7 DEF Edit, EffectsAreDeclared
  <1> QED BY <1>1, <1>2, <1>3, <1>4, <1>5, <1>6, <1>7 DEF Next, Step

\* Whatever models answer, however agents delegate and however the files change,
\* an effect is one that a manifest some file has held enables and grants, under
\* that manifest's origin.
THEOREM EffectsStayDeclared == Spec => []EffectsAreDeclared
  <1>1. Init => EffectsAreDeclared
    BY DEF Init, EffectsAreDeclared
  <1> QED BY <1>1, EffectsKeep, GatewayTypes, PTL DEF Spec

-----------------------------------------------------------------------------
(* The token budget.                                                       *)

\* The calls in flight on the provider of a pool agent.
Flying(n) == {c \in Clients : call[c] # NoCall /\ call[c].inst = <<n>>}

\* What they may still report counts against the bound.
BudgetInv ==
    /\ server = "loading" => \A i \in Instances : used[i] = 0
    /\ \A n \in DOMAIN pool : \A budget \in pool[n].budget :
          used[<<n>>] + Cardinality(Flying(n)) * Max(Costs) < budget + Cardinality(Clients) * Max(Costs)

LEMMA MaxCost ==
    Max(Costs) \in Nat \ {0} /\ \A n \in Costs : n <= Max(Costs)
  <1>1. PICK m \in Costs \ {0} : \A n \in Costs : n <= m
    BY GatewayConstants
  <1>2. Costs \subseteq Nat
    BY GatewayConstants
  <1>3. m \in Costs /\ \A n \in Costs : m >= n
    BY <1>1, <1>2
  <1>4. Max(Costs) \in Costs /\ \A n \in Costs : Max(Costs) >= n
    BY <1>3 DEF Max
  <1>5. m \in Nat /\ m # 0 /\ Max(Costs) \in Nat /\ Max(Costs) >= m
    BY <1>1, <1>2, <1>4
  <1>6. \A n \in Costs : n \in Nat /\ n <= Max(Costs)
    BY <1>2, <1>4, <1>5
  <1> QED BY <1>5, <1>6

LEMMA FlyingFacts ==
    ASSUME NEW n
    PROVE  /\ IsFiniteSet(Flying(n)) /\ Cardinality(Flying(n)) \in 0 .. Cardinality(Clients)
           /\ Cardinality(Clients) \in Nat \ {0}
  <1>1. IsFiniteSet(Clients) /\ Clients # {} /\ Flying(n) \subseteq Clients
    BY GatewayConstants DEF Flying
  <1>2. Cardinality(Clients) \in Nat /\ Cardinality(Clients) # 0
    BY <1>1, FS_CardinalityType, FS_EmptySet
  <1>3. IsFiniteSet(Flying(n)) /\ Cardinality(Flying(n)) <= Cardinality(Clients)
    BY <1>1, FS_Subset
  <1> QED BY <1>2, <1>3, FS_CardinalityType

LEMMA Products ==
    ASSUME NEW j \in Nat, NEW k \in Nat, NEW m \in Nat
    PROVE  /\ j * m \in Nat /\ k * m \in Nat
           /\ j <= k => j * m <= k * m
           /\ j + 1 <= k => j * m + m <= k * m
  OBVIOUS

LEMMA PoolBudgets ==
    ASSUME GatewayInv, NEW n \in DOMAIN pool
    PROVE  <<n>> \in Instances /\ pool[n].budget \subseteq Nat /\ used[<<n>>] \in Nat
  <1>1. held \subseteq Manifests /\ used \in [Instances -> Nat]
    BY DEF GatewayInv, TypeOK, LlmTypeOK
  <1>2. pool[n] \in Agents /\ <<n>> \in Instances
    BY Pooled DEF GatewayInv, TypeOK
  <1> QED BY <1>1, <1>2, AgentFacts

\* How a step may change what a provider has used and has in flight: calls end
\* without a report, one reports its cost, or one starts within the budget.
UsedStep(n) ==
    \/ used'[<<n>>] = used[<<n>>] /\ Flying(n)' \subseteq Flying(n)
    \/ \E c \in Flying(n), cost \in Costs :
          used'[<<n>>] = used[<<n>>] + cost /\ Flying(n)' = Flying(n) \ {c}
    \/ used'[<<n>>] = used[<<n>>] /\ \A budget \in pool[n].budget : used[<<n>>] < budget

LEMMA BudgetStep ==
    ASSUME GatewayInv, BudgetInv, pool' = pool, NEW n \in DOMAIN pool, UsedStep(n),
           NEW budget \in pool[n].budget
    PROVE  used'[<<n>>] + Cardinality(Flying(n)') * Max(Costs)
              < budget + Cardinality(Clients) * Max(Costs)
  <1> DEFINE u == used[<<n>>]
             k == Cardinality(Flying(n))
             l == Cardinality(Flying(n)')
             N == Cardinality(Clients)
             m == Max(Costs)
  <1>1. u \in Nat /\ budget \in Nat /\ u + k * m < budget + N * m
    BY PoolBudgets DEF BudgetInv
  <1>2. m \in Nat \ {0} /\ \A cost \in Costs : cost \in Nat /\ cost <= m
    BY MaxCost, GatewayConstants
  <1>3. IsFiniteSet(Flying(n)) /\ k \in 0 .. N /\ N \in Nat
    BY FlyingFacts
  <1>4. l \in 0 .. N
    <2>1. Flying(n)' \subseteq Clients
      BY DEF Flying
    <2> QED BY <2>1, GatewayConstants, FS_Subset, FS_CardinalityType
  <1>5. CASE used'[<<n>>] = u /\ Flying(n)' \subseteq Flying(n)
    <2>1. l <= k
      BY <1>3, <1>5, FS_Subset
    <2> HIDE DEF u, k, l, N, m
    <2>2. l * m <= k * m /\ l * m \in Nat /\ k * m \in Nat /\ N * m \in Nat
      BY <1>2, <1>3, <1>4, <2>1, Products
    <2> QED BY <1>1, <1>5, <2>2 DEF l, N, m
  <1>6. ASSUME NEW c \in Flying(n), NEW cost \in Costs,
               used'[<<n>>] = u + cost, Flying(n)' = Flying(n) \ {c}
        PROVE  used'[<<n>>] + l * m < budget + N * m
    <2>1. l + 1 = k
      <3>1. IsFiniteSet(Flying(n)') /\ c \notin Flying(n)' /\ Flying(n) = Flying(n)' \cup {c}
        BY <1>3, <1>6, FS_Subset
      <3> QED BY <1>4, <3>1, FS_AddElement
    <2> HIDE DEF u, k, l, N, m
    <2>2. l * m + m <= k * m /\ l * m \in Nat /\ k * m \in Nat /\ N * m \in Nat
      BY <1>2, <1>3, <1>4, <2>1, Products
    <2> QED BY <1>1, <1>2, <1>6, <2>2
  <1>7. CASE used'[<<n>>] = u /\ \A b \in pool[n].budget : u < b
    <2>1. u < budget
      BY <1>7
    <2> HIDE DEF u, k, l, N, m
    <2>2. l * m <= N * m /\ l * m \in Nat /\ N * m \in Nat
      BY <1>2, <1>3, <1>4, Products
    <2> QED BY <1>1, <1>7, <2>1, <2>2 DEF l, N, m
  <1> QED BY <1>5, <1>6, <1>7 DEF UsedStep

\* Calls of one client that go leave less in flight.
LEMMA FewerFly ==
    ASSUME NEW c \in Clients, NEW n, call'[c] = NoCall,
           \A d \in Clients \ {c} : call'[d] = call[d]
    PROVE  Flying(n)' = Flying(n) \ {c}
  BY DEF Flying

\* Every action but the loading keeps within the bound.
LEMMA UsedSteps ==
    ASSUME GatewayInv, [Next]_vars, ~Load, NEW n \in DOMAIN pool
    PROVE  UsedStep(n)
  <1> USE DEF GatewayInv
  <1>1. TypeOK /\ LlmTypeOK
    BY DEF TypeOK
  <1>2. <<n>> \in Instances /\ pool[n].budget \subseteq Nat /\ used[<<n>>] \in Nat
    BY PoolBudgets
  <1>3. CASE UNCHANGED llmVars
    BY <1>3 DEF UsedStep, llmVars, Flying
  <1>4. ASSUME NEW c \in Clients, DecideLlm(c) PROVE UsedStep(n)
    <2>1. CASE UNCHANGED llmVars
      BY <1>3, <2>1
    <2>2. CASE /\ ~Exhausted(Top(c).inst, Agent(c).budget)
               /\ BeginCall(c, Top(c).inst)
      <3>1. frames[c] # <<>> /\ Top(c).at = "decide" /\ call[c] = NoCall
        BY <1>4, CallAndStage DEF DecideLlm
      <3>2. Top(c) \in Spans /\ Top(c).inst \in Instances /\ Agent(c) = Top(c).agent
        BY <3>1, TopFacts DEF Spans, Agent
      <3>3. /\ used' = used /\ call'[c].inst = Top(c).inst
            /\ \A d \in Clients \ {c} : call'[d] = call[d]
        BY <1>1, <2>2, GatewayConstants DEF BeginCall, LlmTypeOK
      <3>4. CASE Top(c).inst = <<n>>
        <4>1. Agent(c) = pool[n]
          <5>1. Stacked(pool, frames[c]) /\ Top(c) = frames[c][Len(frames[c])]
                /\ Len(frames[c]) \in 1 .. Len(frames[c])
            BY <3>1, TopFacts DEF Nested
          <5> QED BY <3>2, <3>4, <5>1 DEF Stacked
        <4>2. \A budget \in pool[n].budget : used[<<n>>] < budget
          BY <1>2, <2>2, <3>4, <4>1 DEF Exhausted
        <4> QED BY <3>3, <4>2 DEF UsedStep
      <3>5. CASE Top(c).inst # <<n>>
        <4>1. Flying(n)' \subseteq Flying(n)
          BY <3>3, <3>5 DEF Flying
        <4> QED BY <3>3, <4>1 DEF UsedStep
      <3> QED BY <3>4, <3>5
    <2> QED BY <1>4, <2>1, <2>2 DEF DecideLlm
  <1>5. ASSUME NEW c \in Clients, LlmRetry(c) PROVE UsedStep(n)
    <2>1. PICK s : Retry(c, s)
      BY <1>5 DEF LlmRetry
    <2>2. /\ used' = used /\ \A d \in Clients \ {c} : call'[d] = call[d]
      BY <1>1, <2>1, CallSteps DEF Retry
    <2>3. call[c] # NoCall /\ call'[c].inst = call[c].inst
      <3>1. call[c] # NoCall /\ call[c] \in [at: {"post"}, inst: Instances, attempt: 0 .. MaxRetries,
                                             last: Refusals \cup {"none"}]
        BY <1>1, <1>5, GatewayConstants DEF LlmRetry, LlmTypeOK
      <3> QED BY <1>1, <2>1, <3>1, GatewayConstants DEF Retry, LlmTypeOK
    <2>4. Flying(n)' \subseteq Flying(n)
      BY <2>2, <2>3 DEF Flying
    <2> QED BY <2>2, <2>4 DEF UsedStep
  <1>6. ASSUME NEW c \in Clients, LlmFail(c) PROVE UsedStep(n)
    <2>1. PICK s : Fail(c, s)
      BY <1>6 DEF LlmFail
    <2>2. /\ used' = used /\ call'[c] = NoCall /\ \A d \in Clients \ {c} : call'[d] = call[d]
      BY <1>1, <2>1, CallSteps DEF Fail
    <2> QED BY <2>2, FewerFly DEF UsedStep
  <1>7. ASSUME NEW c \in Clients, LlmAnswer(c) PROVE UsedStep(n)
    <2>1. PICK cost \in Costs : Answer(c, cost)
      BY <1>7 DEF LlmAnswer
    <2>2. /\ call'[c] = NoCall /\ \A d \in Clients \ {c} : call'[d] = call[d]
          /\ Flying(n)' = Flying(n) \ {c}
      BY <1>1, <2>1, CallSteps, FewerFly
    <2>3. call[c] # NoCall /\ used' = [used EXCEPT ![call[c].inst] = @ + cost]
      BY <2>1 DEF Answer, NoCall
    <2>4. CASE call[c].inst = <<n>>
      <3>1. c \in Flying(n) /\ used'[<<n>>] = used[<<n>>] + cost
        BY <1>1, <1>2, <2>3, <2>4 DEF Flying, LlmTypeOK
      <3> QED BY <2>2, <3>1 DEF UsedStep
    <2>5. CASE call[c].inst # <<n>>
      BY <1>1, <1>2, <2>2, <2>3, <2>5 DEF UsedStep, LlmTypeOK
    <2> QED BY <2>4, <2>5
  <1>8. ASSUME NEW c \in Clients, NEW depth, used' = Dropped(c, depth)
        PROVE  used'[<<n>>] = used[<<n>>]
    BY <1>2, <1>8 DEF Dropped
  <1>9. ASSUME NEW c \in Clients, StepEnds(c) PROVE UsedStep(n)
    <2>1. call' = call /\ (used' = used \/ used' = Dropped(c, Depth(c)))
      BY <1>9 DEF StepEnds
    <2> QED BY <1>8, <2>1 DEF UsedStep, Flying
  <1>10. ASSUME NEW c \in Clients, Panic(c) \/ Disconnect(c) PROVE UsedStep(n)
    <2>1. used' = Dropped(c, 1) /\ Drop(c)
      BY <1>10 DEF Panic, Disconnect
    <2>2. call'[c] = NoCall /\ \A d \in Clients \ {c} : call'[d] = call[d]
      BY <1>1, <2>1, CallSteps
    <2> QED BY <1>8, <2>1, <2>2, FewerFly DEF UsedStep
  <1>11. ASSUME NEW c \in Clients, Refuse(c) \/ AcceptChat(c) \/ AcceptGoals(c) \/ AcceptDelegate(c)
         PROVE  UsedStep(n)
    <2>1. UNCHANGED llmVars
      BY <1>11 DEF Refuse, AcceptChat, AcceptGoals, AcceptDelegate, Accept, llmVars
    <2> QED BY <1>3, <2>1
  <1>12. ASSUME NEW c \in Clients,
                \/ DecideLocally(c) \/ Express(c) \/ CallFails(c) \/ CallEffect(c)
                \/ CallDelegate(c) \/ StreamToken(c) \/ StreamDone(c)
         PROVE  UsedStep(n)
    <2>1. UNCHANGED llmVars
      BY <1>12 DEF DecideLocally, Express, CallFails, CallEffect, CallDelegate, StreamToken,
                   StreamDone, llmVars
    <2> QED BY <1>3, <2>1
  <1>13. CASE Edit \/ UNCHANGED vars
    BY <1>3, <1>13 DEF Edit, vars, llmVars
  <1> QED BY <1>4, <1>5, <1>6, <1>7, <1>9, <1>10, <1>11, <1>12, <1>13 DEF Next, Step

\* Nothing is used, and nothing in flight, until the pool is there.
LEMMA LoadWithinBudget ==
    ASSUME GatewayInv, BudgetInv, Load PROVE BudgetInv'
  <1>1. /\ server = "loading" /\ TypeOK /\ server' # "loading"
        /\ UNCHANGED <<held, frames, used, call>>
    BY DEF Load, GatewayInv
  <1>2. \A i \in Instances : used[i] = 0
    BY <1>1 DEF BudgetInv
  <1>3. \A c \in Clients : call[c] = NoCall
    <2>1. \A c \in Clients : frames[c] = <<>>
      BY <1>1 DEF GatewayInv, Nested
    <2> QED BY <1>1, <2>1, CallAndStage
  <1>4. ASSUME NEW n \in DOMAIN pool', NEW budget \in pool'[n].budget
        PROVE  used'[<<n>>] + Cardinality(Flying(n)') * Max(Costs)
                  < budget + Cardinality(Clients) * Max(Costs)
    <2>1. PICK m \in held : pool'[n] = Assembled(m, Global) /\ pool'[n].name = n
      <3>1. /\ pool' \in [DOMAIN pool' -> {Assembled(m, Global) : m \in held}]
            /\ pool'[n].name = n
        BY <1>1, <1>4, LoadKeeps DEF GatewayInv, TypeOK
      <3> QED BY <1>4, <3>1
    <2>2. pool'[n] \in Agents /\ <<n>> \in Instances /\ held \subseteq Manifests
      <3>1. held \subseteq Manifests
        BY <1>1 DEF TypeOK
      <3>2. n = m.name
        BY <2>1, AssembledFields
      <3> QED BY <2>1, <3>1, <3>2, Made, Declared
    <2>3. budget \in Nat /\ used'[<<n>>] = 0
      BY <1>1, <1>2, <1>4, <2>2, AgentFacts
    <2>4. Flying(n)' = {}
      BY <1>1, <1>3 DEF Flying
    <2>5. Cardinality(Flying(n)') = 0 /\ Cardinality(Clients) \in Nat \ {0} /\ Max(Costs) \in Nat \ {0}
      BY <2>4, FS_EmptySet, FlyingFacts, MaxCost
    <2> DEFINE N == Cardinality(Clients)
               M == Max(Costs)
    <2> HIDE DEF N, M
    <2>6. 0 * M = 0 /\ N * M \in Nat /\ 0 + M <= N * M
      <3>1. 0 + 1 <= N /\ N \in Nat /\ M \in Nat /\ 0 \in Nat
        BY <2>5 DEF N, M
      <3>2. 0 * M + M <= N * M /\ N * M \in Nat
        BY <3>1, Products
      <3> QED BY <3>1, <3>2
    <2> QED BY <2>3, <2>5, <2>6 DEF N, M
  <1> QED BY <1>1, <1>4 DEF BudgetInv

LEMMA BudgetKeeps == GatewayInv /\ BudgetInv /\ [Next]_vars => BudgetInv'
  <1> SUFFICES ASSUME GatewayInv, BudgetInv, [Next]_vars, ~Load PROVE BudgetInv'
    BY LoadWithinBudget
  <1>1. server' = server /\ pool' = pool
    BY ZenonT(60) DEF Next, vars, Edit, Refuse, AcceptChat, AcceptGoals, AcceptDelegate, Accept, Step, DecideLocally,
           DecideLlm, LlmRetry, LlmFail, LlmAnswer, Express, CallFails, CallEffect, CallDelegate,
           StepEnds, StreamToken, StreamDone, Panic, Disconnect
  <1>2. CASE server = "loading"
    <2>1. \A c \in Clients : ~Running(c)
      BY <1>2, CallAndStage DEF GatewayInv, Nested
    <2>2. used' = used
      BY <1>2, <2>1, ZenonT(60) DEF Next, vars, Edit, Refuse, AcceptChat, AcceptGoals, AcceptDelegate, Accept, Step,
             DecideLocally, DecideLlm, LlmRetry, LlmFail, LlmAnswer, Express, CallFails, CallEffect,
             CallDelegate, StepEnds, StreamToken, StreamDone, Panic, Disconnect, Calling
    <2>3. DOMAIN pool' = {}
      BY <1>1, <1>2 DEF GatewayInv, TypeOK, NoTable
    <2> QED BY <1>1, <2>2, <2>3 DEF BudgetInv
  <1>3. CASE server # "loading"
    <2>1. ASSUME NEW n \in DOMAIN pool', NEW budget \in pool'[n].budget
          PROVE  used'[<<n>>] + Cardinality(Flying(n)') * Max(Costs)
                    < budget + Cardinality(Clients) * Max(Costs)
      <3>1. UsedStep(n)
        BY <1>1, UsedSteps
      <3> QED BY <1>1, <3>1, BudgetStep
    <2> QED BY <1>1, <1>3, <2>1 DEF BudgetInv
  <1> QED BY <1>2, <1>3

\* However many decides share a provider, its token budget is overrun by less
\* than one answer for each client: the calls in flight are those that started
\* while the budget lasted, at most one of each client.
THEOREM BudgetStaysBounded == Spec => []BudgetOverrunIsBounded
  <1>1. Init => BudgetInv
    BY DEF Init, LlmInit, BudgetInv, NoTable
  <1>2. Spec => [](GatewayInv /\ BudgetInv)
    BY <1>1, GatewayStarts, GatewayTypesKeep, BudgetKeeps, PTL DEF Spec
  <1>3. GatewayInv /\ BudgetInv => BudgetOverrunIsBounded
    <2> SUFFICES ASSUME GatewayInv, BudgetInv, NEW n \in DOMAIN pool, NEW budget \in pool[n].budget
                 PROVE  used[<<n>>] < budget + Cardinality(Clients) * Max(Costs)
      BY DEF BudgetOverrunIsBounded
    <2> DEFINE k == Cardinality(Flying(n))
               N == Cardinality(Clients)
               m == Max(Costs)
    <2>1. used[<<n>>] \in Nat /\ budget \in Nat /\ used[<<n>>] + k * m < budget + N * m
      BY PoolBudgets DEF BudgetInv
    <2>2. k \in Nat /\ N \in Nat /\ m \in Nat
      BY FlyingFacts, MaxCost
    <2> HIDE DEF k, N, m
    <2>3. k * m \in Nat /\ N * m \in Nat
      BY <2>2, Products
    <2> QED BY <2>1, <2>3 DEF N, m
  <1> QED BY <1>2, <1>3, PTL

-----------------------------------------------------------------------------
(* The streams.                                                            *)

\* The tokens sent are numbered from 1, and those still to be sent go on.
Tokens(sent, waiting) ==
    /\ \A i \in 1 .. Len(sent) : sent[i] = i
    /\ \A i \in 1 .. Len(waiting) : waiting[i] = Len(sent) + i

\* While a request runs and until its stream is done, all that its span has
\* said is sent or waits, unless the run came to nothing.
Streaming(r, said, sent, waiting) ==
    /\ Tokens(sent, waiting)
    /\ IF r.stream
       THEN /\ r.at = "running" => said = Len(sent) + Len(waiting)
            /\ r.at = "ran" /\ r.end # "unknown" => r.said = Len(sent) + Len(waiting)
       ELSE r.at = "running" /\ sent = <<>> /\ waiting = <<>>

\* What a stream that is done has told.
Told(r, sent) ==
    /\ Len(sent) > 0 /\ sent[Len(sent)] = Done
    /\ \A i \in 1 .. Len(sent) - 1 : sent[i] = i
    /\ r.end # "unknown" => Len(sent) - 1 = r.said

Telling(r, said, sent, waiting) ==
    /\ r.at = "idle" => sent = <<>> /\ waiting = <<>>
    /\ r.at \in {"running", "ran"} => Streaming(r, said, sent, waiting)
    /\ r.at = "answered" => sent = <<>> \/ Told(r, sent)
    /\ r.at = "closed" => sent = <<>>

Expressed(c) == frames[c][1].said
StreamInv == \A c \in Clients : Telling(req[c], Expressed(c), sse[c], chan[c])

\* The spans of a client, when a step replaces the top one.
LEMMA SaidStays ==
    ASSUME TypeOK, NEW c \in Clients, frames[c] # <<>>, NEW f \in Spans, SetTop(c, f),
           held' = held, f.said = Top(c).said
    PROVE  Expressed(c)' = Expressed(c) /\ \A d \in Clients \ {c} : frames'[d] = frames[d]
  <1>1. /\ Depth(c) \in Nat \ {0} /\ Depth(c) = Len(frames[c]) /\ Top(c) = frames[c][Depth(c)]
    BY TopFacts
  <1>2. /\ \A d \in Clients \ {c} : frames'[d] = frames[d]
        /\ \A i \in 1 .. Len(frames[c]) : frames'[c][i] = IF i = Depth(c) THEN f ELSE frames[c][i]
    BY TopReplaced
  <1>3. 1 \in 1 .. Len(frames[c])
    BY <1>1
  <1>4. frames'[c][1] = IF 1 = Depth(c) THEN f ELSE frames[c][1]
    BY <1>2, <1>3
  <1> QED BY <1>1, <1>2, <1>4 DEF Expressed

\* A step that tells nobody anything.
LEMMA QuietStep ==
    ASSUME StreamInv, NEW c \in Clients, UNCHANGED <<req, sse, chan>>,
           Expressed(c)' = Expressed(c), \A d \in Clients \ {c} : frames'[d] = frames[d]
    PROVE  StreamInv'
  <1>1. \A d \in Clients : Expressed(d)' = Expressed(d)
    BY DEF Expressed
  <1> QED BY <1>1 DEF StreamInv

\* A step that concerns one client.
LEMMA OneTold ==
    ASSUME StreamInv, NEW c \in Clients,
           \A d \in Clients \ {c} : /\ frames'[d] = frames[d] /\ req'[d] = req[d]
                                    /\ sse'[d] = sse[d] /\ chan'[d] = chan[d],
           Telling(req'[c], Expressed(c)', sse'[c], chan'[c])
    PROVE  StreamInv'
  <1>1. \A d \in Clients \ {c} : Expressed(d)' = Expressed(d)
    BY DEF Expressed
  <1> SUFFICES ASSUME NEW d \in Clients
               PROVE  Telling(req'[d], Expressed(d)', sse'[d], chan'[d])
    BY DEF StreamInv
  <1>2. CASE d = c
    BY <1>2
  <1>3. CASE d # c
    BY <1>1, <1>3 DEF StreamInv
  <1> QED BY <1>2, <1>3

\* A token follows what was said before.
LEMMA TokenWaits ==
    ASSUME NEW sent \in Seq(Nat), NEW waiting \in Seq(Nat), Tokens(sent, waiting),
           NEW said \in Nat, said = Len(sent) + Len(waiting)
    PROVE  /\ Tokens(sent, Append(waiting, said + 1))
           /\ said + 1 = Len(sent) + Len(Append(waiting, said + 1))
  <1> DEFINE w == Append(waiting, said + 1)
  <1>1. /\ Len(w) = Len(waiting) + 1 /\ w[Len(waiting) + 1] = said + 1
        /\ \A i \in 1 .. Len(waiting) : w[i] = waiting[i]
        /\ Len(waiting) \in Nat /\ Len(sent) \in Nat
    OBVIOUS
  <1> HIDE DEF w
  <1>2. ASSUME NEW i \in 1 .. Len(w) PROVE w[i] = Len(sent) + i
    <2>1. CASE i = Len(waiting) + 1
      BY <1>1, <2>1
    <2>2. CASE i # Len(waiting) + 1
      <3>1. i \in 1 .. Len(waiting)
        BY <1>1, <2>2
      <3> QED BY <1>1, <3>1 DEF Tokens
    <2> QED BY <2>1, <2>2
  <1> QED BY <1>1, <1>2, SMTT(30) DEF Tokens, w

\* The first token that waits is sent.
LEMMA TokenSent ==
    ASSUME NEW sent \in Seq(Nat), NEW waiting \in Seq(Nat), Tokens(sent, waiting), waiting # <<>>
    PROVE  /\ Tokens(Append(sent, Head(waiting)), Tail(waiting))
           /\ Len(Append(sent, Head(waiting))) + Len(Tail(waiting)) = Len(sent) + Len(waiting)
  <1> DEFINE s == Append(sent, Head(waiting))
             w == Tail(waiting)
  <1>1. Len(waiting) \in Nat \ {0} /\ Len(sent) \in Nat /\ Head(waiting) = waiting[1]
    OBVIOUS
  <1>2. Head(waiting) = Len(sent) + 1
    BY <1>1 DEF Tokens
  <1>3. /\ Len(s) = Len(sent) + 1 /\ s[Len(sent) + 1] = Head(waiting)
        /\ \A i \in 1 .. Len(sent) : s[i] = sent[i]
    OBVIOUS
  <1>4. Len(w) = Len(waiting) - 1 /\ \A i \in 1 .. Len(waiting) - 1 : w[i] = waiting[i + 1]
    BY <1>1
  <1> HIDE DEF s, w
  <1>5. ASSUME NEW i \in 1 .. Len(s) PROVE s[i] = i
    <2>1. CASE i = Len(sent) + 1
      BY <1>2, <1>3, <2>1
    <2>2. CASE i # Len(sent) + 1
      <3>1. i \in 1 .. Len(sent)
        BY <1>1, <1>3, <2>2
      <3> QED BY <1>3, <3>1 DEF Tokens
    <2> QED BY <2>1, <2>2
  <1>6. ASSUME NEW i \in 1 .. Len(w) PROVE w[i] = Len(s) + i
    <2>1. i \in 1 .. Len(waiting) - 1 /\ i + 1 \in 1 .. Len(waiting)
      BY <1>1, <1>4
    <2>2. waiting[i + 1] = Len(sent) + (i + 1)
      BY <2>1 DEF Tokens
    <2> QED BY <1>1, <1>3, <1>4, <2>1, <2>2
  <1>7. Tokens(s, w)
    BY <1>5, <1>6 DEF Tokens
  <1>8. Len(s) + Len(w) = Len(sent) + Len(waiting)
    BY <1>1, <1>3, <1>4
  <1> QED BY <1>7, <1>8 DEF s, w

\* What a request, its streams and its spans are.
LEMMA ClientTypes ==
    ASSUME TypeOK, NEW c \in Clients
    PROVE  /\ req \in [Clients -> {NoRequest} \cup Requests({"running", "ran", "answered", "closed"})]
           /\ frames \in [Clients -> Seq(Spans)]
           /\ chan \in [Clients -> Seq(Nat)] /\ sse \in [Clients -> Seq(Nat)]
           /\ req[c].at # "idle" => req[c] \in Requests({"running", "ran", "answered", "closed"})
           /\ req[c].at \in {"idle", "running", "ran", "answered", "closed"}
  <1>1. req \in [Clients -> {NoRequest} \cup Requests({"running", "ran", "answered", "closed"})]
    BY DEF TypeOK
  <1>2. req[c] = NoRequest \/ req[c] \in Requests({"running", "ran", "answered", "closed"})
    BY <1>1
  <1>3. req[c] \in Requests({"running", "ran", "answered", "closed"}) =>
           req[c].at \in {"running", "ran", "answered", "closed"}
    BY DEF Requests
  <1>4. NoRequest.at = "idle"
    BY DEF NoRequest
  <1> QED BY <1>1, <1>2, <1>3, <1>4 DEF TypeOK

\* A request that comes has been told nothing.
LEMMA ComingTold ==
    ASSUME TypeOK, StreamInv, NEW c \in Clients,
           Refuse(c) \/ AcceptChat(c) \/ AcceptGoals(c) \/ AcceptDelegate(c)
    PROVE  StreamInv'
  <1>1. /\ req[c].at = "idle" /\ UNCHANGED <<sse, chan>>
    BY DEF Refuse, AcceptChat, AcceptGoals, AcceptDelegate, Accept
  <1>2. /\ req \in [Clients -> {NoRequest} \cup Requests({"running", "ran", "answered", "closed"})]
        /\ frames \in [Clients -> Seq(Spans)]
    BY ClientTypes
  <1>3. sse[c] = <<>> /\ chan[c] = <<>>
    BY <1>1 DEF StreamInv, Telling
  <1>4. CASE Refuse(c)
    <2>1. PICK r \in Menu :
             req' = [req EXCEPT ![c] = [r EXCEPT !.at = "answered", !.status = StatusOf(r)]]
      BY <1>4 DEF Refuse
    <2> DEFINE q == [r EXCEPT !.at = "answered", !.status = StatusOf(r)]
    <2>5. q.at = "answered"
      BY GatewayConstants DEF Requests
    <2> HIDE DEF q
    <2>2. frames' = frames /\ req'[c].at = "answered" /\ \A d \in Clients \ {c} : req'[d] = req[d]
      BY <1>2, <1>4, <2>1, <2>5 DEF Refuse, q
    <2>3. Telling(req'[c], Expressed(c)', sse'[c], chan'[c])
      BY <1>1, <1>3, <2>2 DEF Telling
    <2> QED BY <1>1, <2>2, <2>3, OneTold
  <1>5. ASSUME NEW r \in Menu, NEW f, f.said = 0, Accept(c, r, f) PROVE StreamInv'
    <2>1. req'[c].at = "running" /\ \A d \in Clients \ {c} : req'[d] = req[d]
      BY <1>2, <1>5, GatewayConstants DEF Accept, Requests
    <2>2. frames'[c] = <<f>> /\ \A d \in Clients \ {c} : frames'[d] = frames[d]
      BY <1>2, <1>5 DEF Accept
    <2>3. Expressed(c)' = 0
      BY <1>5, <2>2 DEF Expressed
    <2>4. Telling(req'[c], Expressed(c)', sse'[c], chan'[c])
      BY <1>1, <1>3, <2>1, <2>3 DEF Telling, Streaming, Tokens
    <2> QED BY <1>1, <2>1, <2>2, <2>4, OneTold
  <1>6. \A agent, origin, inst : Frame(agent, origin, inst).said = 0
    BY DEF Frame
  <1>7. CASE AcceptChat(c) \/ AcceptGoals(c)
    <2>1. PICK r \in Menu : Accept(c, r, PoolFrame(r.agent))
      BY <1>7 DEF AcceptChat, AcceptGoals
    <2> QED BY <1>5, <1>6, <2>1 DEF PoolFrame
  <1>8. CASE AcceptDelegate(c)
    <2>1. PICK r \in Menu :
             Accept(c, r, Frame(AssembledFresh(dir[r.child]), Append(pool[r.agent].origin, r.child), <<c, 1>>))
      BY <1>8 DEF AcceptDelegate
    <2> QED BY <1>5, <1>6, <2>1
  <1> QED BY <1>4, <1>7, <1>8

\* A span that says nothing tells nothing.
LEMMA TakeQuiet ==
    ASSUME TypeOK, StreamInv, NEW c \in Clients, frames[c] # <<>>, NEW d,
           d.says \in BOOLEAN, d.calls \in Seq(Callable),
           d.ends \in {"no", "continue", "achieved", "abandoned"}, Take(c, d),
           UNCHANGED <<held, req, sse, chan>>
    PROVE  StreamInv'
  <1> DEFINE f == [Top(c) EXCEPT !.at = "enact", !.says = d.says, !.calls = d.calls, !.ends = d.ends]
  <1>1. Top(c) \in Spans
    BY TopFacts
  <1>2. f \in Spans
    BY <1>1, SpanEdits
  <1>3. f.said = Top(c).said
    BY <1>1 DEF Spans
  <1>4. SetTop(c, f)
    BY DEF Take
  <1> HIDE DEF f
  <1> QED BY <1>2, <1>3, <1>4, SaidStays, QuietStep

LEMMA ProviderQuiet ==
    ASSUME TypeOK, StreamInv, NEW c \in Clients,
           DecideLocally(c) \/ DecideLlm(c) \/ LlmRetry(c) \/ LlmFail(c) \/ LlmAnswer(c)
    PROVE  StreamInv'
  <1>1. LlmTypeOK /\ UNCHANGED <<held, req, sse, chan>>
    BY DEF TypeOK, DecideLocally, DecideLlm, LlmRetry, LlmFail, LlmAnswer
  <1>2. frames[c] # <<>>
    BY CallAndStage DEF DecideLocally, DecideLlm, LlmRetry, LlmFail, LlmAnswer, Answer
  <1>3. Top(c) \in Spans /\ Agent(c) \in Agents
    BY <1>2, TopFacts DEF Spans, Agent
  <1>4. CASE DecideLocally(c)
    <2>1. PICK d \in LocalDecisions(Agent(c).provider) : Take(c, d)
      BY <1>4 DEF DecideLocally
    <2>2. d.says \in BOOLEAN /\ d.calls \in Seq(Callable)
             /\ d.ends \in {"no", "continue", "achieved", "abandoned"}
      BY <1>3, Decisions
    <2> QED BY <1>1, <1>2, <2>1, <2>2, TakeQuiet
  <1>5. ASSUME Take(c, Abandoned) PROVE StreamInv'
    <2>1. Abandoned.says \in BOOLEAN /\ Abandoned.calls \in Seq(Callable)
             /\ Abandoned.ends \in {"no", "continue", "achieved", "abandoned"}
      BY Silent DEF Abandoned
    <2> QED BY <1>1, <1>2, <1>5, <2>1, TakeQuiet
  <1>6. CASE SetTop(c, [Top(c) EXCEPT !.at = "llm"])
    <2> DEFINE f == [Top(c) EXCEPT !.at = "llm"]
    <2>1. f \in Spans
      BY <1>3, SpanEdits
    <2>2. f.said = Top(c).said
      BY <1>3 DEF Spans
    <2> HIDE DEF f
    <2> QED BY <1>1, <1>2, <1>6, <2>1, <2>2, SaidStays, QuietStep DEF f
  <1>7. CASE LlmRetry(c)
    <2>1. frames' = frames
      BY <1>7 DEF LlmRetry
    <2> QED BY <1>1, <2>1, QuietStep DEF Expressed
  <1>8. CASE LlmAnswer(c)
    <2>1. PICK b \in Bodies :
             Take(c, IF Blocking(c) THEN InterpretAnthropic(b, ToolSchema(Agent(c).caps))
                     ELSE InterpretOpenAi(b, ToolSchema(Agent(c).caps)))
      BY <1>8 DEF LlmAnswer
    <2>2. PICK d : /\ d \in {InterpretOpenAi(b, ToolSchema(Agent(c).caps)),
                             InterpretAnthropic(b, ToolSchema(Agent(c).caps)), Abandoned}
                   /\ Take(c, d)
      BY <2>1
    <2>3. d.says \in BOOLEAN /\ d.calls \in Seq(Callable)
             /\ d.ends \in {"no", "continue", "achieved", "abandoned"}
      BY <1>3, <2>2, Decisions
    <2> QED BY <1>1, <1>2, <2>2, <2>3, TakeQuiet
  <1> QED BY <1>4, <1>5, <1>6, <1>7, <1>8 DEF DecideLlm, LlmFail

\* What the request's own span says is sent after what it said before.
LEMMA ExpressTells ==
    ASSUME TypeOK, StreamInv, NEW c \in Clients, Express(c)
    PROVE  StreamInv'
  <1> DEFINE f == [Top(c) EXCEPT !.says = FALSE, !.said = @ + 1]
             said == Top(c).said
  <1>1. /\ Running(c) /\ frames[c] # <<>> /\ SetTop(c, f) /\ UNCHANGED <<held, req, sse>>
        /\ chan' = IF req[c].stream /\ Depth(c) = 1
                   THEN [chan EXCEPT ![c] = Append(@, said + 1)] ELSE chan
    BY DEF Express
  <1>2. /\ Top(c) \in Spans /\ Depth(c) \in Nat \ {0} /\ Depth(c) = Len(frames[c])
        /\ Top(c) = frames[c][Depth(c)]
    BY <1>1, TopFacts
  <1>3. f \in Spans /\ f.said = said + 1 /\ said \in Nat
    <2>1. f \in Spans
      BY <1>2, SpanEdits
    <2>2. f.said = said + 1
      BY <1>2 DEF Spans
    <2>3. said \in Nat
      BY <1>2 DEF Spans
    <2> QED BY <2>1, <2>2, <2>3
  <1> HIDE DEF f, said
  <1>4. /\ \A d \in Clients \ {c} : frames'[d] = frames[d]
        /\ \A i \in 1 .. Len(frames[c]) : frames'[c][i] = IF i = Depth(c) THEN f ELSE frames[c][i]
    BY <1>1, <1>3, TopReplaced
  <1>5. frames'[c][1] = IF 1 = Depth(c) THEN f ELSE frames[c][1]
    <2>1. 1 \in 1 .. Len(frames[c])
      BY <1>2
    <2> QED BY <1>4, <2>1
  <1>6. /\ chan \in [Clients -> Seq(Nat)] /\ sse[c] \in Seq(Nat) /\ chan[c] \in Seq(Nat)
        /\ req[c].at = "running" /\ req[c] \in Requests({"running", "ran", "answered", "closed"})
    BY <1>1, ClientTypes DEF Running
  <1>7. Streaming(req[c], Expressed(c), sse[c], chan[c])
    BY <1>6 DEF StreamInv, Telling
  <1>8. CASE Depth(c) # 1
    <2>1. Expressed(c)' = Expressed(c) /\ chan' = chan
      BY <1>1, <1>5, <1>8 DEF Expressed
    <2> QED BY <1>1, <1>4, <2>1, QuietStep
  <1>9. CASE Depth(c) = 1 /\ ~req[c].stream
    <2>1. Expressed(c)' = said + 1 /\ chan' = chan
      BY <1>1, <1>3, <1>5, <1>9 DEF Expressed
    <2>2. Streaming(req'[c], Expressed(c)', sse'[c], chan'[c])
      BY <1>1, <1>7, <1>9, <2>1 DEF Streaming
    <2>3. Telling(req'[c], Expressed(c)', sse'[c], chan'[c])
      BY <1>1, <1>6, <2>2 DEF Telling
    <2> QED BY <1>1, <1>4, <2>1, <2>3, OneTold
  <1>10. CASE Depth(c) = 1 /\ req[c].stream
    <2>1. Expressed(c) = said /\ Expressed(c)' = said + 1
      BY <1>2, <1>3, <1>5, <1>10 DEF Expressed, said
    <2>2. /\ chan'[c] = Append(chan[c], said + 1)
          /\ \A d \in Clients \ {c} : chan'[d] = chan[d]
      BY <1>1, <1>6, <1>10
    <2>3. Tokens(sse[c], chan[c]) /\ said = Len(sse[c]) + Len(chan[c])
      BY <1>6, <1>7, <1>10, <2>1 DEF Streaming
    <2>4. /\ Tokens(sse[c], Append(chan[c], said + 1))
          /\ said + 1 = Len(sse[c]) + Len(Append(chan[c], said + 1))
      BY <1>3, <1>6, <2>3, TokenWaits
    <2>5. Streaming(req'[c], Expressed(c)', sse'[c], chan'[c])
      BY <1>1, <1>6, <1>10, <2>1, <2>2, <2>4 DEF Streaming
    <2>6. Telling(req'[c], Expressed(c)', sse'[c], chan'[c])
      BY <1>1, <1>6, <2>5 DEF Telling
    <2> QED BY <1>1, <1>4, <2>2, <2>6, OneTold
  <1> QED BY <1>8, <1>9, <1>10

\* A call, whether it fails, has its effect or delegates, tells nothing: what
\* a delegated span says is not streamed.
LEMMA CallQuiet ==
    ASSUME TypeOK, StreamInv, NEW c \in Clients, CallFails(c) \/ CallEffect(c) \/ CallDelegate(c)
    PROVE  StreamInv'
  <1>1. /\ frames[c] # <<>> /\ Top(c).calls # <<>> /\ UNCHANGED <<held, req, sse, chan>>
    BY DEF CallFails, CallEffect, CallDelegate, Calling
  <1>2. Top(c) \in Spans /\ frames \in [Clients -> Seq(Spans)] /\ Len(frames[c]) \in Nat \ {0}
    BY <1>1, TopFacts DEF TypeOK
  <1>3. CASE CallFails(c) \/ CallEffect(c)
    <2> DEFINE f == Answered(Top(c))
    <2>1. f \in Spans
      BY <1>1, <1>2, SpanEdits
    <2>2. f.said = Top(c).said
      BY <1>2 DEF Spans, Answered
    <2>3. SetTop(c, f)
      BY <1>3 DEF CallFails, CallEffect
    <2> HIDE DEF f
    <2> QED BY <1>1, <2>1, <2>2, <2>3, SaidStays, QuietStep
  <1>4. CASE CallDelegate(c)
    <2>1. PICK f : frames' = [frames EXCEPT ![c] = Append(@, f)]
      BY <1>4 DEF CallDelegate
    <2>2. Append(frames[c], f)[1] = frames[c][1]
      BY <1>2
    <2>3. Expressed(c)' = Expressed(c) /\ \A d \in Clients \ {c} : frames'[d] = frames[d]
      BY <1>2, <2>1, <2>2 DEF Expressed
    <2> QED BY <1>1, <2>3, QuietStep
  <1> QED BY <1>3, <1>4

\* The report says how much was said.
LEMMA StepEndsTells ==
    ASSUME TypeOK, StreamInv, NEW c \in Clients, StepEnds(c)
    PROVE  StreamInv'
  <1>1. /\ Running(c) /\ frames[c] # <<>> /\ UNCHANGED <<held, sse, chan>>
    BY DEF StepEnds
  <1>2. /\ Top(c) \in Spans /\ Depth(c) \in Nat \ {0} /\ Depth(c) = Len(frames[c])
        /\ Top(c) = frames[c][Depth(c)] /\ frames[c] \in Seq(Spans)
        /\ frames \in [Clients -> Seq(Spans)]
    BY <1>1, TopFacts DEF TypeOK
  <1>3. CASE /\ Top(c).ends = "no" /\ Top(c).step < MaxSteps
             /\ SetTop(c, [Top(c) EXCEPT !.at = "decide", !.step = @ + 1])
             /\ UNCHANGED <<req, used>>
    <2> DEFINE f == [Top(c) EXCEPT !.at = "decide", !.step = @ + 1]
    <2>1. f \in Spans
      BY <1>2, <1>3, SpanEdits
    <2>2. f.said = Top(c).said
      BY <1>2 DEF Spans
    <2> HIDE DEF f
    <2> QED BY <1>1, <1>3, <2>1, <2>2, SaidStays, QuietStep DEF f
  <1>4. CASE /\ Depth(c) > 1 /\ UNCHANGED req
             /\ frames' = [frames EXCEPT ![c] =
                   Append(SubSeq(@, 1, Depth(c) - 2), Answered(@[Depth(c) - 1]))]
    <2> DEFINE n == Depth(c) - 1
               low == SubSeq(frames[c], 1, Depth(c) - 2)
               g == Answered(frames[c][n])
    <2>1. n \in 1 .. Len(frames[c]) /\ frames[c][n] \in Spans
      BY <1>2, <1>4
    <2>2. g.said = frames[c][n].said
      BY <2>1 DEF Answered, Spans
    <2>3. low = [i \in 1 .. Depth(c) - 2 |-> frames[c][i]] /\ Len(low) = Depth(c) - 2
      BY <1>2, <1>4
    <2>4. low \in Seq(Spans \cup {g})
      <3>1. \A i \in 1 .. Depth(c) - 2 : frames[c][i] \in Spans
        BY <1>2, <1>4
      <3> HIDE DEF g
      <3> QED BY <1>2, <1>4, <2>3, <3>1
    <2>5. Append(low, g)[1] = IF Depth(c) = 2 THEN g ELSE low[1]
      <3>1. Len(low) = Depth(c) - 2 /\ Depth(c) \in Nat /\ Depth(c) > 1
        BY <1>2, <1>4, <2>3
      <3> HIDE DEF low, g
      <3> QED BY <2>4, <3>1
    <2>6. Append(low, g)[1].said = frames[c][1].said
      <3>1. CASE Depth(c) = 2
        BY <2>2, <2>5, <3>1
      <3>2. CASE Depth(c) # 2
        <4>1. 1 \in 1 .. Depth(c) - 2
          BY <1>2, <1>4, <3>2
        <4>2. low[1] = frames[c][1]
          BY <2>3, <4>1
        <4> QED BY <2>5, <3>2, <4>2
      <3> QED BY <3>1, <3>2
    <2>7. frames' = [frames EXCEPT ![c] = Append(low, g)]
      BY <1>4
    <2> HIDE DEF low, g
    <2>8. Expressed(c)' = Expressed(c) /\ \A d \in Clients \ {c} : frames'[d] = frames[d]
      BY <1>2, <2>6, <2>7 DEF Expressed
    <2> QED BY <1>1, <1>4, <2>8, QuietStep
  <1>5. CASE /\ ~(Depth(c) > 1)
             /\ frames' = [frames EXCEPT ![c] = <<>>]
             /\ req' = [req EXCEPT ![c].at = IF req[c].stream THEN "ran" ELSE "answered",
                                   ![c].end = EndName(Top(c).ends), ![c].said = Top(c).said]
    <2> DEFINE r == [req[c] EXCEPT !.at = IF req[c].stream THEN "ran" ELSE "answered",
                                   !.end = EndName(Top(c).ends), !.said = Top(c).said]
    <2>1. req[c] \in Requests({"running", "ran", "answered", "closed"}) /\ req[c].at = "running"
      BY <1>1, ClientTypes DEF Running
    <2>2. Top(c).said = Expressed(c)
      BY <1>2, <1>5 DEF Expressed
    <2>3. /\ r.stream = req[c].stream /\ r.said = Expressed(c)
          /\ r.at = IF req[c].stream THEN "ran" ELSE "answered"
      BY <2>1, <2>2 DEF Requests
    <2>4. req'[c] = r /\ \A d \in Clients \ {c} : req'[d] = req[d]
      BY <1>5, ClientTypes
    <2>5. \A d \in Clients \ {c} : frames'[d] = frames[d]
      BY <1>2, <1>5
    <2> HIDE DEF r
    <2>6. Streaming(req[c], Expressed(c), sse[c], chan[c])
      BY <2>1 DEF StreamInv, Telling
    <2>7. Telling(r, Expressed(c)', sse[c], chan[c])
      <3>1. CASE req[c].stream
        <4>1. Streaming(r, Expressed(c)', sse[c], chan[c])
          BY <2>1, <2>3, <2>6, <3>1 DEF Streaming
        <4> QED BY <2>3, <3>1, <4>1 DEF Telling
      <3>2. CASE ~req[c].stream
        <4>1. sse[c] = <<>>
          BY <2>6, <3>2 DEF Streaming
        <4> QED BY <2>3, <3>2, <4>1 DEF Telling
      <3> QED BY <3>1, <3>2
    <2> QED BY <1>1, <2>4, <2>5, <2>7, OneTold
  <1> QED BY <1>3, <1>4, <1>5 DEF StepEnds

\* The stream goes on, or tells its end.
LEMMA StreamTells ==
    ASSUME TypeOK, StreamInv, NEW c \in Clients, StreamToken(c) \/ StreamDone(c)
    PROVE  StreamInv'
  <1>1. /\ req[c].at \in {"running", "ran"} /\ frames' = frames
        /\ chan \in [Clients -> Seq(Nat)] /\ sse \in [Clients -> Seq(Nat)]
        /\ req[c] \in Requests({"running", "ran", "answered", "closed"})
    BY ClientTypes DEF StreamToken, StreamDone
  <1>2. Streaming(req[c], Expressed(c), sse[c], chan[c]) /\ Expressed(c)' = Expressed(c)
    BY <1>1 DEF StreamInv, Telling, Expressed
  <1>3. CASE StreamToken(c)
    <2> DEFINE s == Append(sse[c], Head(chan[c]))
               w == Tail(chan[c])
    <2>1. /\ req[c].stream /\ chan[c] # <<>> /\ req' = req
          /\ sse' = [sse EXCEPT ![c] = s] /\ chan' = [chan EXCEPT ![c] = w]
      BY <1>3 DEF StreamToken
    <2>2. Tokens(s, w) /\ Len(s) + Len(w) = Len(sse[c]) + Len(chan[c])
      BY <1>1, <1>2, <2>1, TokenSent DEF Streaming
    <2> HIDE DEF s, w
    <2>3. sse'[c] = s /\ chan'[c] = w
          /\ \A d \in Clients \ {c} : sse'[d] = sse[d] /\ chan'[d] = chan[d]
      BY <1>1, <2>1
    <2>4. Streaming(req[c], Expressed(c), s, w)
      BY <1>2, <2>1, <2>2 DEF Streaming
    <2>5. Telling(req'[c], Expressed(c)', sse'[c], chan'[c])
      BY <1>1, <1>2, <2>1, <2>3, <2>4 DEF Telling
    <2> QED BY <1>1, <2>1, <2>3, <2>5, OneTold
  <1>4. CASE StreamDone(c)
    <2> DEFINE r == [req[c] EXCEPT !.at = "answered"]
               s == Append(sse[c], Done)
    <2>1. /\ req[c].at = "ran" /\ chan[c] = <<>> /\ chan' = chan
          /\ sse' = [sse EXCEPT ![c] = s] /\ req' = [req EXCEPT ![c].at = "answered"]
      BY <1>4 DEF StreamDone
    <2>2. /\ r.at = "answered" /\ r.end = req[c].end /\ r.said = req[c].said
      BY <1>1 DEF Requests
    <2>3. req'[c] = r /\ sse'[c] = s
          /\ \A d \in Clients \ {c} : req'[d] = req[d] /\ sse'[d] = sse[d]
      BY <1>1, <2>1, ClientTypes
    <2>4. /\ Len(s) = Len(sse[c]) + 1 /\ s[Len(sse[c]) + 1] = Done /\ Len(sse[c]) \in Nat
          /\ \A i \in 1 .. Len(sse[c]) : s[i] = sse[c][i]
      BY <1>1
    <2> HIDE DEF r, s
    <2>5. req[c].stream /\ Len(chan[c]) = 0
      BY <1>1, <1>2, <2>1 DEF Streaming
    <2>6. req[c].end # "unknown" => req[c].said = Len(sse[c])
      <3>1. req[c].end # "unknown" => req[c].said = Len(sse[c]) + Len(chan[c])
        BY <1>2, <2>1, <2>5 DEF Streaming
      <3> QED BY <2>4, <2>5, <3>1
    <2>7. \A i \in 1 .. Len(sse[c]) : sse[c][i] = i
      BY <1>2 DEF Streaming, Tokens
    <2>8. Len(s) > 0 /\ s[Len(s)] = Done /\ Len(s) - 1 = Len(sse[c])
      BY <2>4
    <2>9. \A i \in 1 .. Len(s) - 1 : s[i] = i
      BY <2>4, <2>7, <2>8
    <2>10. Told(r, s)
      BY <2>2, <2>6, <2>8, <2>9 DEF Told
    <2>11. Telling(req'[c], Expressed(c)', sse'[c], chan'[c])
      BY <2>2, <2>3, <2>10 DEF Telling
    <2> QED BY <1>1, <2>1, <2>3, <2>11, OneTold
  <1> QED BY <1>3, <1>4

\* A stream whose run came to nothing reports that; a plain request tells
\* nothing.
LEMMA GoneTells ==
    ASSUME TypeOK, StreamInv, NEW c \in Clients, Panic(c) \/ Disconnect(c)
    PROVE  StreamInv'
  <1>1. /\ Running(c) /\ frames' = [frames EXCEPT ![c] = <<>>] /\ UNCHANGED <<sse, chan>>
        /\ frames \in [Clients -> Seq(Spans)]
    BY ClientTypes DEF Panic, Disconnect
  <1>2. req[c] \in Requests({"running", "ran", "answered", "closed"}) /\ req[c].at = "running"
    BY <1>1, ClientTypes DEF Running
  <1>3. Streaming(req[c], Expressed(c), sse[c], chan[c])
    BY <1>2 DEF StreamInv, Telling
  <1>4. PICK r : /\ req' = [req EXCEPT ![c] = r]
                 /\ \/ req[c].stream /\ r.stream /\ r.at = "ran" /\ r.end = "unknown"
                    \/ ~req[c].stream /\ r.at = "closed"
    <2>1. CASE Panic(c)
      <3> DEFINE r == [req[c] EXCEPT !.at = IF req[c].stream THEN "ran" ELSE "closed", !.end = "unknown"]
      <3>1. /\ r.stream = req[c].stream /\ r.end = "unknown"
            /\ r.at = IF req[c].stream THEN "ran" ELSE "closed"
        BY <1>2 DEF Requests
      <3>2. req' = [req EXCEPT ![c] = r]
        BY <2>1, ClientTypes DEF Panic
      <3> HIDE DEF r
      <3>3. CASE req[c].stream
        BY <3>1, <3>2, <3>3
      <3>4. CASE ~req[c].stream
        BY <3>1, <3>2, <3>4
      <3> QED BY <3>3, <3>4
    <2>2. CASE Disconnect(c)
      <3> DEFINE r == [req[c] EXCEPT !.at = "closed"]
      <3>1. r.at = "closed"
        BY <1>2 DEF Requests
      <3>2. req' = [req EXCEPT ![c] = r] /\ ~req[c].stream
        BY <2>2, ClientTypes DEF Disconnect
      <3> HIDE DEF r
      <3> QED BY <3>1, <3>2
    <2> QED BY <2>1, <2>2
  <1>5. req'[c] = r /\ \A d \in Clients \ {c} : req'[d] = req[d] /\ frames'[d] = frames[d]
    BY <1>1, <1>4, ClientTypes
  <1>6. Telling(r, Expressed(c)', sse[c], chan[c])
    <2>1. CASE req[c].stream /\ r.stream /\ r.at = "ran" /\ r.end = "unknown"
      <3>1. Streaming(r, Expressed(c)', sse[c], chan[c])
        BY <1>3, <2>1 DEF Streaming
      <3> QED BY <2>1, <3>1 DEF Telling
    <2>2. CASE ~req[c].stream /\ r.at = "closed"
      <3>1. sse[c] = <<>>
        BY <1>3, <2>2 DEF Streaming
      <3> QED BY <2>2, <3>1 DEF Telling
    <2> QED BY <1>4, <2>1, <2>2
  <1> QED BY <1>1, <1>5, <1>6, OneTold

LEMMA StreamsKeepTelling == TypeOK /\ StreamInv /\ [Next]_vars => StreamInv'
  <1> SUFFICES ASSUME TypeOK, StreamInv, [Next]_vars PROVE StreamInv'
    OBVIOUS
  <1>1. CASE UNCHANGED <<req, frames, sse, chan>>
    BY <1>1 DEF StreamInv, Expressed
  <1>2. Load \/ Edit \/ UNCHANGED vars => UNCHANGED <<req, frames, sse, chan>>
    BY DEF Load, Edit, vars
  <1> QED BY <1>1, <1>2, ComingTold, ProviderQuiet, ExpressTells, CallQuiet, StepEndsTells,
             StreamTells, GoneTells DEF Next, Step

\* A stream tells the report: the tokens of what the request's span expressed,
\* in order, and then, once, that it is done, with all of them told.
THEOREM StreamIsTheReport == Spec => []StreamTellsTheReport
  <1>1. Init => StreamInv
    BY DEF Init, NoRequest, StreamInv, Telling
  <1>2. Spec => [](TypeOK /\ StreamInv)
    BY <1>1, GatewayTypes, StreamsKeepTelling, PTL DEF Spec
  <1>3. TypeOK /\ StreamInv => StreamTellsTheReport
    <2> SUFFICES ASSUME TypeOK, StreamInv, NEW c \in Clients
                 PROVE  LET over == sse[c] # <<>> /\ sse[c][Len(sse[c])] = Done
                            tokens == IF over THEN Len(sse[c]) - 1 ELSE Len(sse[c])
                        IN  /\ \A i \in 1 .. tokens : sse[c][i] = i
                            /\ req[c].at = "answered" /\ sse[c] # <<>> =>
                                  over /\ (req[c].end # "unknown" => tokens = req[c].said)
      BY DEF StreamTellsTheReport
    <2>1. /\ sse[c] \in Seq(Nat) /\ Len(sse[c]) \in Nat
          /\ req[c].at \in {"idle", "running", "ran", "answered", "closed"}
      BY ClientTypes
    <2>2. CASE sse[c] = <<>>
      BY <2>2
    <2>3. CASE sse[c] # <<>> /\ req[c].at \in {"running", "ran"}
      <3>1. \A i \in 1 .. Len(sse[c]) : sse[c][i] = i
        BY <2>3 DEF StreamInv, Telling, Streaming, Tokens
      <3>2. Len(sse[c]) \in 1 .. Len(sse[c])
        BY <2>1, <2>3
      <3>3. sse[c][Len(sse[c])] # Done
        BY <2>1, <3>1, <3>2 DEF Done
      <3> QED BY <2>3, <3>1, <3>3
    <2>4. CASE sse[c] # <<>> /\ req[c].at = "answered"
      <3>1. Told(req[c], sse[c])
        BY <2>4 DEF StreamInv, Telling
      <3> QED BY <2>4, <3>1 DEF Told
    <2> QED BY <2>1, <2>2, <2>3, <2>4 DEF StreamInv, Telling
  <1> QED BY <1>2, <1>3, PTL

-----------------------------------------------------------------------------
(* The prompt.                                                             *)

\* A filter keeps messages of its roles only, and all of them.
LEMMA Filtered ==
    ASSUME NEW S, NEW s \in Seq(S), NEW R
    PROVE  /\ OfRole(s, R) \in Seq(S)
           /\ \A k \in 1 .. Len(OfRole(s, R)) : OfRole(s, R)[k].role \in R
           /\ (\A i \in 1 .. Len(s) : s[i].role \in R) => OfRole(s, R) = s
  <1> DEFINE I == {i \in DOMAIN s : s[i].role \in R}
             n == Cardinality(I)
  <1>1. I \in SUBSET (1 .. Len(s)) /\ Len(s) \in Nat /\ \A i \in I : s[i] \in S /\ s[i].role \in R
    OBVIOUS
  <1>2. OfRole(s, R) = [k \in 1 .. n |-> s[Nth(I, k)]]
    BY DEF OfRole, Picked
  <1>3. (\A i \in 1 .. Len(s) : s[i].role \in R) => I = 1 .. Len(s)
    OBVIOUS
  <1> HIDE DEF I
  <1>4. n \in Nat /\ \A k \in 1 .. n : Nth(I, k) \in I
    BY <1>1, Ranks
  <1>5. I = 1 .. Len(s) => n = Len(s) /\ \A k \in 1 .. n : Nth(I, k) = k
    <2> SUFFICES ASSUME I = 1 .. Len(s) PROVE n = Len(s) /\ \A k \in 1 .. n : Nth(I, k) = k
      OBVIOUS
    <2>1. I = 0 + 1 .. Len(s) /\ 0 <= Len(s) /\ Len(s) - 0 = Len(s) /\ 0 \in Nat
      BY <1>1
    <2>2. n = Len(s) - 0 /\ \A k \in 1 .. Len(s) - 0 : Nth(I, k) = 0 + k
      BY <1>1, <2>1, RankInInterval
    <2> HIDE DEF n
    <2> QED BY <2>1, <2>2
  <1> HIDE DEF n
  <1>6. OfRole(s, R) \in Seq(S) /\ Len(OfRole(s, R)) = n /\ \A k \in 1 .. n : OfRole(s, R)[k].role \in R
    <2>1. \A k \in 1 .. n : s[Nth(I, k)] \in S /\ s[Nth(I, k)].role \in R
      BY <1>1, <1>4
    <2>2. OfRole(s, R) \in Seq(S) /\ Len(OfRole(s, R)) = n
      BY <1>2, <1>4, <2>1
    <2>3. \A k \in 1 .. n : OfRole(s, R)[k] = s[Nth(I, k)]
      BY <1>2
    <2> QED BY <2>1, <2>2, <2>3
  <1>7. I = 1 .. Len(s) => OfRole(s, R) = s
    <2> SUFFICES ASSUME I = 1 .. Len(s) PROVE OfRole(s, R) = s
      OBVIOUS
    <2>1. OfRole(s, R) = [k \in 1 .. Len(s) |-> s[k]]
      BY <1>2, <1>5
    <2> QED BY <2>1
  <1> QED BY <1>3, <1>6, <1>7

\* A message of another role in front is left out.
LEMMA FilteredBehind ==
    ASSUME NEW S, NEW s \in Seq(S), NEW x \in S, NEW R, x.role \notin R,
           \A i \in 1 .. Len(s) : s[i].role \in R
    PROVE  OfRole(<<x>> \o s, R) = s
  <1> DEFINE t == <<x>> \o s
             I == {i \in DOMAIN t : t[i].role \in R}
             n == Cardinality(I)
  <1>1. /\ t \in Seq(S) /\ Len(t) = Len(s) + 1 /\ Len(s) \in Nat /\ DOMAIN t = 1 .. Len(s) + 1
        /\ t[1] = x /\ \A i \in 1 .. Len(s) : t[1 + i] = s[i]
    OBVIOUS
  <1> HIDE DEF t
  <1>2. I = 1 + 1 .. Len(s) + 1
    <2>1. ASSUME NEW i \in 1 + 1 .. Len(s) + 1 PROVE t[i].role \in R
      <3>1. i - 1 \in 1 .. Len(s) /\ 1 + (i - 1) = i
        BY <1>1
      <3>2. t[1 + (i - 1)] = s[i - 1]
        BY <1>1, <3>1
      <3> QED BY <3>1, <3>2
    <2>2. \A i : i \in 1 .. Len(s) + 1 <=> i = 1 \/ i \in 1 + 1 .. Len(s) + 1
      BY <1>1
    <2>3. \A i : i \in I <=> i \in 1 + 1 .. Len(s) + 1
      BY <1>1, <2>1, <2>2
    <2> QED BY <2>3
  <1>3. OfRole(t, R) = [k \in 1 .. n |-> t[Nth(I, k)]]
    BY DEF OfRole, Picked
  <1> HIDE DEF I
  <1>4. n = Len(s) /\ \A k \in 1 .. n : Nth(I, k) = 1 + k
    <2> DEFINE b == Len(s) + 1
    <2>1. 1 <= b /\ b - 1 = Len(s) /\ 1 \in Nat /\ b \in Nat /\ I = 1 + 1 .. b
      BY <1>1, <1>2
    <2> HIDE DEF b
    <2>2. /\ Cardinality(1 + 1 .. b) = b - 1
          /\ \A k \in 1 .. b - 1 : Nth(1 + 1 .. b, k) = 1 + k
      BY <2>1, RankInInterval
    <2> QED BY <2>1, <2>2
  <1> HIDE DEF n
  <1>5. OfRole(t, R) = [k \in 1 .. Len(s) |-> s[k]]
    <2>1. \A k \in 1 .. Len(s) : t[Nth(I, k)] = s[k]
      BY <1>1, <1>4
    <2> QED BY <1>3, <1>4, <2>1
  <1>6. s = [k \in 1 .. Len(s) |-> s[k]]
    OBVIOUS
  <1> QED BY <1>5, <1>6 DEF t

\* The last message a filter keeps is the last one of its roles, and a filter
\* of fewer roles that keeps it keeps it last.
LEMMA LastFiltered ==
    ASSUME NEW S, NEW s \in Seq(S), NEW R, NEW Q \in SUBSET R, OfRole(s, R) # <<>>,
           OfRole(s, R)[Len(OfRole(s, R))].role \in Q
    PROVE  /\ OfRole(s, Q) # <<>>
           /\ OfRole(s, Q)[Len(OfRole(s, Q))] = OfRole(s, R)[Len(OfRole(s, R))]
  <1> DEFINE I == {i \in DOMAIN s : s[i].role \in R}
             J == {i \in DOMAIN s : s[i].role \in Q}
             n == Cardinality(I)
             m == Cardinality(J)
             last == Nth(I, n)
  <1>1. /\ Len(s) \in Nat /\ I \in SUBSET (1 .. Len(s)) /\ J \in SUBSET (1 .. Len(s)) /\ J \subseteq I
        /\ \A i \in I : s[i].role \in Q => i \in J
    OBVIOUS
  <1>2. /\ OfRole(s, R) = [k \in 1 .. n |-> s[Nth(I, k)]]
        /\ OfRole(s, Q) = [k \in 1 .. m |-> s[Nth(J, k)]]
    BY DEF OfRole, Picked
  <1> HIDE DEF I, J
  <1>3. /\ IsFiniteSet(I) /\ n \in Nat /\ \A k \in 1 .. n : Nth(I, k) \in I /\ Cardinality(Below(I, Nth(I, k))) = k - 1
        /\ IsFiniteSet(J) /\ m \in Nat /\ (J # {} => m # 0)
    BY <1>1, Ranks, FS_EmptySet
  <1> HIDE DEF n, m
  <1>4. n # 0 /\ Len(OfRole(s, R)) = n /\ Len(OfRole(s, Q)) = m
    <2>1. Len(OfRole(s, R)) = n /\ Len(OfRole(s, Q)) = m
      BY <1>2, <1>3
    <2>2. n = 0 => OfRole(s, R) = <<>>
      BY <1>2
    <2> QED BY <2>1, <2>2
  <1>5. last \in I /\ Cardinality(Below(I, last)) = n - 1 /\ n \in 1 .. n
    BY <1>3, <1>4
  <1>6. OfRole(s, R)[n] = s[last]
    BY <1>2, <1>5
  <1> HIDE DEF last
  <1>7. last \in J
    BY <1>1, <1>4, <1>5, <1>6
  <1>8. \A j \in I : j <= last
    <2>1. Cardinality(I \ {last}) = n - 1 /\ IsFiniteSet(I \ {last})
      BY <1>3, <1>5, FS_RemoveElement DEF n
    <2>2. Below(I, last) \subseteq I \ {last}
      BY <1>1, <1>5 DEF Below
    <2>3. Below(I, last) = I \ {last}
      BY <1>5, <2>1, <2>2, FS_Subset
    <2>4. \A j \in I : j # last => j < last
      BY <2>3 DEF Below
    <2> QED BY <1>1, <1>5, <2>4
  <1>9. Nth(J, m) = last
    BY <1>1, <1>7, <1>8, RankOfLast DEF m
  <1>10. m # 0 /\ m \in 1 .. m
    BY <1>3, <1>7
  <1>11. OfRole(s, Q)[m] = s[last]
    BY <1>2, <1>9, <1>10
  <1>12. OfRole(s, Q) # <<>>
    BY <1>4, <1>10
  <1> QED BY <1>4, <1>6, <1>11, <1>12

\* The messages that replay calls and their results.
Exchanged(C) == {Msg(r, x) : r \in {"call", "tool"}, x \in C}

\* Every exchange of a turn is two messages, in order.
LEMMA Exchanges ==
    ASSUME NEW C, NEW made \in Seq(C)
    PROVE  /\ Len(Replayed(made)) = 2 * Len(made) /\ Len(Replayed(made)) \in Nat
           /\ Replayed(made) \in Seq(Exchanged(C))
           /\ \A i \in 1 .. Len(made) :
                 /\ Replayed(made)[2 * i - 1] = Msg("call", made[i])
                 /\ Replayed(made)[2 * i] = Msg("tool", made[i])
  <1> DEFINE M == Exchanged(C)
             at(i) == ReplayExchange(made[(i + 1) \div 2])[2 - (i % 2)]
  <1>1. Len(made) \in Nat /\ 2 * Len(made) \in Nat /\ \A i \in 1 .. Len(made) : made[i] \in C
    OBVIOUS
  <1>2. Replayed(made) = [i \in 1 .. 2 * Len(made) |-> at(i)]
    BY DEF Replayed
  <1>3. \A x : ReplayExchange(x)[1] = Msg("call", x) /\ ReplayExchange(x)[2] = Msg("tool", x)
    BY DEF ReplayExchange
  <1>4. ASSUME NEW i \in 1 .. 2 * Len(made) PROVE at(i) \in M
    <2>1. (i + 1) \div 2 \in 1 .. Len(made) /\ (i % 2 = 0 \/ i % 2 = 1)
      BY <1>1
    <2> DEFINE h == (i + 1) \div 2
               b == i % 2
    <2>2. h \in 1 .. Len(made) /\ (b = 0 \/ b = 1)
      BY <2>1
    <2> HIDE DEF h, b
    <2>3. made[h] \in C
      BY <1>1, <2>2
    <2>4. ReplayExchange(made[h])[2 - b] = Msg("call", made[h]) \/ ReplayExchange(made[h])[2 - b] = Msg("tool", made[h])
      <3>1. 2 - b = 2 \/ 2 - b = 1
        BY <2>2
      <3> QED BY <1>3, <3>1
    <2>5. ReplayExchange(made[h])[2 - b] \in M
      BY <2>3, <2>4 DEF Exchanged
    <2> QED BY <2>5 DEF h, b
  <1>5. ASSUME NEW i \in 1 .. Len(made)
        PROVE  at(2 * i - 1) = Msg("call", made[i]) /\ at(2 * i) = Msg("tool", made[i])
    <2>1. /\ (2 * i - 1 + 1) \div 2 = i /\ 2 - ((2 * i - 1) % 2) = 1
          /\ (2 * i + 1) \div 2 = i /\ 2 - ((2 * i) % 2) = 2
      BY <1>1
    <2> QED BY <1>3, <2>1
  <1>6. ASSUME NEW i \in 1 .. Len(made) PROVE 2 * i - 1 \in 1 .. 2 * Len(made) /\ 2 * i \in 1 .. 2 * Len(made)
    BY <1>1
  <1> HIDE DEF at, M
  <1>7. Replayed(made) \in Seq(M) /\ Len(Replayed(made)) = 2 * Len(made)
    BY <1>1, <1>2, <1>4
  <1>8. ASSUME NEW i \in 1 .. Len(made)
        PROVE  Replayed(made)[2 * i - 1] = at(2 * i - 1) /\ Replayed(made)[2 * i] = at(2 * i)
    BY <1>2, <1>6
  <1> QED BY <1>1, <1>5, <1>7, <1>8 DEF M

\* What both providers send, without the system message.
LEMMA Sent ==
    ASSUME NEW S, NEW messages \in Seq(S), NEW C, NEW made \in Seq(C),
           TurnsOf(messages) # <<>>, TurnsOf(messages)[Len(TurnsOf(messages))].role = "user"
    PROVE  LET kept == TurnsOf(messages)
               earlier == HistoryOf(messages)
               user == LastUser(messages)
               roles == {"user", "assistant", "call", "tool"}
           IN  /\ kept \in Seq(S)
               /\ OfRole(AnthropicMessages(earlier, user, made), roles) = kept \o Replayed(made)
               /\ OfRole(OpenAiMessages(earlier, user, made), roles) = kept \o Replayed(made)
  <1> DEFINE kept == TurnsOf(messages)
             earlier == HistoryOf(messages)
             user == LastUser(messages)
             two == {"user", "assistant"}
             roles == {"user", "assistant", "call", "tool"}
             n == Len(kept)
             rep == Replayed(made)
  <1>1. kept \in Seq(S) /\ \A k \in 1 .. Len(kept) : kept[k].role \in two
    BY Filtered DEF TurnsOf
  <1>2. user = kept[n]
    <2>1. /\ OfRole(messages, {"user"}) # <<>>
          /\ OfRole(messages, {"user"})[Len(OfRole(messages, {"user"}))] = kept[n]
      <3>1. {"user"} \in SUBSET {"user", "assistant"}
        OBVIOUS
      <3>2. OfRole(messages, {"user", "assistant"})[Len(OfRole(messages, {"user", "assistant"}))].role \in {"user"}
        BY DEF TurnsOf
      <3> QED BY <3>1, <3>2, LastFiltered DEF TurnsOf
    <2> QED BY <2>1 DEF LastUser
  <1>3. earlier = SubSeq(kept, 1, n - 1)
    BY DEF HistoryOf, Front
  <1>4. kept # <<>>
    OBVIOUS
  <1> HIDE DEF kept, earlier, user
  <1>5. n \in Nat \ {0} /\ kept[n] \in S
    BY <1>1, <1>4
  <1>6. /\ earlier \in Seq(S) /\ Len(earlier) = n - 1
        /\ \A k \in 1 .. n - 1 : earlier[k] = kept[k]
    <2>1. 1 \in Int /\ n - 1 \in Int /\ \A i \in 1 .. n - 1 : kept[i] \in S
      BY <1>1, <1>5
    <2>2. /\ SubSeq(kept, 1, n - 1) \in Seq(S)
          /\ Len(SubSeq(kept, 1, n - 1)) = IF 1 <= n - 1 THEN n - 1 - 1 + 1 ELSE 0
          /\ \A i \in 1 .. n - 1 - 1 + 1 : SubSeq(kept, 1, n - 1)[i] = kept[1 + i - 1]
      BY <2>1, SubSeqProperties
    <2> HIDE DEF n
    <2>3. \A i \in 1 .. n - 1 : SubSeq(kept, 1, n - 1)[i] = kept[i]
      <3> TAKE i \in 1 .. n - 1
      <3>1. i \in 1 .. n - 1 - 1 + 1 /\ 1 + i - 1 = i
        BY <1>5
      <3> QED BY <2>2, <3>1
    <2> QED BY <1>3, <1>5, <2>2, <2>3
  <1>7. Turns(earlier) = earlier
    <2>1. \A k \in 1 .. Len(earlier) : earlier[k].role \in two
      BY <1>1, <1>5, <1>6
    <2> QED BY <1>6, <2>1, Filtered DEF Turns
  <1>8. earlier \o <<user>> = kept
    <2>1. n \in 1 .. n /\ n \in 1 .. Len(kept) /\ n \in n .. Len(kept) /\ 1 \in 1 .. Len(kept) /\ n \in 1 .. Len(kept)
      BY <1>5
    <2>2. SubSeq(kept, 1, n) = SubSeq(kept, 1, n - 1) \o <<kept[n]>>
      BY <1>1, <2>1, SubSeqRecursiveSecond
    <2>3. SubSeq(kept, 1, n) = kept
      BY <1>1, SubSeqFull
    <2> QED BY <1>2, <1>3, <2>2, <2>3
  <1> HIDE DEF n
  <1> DEFINE M == Exchanged(C)
  <1>10. \A x \in M : x.role \in {"call", "tool"}
    BY DEF Msg, Exchanged
  <1>11. rep \in Seq(M)
    BY Exchanges
  <1> HIDE DEF rep, M
  <1> DEFINE all == kept \o rep
  <1>12. all \in Seq(S \cup M)
    BY <1>1, <1>11
  <1>13. \A k \in 1 .. Len(all) : all[k].role \in roles
    <2> TAKE k \in 1 .. Len(all)
    <2>1. /\ Len(all) = Len(kept) + Len(rep) /\ Len(kept) \in Nat /\ Len(rep) \in Nat
          /\ all[k] = IF k <= Len(kept) THEN kept[k] ELSE rep[k - Len(kept)]
      BY <1>1, <1>11
    <2>2. CASE k <= Len(kept)
      <3>1. k \in 1 .. Len(kept)
        BY <2>1, <2>2
      <3> QED BY <1>1, <2>1, <2>2, <3>1
    <2>3. CASE ~(k <= Len(kept))
      <3>1. k - Len(kept) \in 1 .. Len(rep)
        BY <2>1, <2>3
      <3>2. rep[k - Len(kept)] \in M
        BY <1>11, <3>1
      <3> QED BY <1>10, <2>1, <2>3, <3>2
    <2> QED BY <2>2, <2>3
  <1>14. OfRole(all, roles) = all
    <2> HIDE DEF all, roles
    <2> QED BY <1>12, <1>13, Filtered
  <1>15. AnthropicMessages(earlier, user, made) = all
    <2>1. AnthropicMessages(earlier, user, made) = earlier \o <<user>> \o rep
      BY <1>7 DEF AnthropicMessages, rep
    <2> QED BY <1>8, <2>1
  <1> DEFINE system == Msg("system", 0)
  <1>16. OpenAiMessages(earlier, user, made) = <<system>> \o all
    <2>1. OpenAiMessages(earlier, user, made) = <<system>> \o earlier \o <<user>> \o rep
      BY <1>7 DEF OpenAiMessages, rep
    <2>2. <<system>> \o earlier \o <<user>> \o rep = <<system>> \o (earlier \o <<user>> \o rep)
      <3> DEFINE U == S \cup M \cup {system}
      <3>1. <<system>> \in Seq(U) /\ earlier \in Seq(U) /\ <<user>> \in Seq(U) /\ rep \in Seq(U)
        BY <1>2, <1>5, <1>6, <1>11 DEF n
      <3> HIDE DEF U, system
      <3>2. earlier \o <<user>> \in Seq(U)
        BY <3>1, ConcatProperties
      <3>3. (<<system>> \o earlier) \o <<user>> = <<system>> \o (earlier \o <<user>>)
        BY <3>1, ConcatAssociative
      <3>4. (<<system>> \o (earlier \o <<user>>)) \o rep = <<system>> \o ((earlier \o <<user>>) \o rep)
        BY <3>1, <3>2, ConcatAssociative, SMTT(30)
      <3> QED BY <3>3, <3>4
    <2> QED BY <1>8, <2>1, <2>2
  <1>17. system.role \notin roles
    BY DEF Msg
  <1> HIDE DEF all, system
  <1>18. OfRole(<<system>> \o all, roles) = all
    <2> DEFINE U == S \cup M \cup {system}
    <2>1. all \in Seq(U) /\ system \in U
      BY <1>12
    <2> HIDE DEF U, roles
    <2> QED BY <1>13, <1>17, <2>1, FilteredBehind
  <1> QED BY <1>1, <1>14, <1>15, <1>16, <1>18 DEF all, kept, earlier, user, rep

(* A chat whose last turn is the user's puts the whole conversation before   *)
(* the model at every step of its span, whichever provider it has: each turn *)
(* once and in order, then each call so far with its result.                 *)
THEOREM PromptStaysTheConversation == Spec => []PromptIsTheConversation
  <1>1. GatewayInv => PromptIsTheConversation
    <2> SUFFICES ASSUME GatewayInv, NEW c \in Clients, Running(c), req[c].kind = "chat",
                        TurnsOf(req[c].messages) # <<>>,
                        TurnsOf(req[c].messages)[Len(TurnsOf(req[c].messages))].role = "user"
                 PROVE  LET kept == TurnsOf(req[c].messages)
                            made == frames[c][1].results
                            sent == OfRole(Prompt(c), {"user", "assistant", "call", "tool"})
                        IN  /\ SubSeq(sent, 1, Len(kept)) = kept
                            /\ Len(sent) = Len(kept) + 2 * Len(made)
                            /\ \A i \in DOMAIN made :
                                  /\ sent[Len(kept) + 2 * i - 1] = Msg("call", made[i])
                                  /\ sent[Len(kept) + 2 * i] = Msg("tool", made[i])
      BY DEF PromptIsTheConversation
    <2> DEFINE S == [role: STRING, id: Nat]
               kept == TurnsOf(req[c].messages)
               made == frames[c][1].results
               rep == Replayed(made)
               sent == OfRole(Prompt(c), {"user", "assistant", "call", "tool"})
    <2>1. req[c].messages \in Seq(S)
      <3>1. req[c] \in {NoRequest} \cup Requests({"running", "ran", "answered", "closed"})
        BY DEF GatewayInv, TypeOK
      <3>2. req[c] # NoRequest
        BY DEF Running, NoRequest
      <3> QED BY <3>1, <3>2 DEF Requests
    <2>2. made \in Seq(Callable)
      <3>1. frames[c] # <<>> /\ frames[c] \in Seq(Spans)
        BY CallAndStage, TopFacts DEF GatewayInv
      <3>2. frames[c][1] \in Spans
        BY <3>1
      <3> QED BY <3>2 DEF Spans
    <2>3. kept \in Seq(S) /\ sent = kept \o rep
      <3> DEFINE earlier == HistoryOf(req[c].messages)
                 user == LastUser(req[c].messages)
                 roles == {"user", "assistant", "call", "tool"}
      <3>1. /\ kept \in Seq(S)
            /\ OfRole(AnthropicMessages(earlier, user, made), roles) = kept \o rep
            /\ OfRole(OpenAiMessages(earlier, user, made), roles) = kept \o rep
        <4> HIDE DEF S, made
        <4> QED BY <2>1, <2>2, Sent
      <3>2. Prompt(c) = AnthropicMessages(earlier, user, made) \/ Prompt(c) = OpenAiMessages(earlier, user, made)
        BY DEF Prompt
      <3> HIDE DEF kept, made, rep, earlier, user, roles
      <3> QED BY <3>1, <3>2 DEF roles
    <2>4. /\ Len(rep) = 2 * Len(made) /\ Len(made) \in Nat /\ DOMAIN made = 1 .. Len(made)
          /\ rep \in Seq(Exchanged(Callable))
          /\ \A i \in 1 .. Len(made) :
                rep[2 * i - 1] = Msg("call", made[i]) /\ rep[2 * i] = Msg("tool", made[i])
      <3> HIDE DEF made
      <3>1. Len(made) \in Nat /\ DOMAIN made = 1 .. Len(made)
        BY <2>2
      <3> QED BY <2>2, <3>1, Exchanges
    <2> HIDE DEF kept, made, rep, sent, S
    <2>5. /\ Len(sent) = Len(kept) + Len(rep) /\ Len(kept) \in Nat
          /\ \A k \in 1 .. Len(rep) : sent[Len(kept) + k] = rep[k]
          /\ SubSeq(sent, 1, Len(kept)) = kept
      <3> DEFINE U == S \cup Exchanged(Callable)
      <3>1. kept \in Seq(U) /\ rep \in Seq(U) /\ Len(kept) \in Nat /\ Len(rep) \in Nat /\ kept # <<>>
        BY <2>3, <2>4 DEF kept
      <3> HIDE DEF U
      <3>2. /\ Len(kept \o rep) = Len(kept) + Len(rep)
            /\ \A k \in 1 .. Len(kept) + Len(rep) :
                  (kept \o rep)[k] = IF k <= Len(kept) THEN kept[k] ELSE rep[k - Len(kept)]
        BY <3>1, ConcatProperties
      <3>3. \A k \in 1 .. Len(rep) : sent[Len(kept) + k] = rep[k]
        <4> TAKE k \in 1 .. Len(rep)
        <4>1. /\ Len(kept) + k \in 1 .. Len(kept) + Len(rep) /\ ~(Len(kept) + k <= Len(kept))
              /\ Len(kept) + k - Len(kept) = k
          BY <3>1
        <4> QED BY <2>3, <3>2, <4>1
      <3>4. SubSeq(kept \o rep, 1, Len(kept)) = SubSeq(kept, 1, Len(kept))
        <4>1. 1 \in 1 .. Len(kept) /\ Len(kept) \in 1 .. Len(kept)
          BY <3>1
        <4> QED BY <3>1, <4>1, SubSeqOfConcat1
      <3>5. SubSeq(kept, 1, Len(kept)) = kept
        BY <3>1, SubSeqFull
      <3> QED BY <2>3, <3>1, <3>2, <3>3, <3>4, <3>5
    <2>6. ASSUME NEW i \in DOMAIN made
          PROVE  /\ sent[Len(kept) + 2 * i - 1] = Msg("call", made[i])
                 /\ sent[Len(kept) + 2 * i] = Msg("tool", made[i])
      <3>1. i \in 1 .. Len(made) /\ Len(made) \in Nat /\ Len(kept) \in Nat /\ Len(rep) = 2 * Len(made)
        BY <2>4, <2>5
      <3> DEFINE m == Len(made)
                 k == Len(kept)
                 r == Len(rep)
      <3>3. i \in 1 .. m /\ m \in Nat /\ k \in Nat /\ r = 2 * m
        BY <3>1
      <3> HIDE DEF m, k, r
      <3>4. 2 * i - 1 \in 1 .. r /\ 2 * i \in 1 .. r /\ k + (2 * i - 1) = k + 2 * i - 1
        BY <3>3
      <3>2. sent[Len(kept) + (2 * i - 1)] = rep[2 * i - 1] /\ sent[Len(kept) + 2 * i] = rep[2 * i]
        BY <2>5, <3>4 DEF r
      <3> QED BY <2>4, <3>1, <3>2, <3>4 DEF k
    <2> QED BY <2>4, <2>5, <2>6 DEF kept, made, sent
  <1>2. Spec => []GatewayInv
    BY GatewayStarts, GatewayTypesKeep, PTL DEF Spec
  <1> QED BY <1>1, <1>2, PTL

-----------------------------------------------------------------------------
(* The command line.                                                       *)

\* The last n entries of a sequence.
LEMMA LastOnes ==
    ASSUME NEW S, NEW s \in Seq(S), NEW n \in Nat
    PROVE  /\ LastN(s, n) \in Seq(S)
           /\ Len(LastN(s, n)) = IF n < Len(s) THEN n ELSE Len(s)
           /\ \A i \in 1 .. Len(LastN(s, n)) : LastN(s, n)[i] = s[Len(s) - Len(LastN(s, n)) + i]
  <1> DEFINE k == IF n < Len(s) THEN n ELSE Len(s)
             first == Len(s) - k + 1
  <1>1. Len(s) \in Nat /\ k \in 0 .. Len(s) /\ first \in 1 .. Len(s) + 1
    <2>1. Len(s) \in Nat
      OBVIOUS
    <2>2. k \in 0 .. Len(s)
      <3>1. CASE n < Len(s)
        BY <2>1, <3>1
      <3>2. CASE ~(n < Len(s))
        BY <2>1, <3>2
      <3> QED BY <3>1, <3>2
    <2> HIDE DEF k
    <2>3. first \in 1 .. Len(s) + 1
      BY <2>1, <2>2
    <2> QED BY <2>1, <2>2, <2>3
  <1>2. LastN(s, n) = SubSeq(s, first, Len(s))
    BY DEF LastN
  <1> HIDE DEF k
  <1>3. SubSeq(s, first, Len(s)) = [i \in 1 .. k |-> s[Len(s) - k + i]]
    <2>1. Len(s) - first + 1 = k
      BY <1>1
    <2>2. \A i \in 1 .. k : first + i - 1 = Len(s) - k + i
      BY <1>1
    <2> HIDE DEF first
    <2> QED BY <1>1, <2>1, <2>2
  <1>4. \A i \in 1 .. k : s[Len(s) - k + i] \in S
    BY <1>1
  <1>5. LastN(s, n) \in Seq(S) /\ Len(LastN(s, n)) = k
    BY <1>1, <1>2, <1>3, <1>4
  <1>6. \A i \in 1 .. k : LastN(s, n)[i] = s[Len(s) - k + i]
    BY <1>2, <1>3
  <1> QED BY <1>5, <1>6 DEF k

LEMMA LastOfNone == ASSUME NEW n \in Nat PROVE LastN(<<>>, n) = <<>>
  <1>1. <<>> \in Seq({})
    OBVIOUS
  <1>2. LastN(<<>>, n) \in Seq({})
    BY <1>1, LastOnes
  <1>3. \A s \in Seq({}) : s = <<>>
    <2> TAKE s \in Seq({})
    <2>1. \A i \in 1 .. Len(s) : s[i] \in {}
      OBVIOUS
    <2>2. Len(s) \in Nat
      OBVIOUS
    <2>3. Len(s) = 0
      BY <2>1, <2>2
    <2> QED BY <2>3
  <1> QED BY <1>2, <1>3

\* Keeping the last entries at each step is keeping the last of all of them.
LEMMA LastOfLast ==
    ASSUME NEW S, NEW s \in Seq(S), NEW r \in Seq(S), NEW n \in Nat
    PROVE  LastN(LastN(s, n) \o r, n) = LastN(s \o r, n)
  <1> DEFINE l == LastN(s, n)
             a == l \o r
             b == s \o r
             x == LastN(a, n)
             y == LastN(b, n)
  <1>1. /\ l \in Seq(S) /\ Len(l) = (IF n < Len(s) THEN n ELSE Len(s))
        /\ \A i \in 1 .. Len(l) : l[i] = s[Len(s) - Len(l) + i]
    BY LastOnes
  <1> HIDE DEF l
  <1>2. /\ a \in Seq(S) /\ Len(a) = Len(l) + Len(r)
        /\ \A i \in 1 .. Len(a) : a[i] = IF i <= Len(l) THEN l[i] ELSE r[i - Len(l)]
        /\ b \in Seq(S) /\ Len(b) = Len(s) + Len(r)
        /\ \A i \in 1 .. Len(b) : b[i] = IF i <= Len(s) THEN s[i] ELSE r[i - Len(s)]
    BY <1>1, SMTT(30)
  <1>3. Len(s) \in Nat /\ Len(r) \in Nat /\ Len(l) \in Nat /\ Len(l) <= Len(s)
    BY <1>1
  <1> HIDE DEF a, b
  <1>4. /\ x \in Seq(S) /\ Len(x) = (IF n < Len(a) THEN n ELSE Len(a))
        /\ \A i \in 1 .. Len(x) : x[i] = a[Len(a) - Len(x) + i]
    BY <1>2, LastOnes
  <1>5. /\ y \in Seq(S) /\ Len(y) = (IF n < Len(b) THEN n ELSE Len(b))
        /\ \A i \in 1 .. Len(y) : y[i] = b[Len(b) - Len(y) + i]
    BY <1>2, LastOnes
  <1>6. Len(x) = Len(y) /\ Len(x) \in Nat /\ Len(x) <= Len(a) /\ Len(a) <= Len(b)
    BY <1>1, <1>2, <1>3, <1>4, <1>5
  <1> HIDE DEF x, y
  <1>7. ASSUME NEW i \in 1 .. Len(x) PROVE x[i] = y[i]
    <2> DEFINE p == Len(a) - Len(x) + i
               q == Len(b) - Len(x) + i
    <2>1. p \in 1 .. Len(a) /\ q \in 1 .. Len(b) /\ q - p = Len(s) - Len(l)
      BY <1>2, <1>3, <1>6
    <2>2. x[i] = a[p] /\ y[i] = b[q]
      BY <1>4, <1>5, <1>6
    <2> HIDE DEF p, q
    <2>3. CASE p <= Len(l)
      <3>1. q = Len(s) - Len(l) + p /\ q <= Len(s) /\ p \in 1 .. Len(l)
        BY <1>3, <2>1, <2>3
      <3>2. a[p] = l[p] /\ b[q] = s[q] /\ l[p] = s[q]
        BY <1>1, <1>2, <2>1, <2>3, <3>1
      <3> QED BY <2>2, <3>2
    <2>4. CASE ~(p <= Len(l))
      <3>1. p \in Int /\ q \in Int /\ q - Len(s) = p - Len(l) /\ ~(q <= Len(s))
        BY <1>2, <1>3, <2>1, <2>4
      <3>2. a[p] = r[p - Len(l)] /\ b[q] = r[q - Len(s)]
        BY <1>2, <2>1, <2>4, <3>1
      <3> QED BY <2>2, <3>1, <3>2
    <2> QED BY <2>3, <2>4
  <1>8. x = y
    <2>1. x \in Seq(S) /\ y \in Seq(S) /\ Len(x) = Len(y)
      BY <1>4, <1>5, <1>6
    <2>2. DOMAIN x = 1 .. Len(x) /\ DOMAIN y = 1 .. Len(x)
      BY <2>1
    <2>3. x = [i \in 1 .. Len(x) |-> x[i]] /\ y = [i \in 1 .. Len(x) |-> y[i]]
      BY <2>1, <2>2
    <2> QED BY <1>7, <2>3
  <1> QED BY <1>8 DEF x, y, a, b, l

\* The cache's last turns are the process's own, up to the window.
Ends(s, r) == \A j \in 0 .. Len(r) - 1 : j < Window => j < Len(s) /\ s[Len(s) - j] = r[Len(r) - j]

LEMMA EndsGrow ==
    ASSUME NEW S, NEW s \in Seq(S), NEW r \in Seq(S), NEW u \in S, Ends(s, r)
    PROVE  Ends(LastN(Append(s, u), Window), Append(r, u))
  <1> DEFINE a == Append(s, u)
             b == Append(r, u)
             x == LastN(a, Window)
  <1>1. /\ a \in Seq(S) /\ Len(a) = Len(s) + 1 /\ a[Len(s) + 1] = u
        /\ b \in Seq(S) /\ Len(b) = Len(r) + 1 /\ b[Len(r) + 1] = u
        /\ \A i \in 1 .. Len(s) : a[i] = s[i]
        /\ \A i \in 1 .. Len(r) : b[i] = r[i]
        /\ Len(s) \in Nat /\ Len(r) \in Nat /\ Window \in Nat
    BY CliConstants
  <1> HIDE DEF a, b
  <1>2. /\ x \in Seq(S) /\ Len(x) = (IF Window < Len(a) THEN Window ELSE Len(a))
        /\ \A i \in 1 .. Len(x) : x[i] = a[Len(a) - Len(x) + i]
    BY <1>1, LastOnes, ZenonT(60)
  <1>6. Len(x) \in Nat /\ Len(x) <= Len(a) /\ (Len(x) = Window \/ Len(x) = Len(a))
    <2>1. CASE Window < Len(a)
      BY <1>1, <1>2, <2>1
    <2>2. CASE ~(Window < Len(a))
      BY <1>1, <1>2, <2>2
    <2> QED BY <2>1, <2>2
  <1> HIDE DEF x
  <1>3. ASSUME NEW j \in 0 .. Len(b) - 1, j < Window
        PROVE  j < Len(x) /\ x[Len(x) - j] = b[Len(b) - j]
    <2>1. CASE j = 0
      <3>1. Len(x) \in Nat /\ Len(x) > 0
        BY <1>1, <1>3, <1>6, <2>1
      <3>2. x[Len(x)] = a[Len(a) - Len(x) + Len(x)] /\ Len(a) - Len(x) + Len(x) = Len(a)
        <4>1. Len(x) \in 1 .. Len(x)
          BY <3>1
        <4>2. x[Len(x)] = a[Len(a) - Len(x) + Len(x)]
          BY <1>2, <4>1
        <4>3. Len(a) \in Nat /\ Len(x) \in Nat
          BY <1>1, <3>1
        <4> QED BY <4>2, <4>3
      <3> QED BY <1>1, <2>1, <3>1, <3>2
    <2>2. CASE j # 0
      <3>1. j - 1 \in 0 .. Len(r) - 1 /\ j - 1 < Window
        <4>1. j \in Nat /\ j <= Len(r) /\ Window \in Nat
          BY <1>1, <1>3
        <4> QED BY <1>1, <1>3, <2>2, <4>1
      <3>2. j - 1 < Len(s) /\ s[Len(s) - (j - 1)] = r[Len(r) - (j - 1)]
        BY <3>1 DEF Ends
      <3>3. j < Len(x) /\ Len(x) - j \in 1 .. Len(x) /\ Len(x) \in Nat
        BY <1>1, <1>3, <1>6, <3>1, <3>2
      <3>4. x[Len(x) - j] = a[Len(a) - Len(x) + (Len(x) - j)]
        BY <1>2, <3>3
      <3>5. Len(a) - Len(x) + (Len(x) - j) = Len(s) - (j - 1) /\ Len(b) - j = Len(r) - (j - 1)
        BY <1>1, <3>3
      <3>6. Len(s) - (j - 1) \in 1 .. Len(s) /\ Len(r) - (j - 1) \in 1 .. Len(r)
        BY <1>1, <2>2, <3>1, <3>2
      <3> QED BY <1>1, <3>2, <3>3, <3>4, <3>5, <3>6
    <2> QED BY <2>1, <2>2
  <1>4. Ends(x, b)
    BY <1>3 DEF Ends
  <1> QED BY <1>4 DEF x, a, b

\* The turns as messages: what the session assembler makes of a list of turns.
Messages(s) ==
    [i \in 1 .. 2 * Len(s) |-> Entry(s[(i + 1) \div 2], IF i % 2 = 1 THEN "user" ELSE "assistant")]

LEMMA Halves ==
    ASSUME NEW m \in Int, NEW i \in Int
    PROVE  /\ (2 * m + i + 1) \div 2 = m + ((i + 1) \div 2)
           /\ (2 * m + i) % 2 = 1 <=> i % 2 = 1
  OBVIOUS

\* The last messages of a replay are those of the process's own turns.
LEMMA ReplayEnds ==
    ASSUME NEW S, NEW s \in Seq(S), NEW r \in Seq(S), Ends(s, r),
           NEW replay, replay = Messages(LastN(s, Window)), replay \in Seq({Entry(u, v) : u \in S, v \in {"user", "assistant"}})
    PROVE  LastN(replay, 2 * Len(LastN(r, Window))) = Messages(LastN(r, Window))
  <1> DEFINE x == LastN(s, Window)
             y == LastN(r, Window)
             K == Len(y)
             L == Len(x)
             z == LastN(replay, 2 * K)
  <1>1. Window \in Nat /\ Len(s) \in Nat /\ Len(r) \in Nat
    BY CliConstants
  <1>2. /\ x \in Seq(S) /\ L = (IF Window < Len(s) THEN Window ELSE Len(s)) /\ L \in Nat
        /\ \A i \in 1 .. L : x[i] = s[Len(s) - L + i]
    BY <1>1, LastOnes
  <1>3. /\ y \in Seq(S) /\ K = (IF Window < Len(r) THEN Window ELSE Len(r)) /\ K \in Nat
        /\ \A i \in 1 .. K : y[i] = r[Len(r) - K + i]
    BY <1>1, LastOnes
  <1>4. Len(replay) = 2 * L /\ replay = Messages(x)
    <2>1. 2 * L \in Nat
      BY <1>2
    <2>2. DOMAIN replay = 1 .. 2 * L
      BY DEF Messages
    <2> HIDE DEF x, L
    <2>3. Len(replay) = 2 * L
      BY <2>1, <2>2
    <2> QED BY <2>3 DEF x
  <1> HIDE DEF x, y, L, K
  <1>14. K \in Nat /\ L \in Nat
    BY <1>2, <1>3
  <1>5. K <= Window /\ K <= Len(r) /\ L <= Len(s) /\ (L = Window \/ L = Len(s))
    <2>1. K <= Window /\ K <= Len(r)
      BY <1>1, <1>3
    <2>2. L <= Len(s) /\ (L = Window \/ L = Len(s))
      BY <1>1, <1>2
    <2> QED BY <2>1, <2>2
  <1>6. \A q \in 1 .. K : K - q < Len(s) /\ s[Len(s) - (K - q)] = r[Len(r) - (K - q)]
    <2> TAKE q \in 1 .. K
    <2>1. K - q \in 0 .. Len(r) - 1 /\ K - q < Window
      BY <1>1, <1>3, <1>5
    <2> QED BY <2>1 DEF Ends
  <1>7. K <= L
    <2>1. CASE K = 0
      BY <1>2, <2>1
    <2>2. CASE K # 0
      <3>1. 1 \in 1 .. K
        BY <1>14, <2>2
      <3>2. K - 1 < Len(s)
        BY <1>6, <3>1
      <3> QED BY <1>1, <1>5, <1>14, <3>2
    <2> QED BY <2>1, <2>2
  <1>8. \A q \in 1 .. K : x[L - K + q] = y[q]
    <2> TAKE q \in 1 .. K
    <2>1. L - K + q \in 1 .. L
      BY <1>7, <1>14
    <2>2. x[L - K + q] = s[Len(s) - L + (L - K + q)]
      BY <1>2, <2>1
    <2>3. y[q] = r[Len(r) - K + q]
      BY <1>3
    <2>4. Len(s) - L + (L - K + q) = Len(s) - (K - q) /\ Len(r) - K + q = Len(r) - (K - q)
      BY <1>1, <1>14
    <2> QED BY <1>6, <2>2, <2>3, <2>4
  <1>9. /\ Len(z) = 2 * K /\ z \in Seq({Entry(u, v) : u \in S, v \in {"user", "assistant"}})
        /\ \A i \in 1 .. 2 * K : z[i] = replay[2 * L - 2 * K + i]
    <2>1. 2 * K \in Nat /\ 2 * L \in Nat /\ 2 * K <= 2 * L
      BY <1>2, <1>3, <1>7
    <2>2. /\ Len(z) = (IF 2 * K < Len(replay) THEN 2 * K ELSE Len(replay))
          /\ z \in Seq({Entry(u, v) : u \in S, v \in {"user", "assistant"}})
          /\ \A i \in 1 .. Len(z) : z[i] = replay[Len(replay) - Len(z) + i]
      BY <2>1, LastOnes, SMTT(30)
    <2>3. Len(z) = 2 * K
      BY <1>4, <2>1, <2>2
    <2> HIDE DEF z
    <2> QED BY <1>4, <2>2, <2>3
  <1> HIDE DEF z
  <1>10. ASSUME NEW i \in 1 .. 2 * K
         PROVE  z[i] = Entry(y[(i + 1) \div 2], IF i % 2 = 1 THEN "user" ELSE "assistant")
    <2> DEFINE p == 2 * L - 2 * K + i
    <2>1. p \in 1 .. 2 * L /\ p \in Int
      BY <1>7, <1>14
    <2>2. replay[p] = Entry(x[(p + 1) \div 2], IF p % 2 = 1 THEN "user" ELSE "assistant")
      BY <1>4, <2>1 DEF Messages, L
    <2>3. (p + 1) \div 2 = L - K + ((i + 1) \div 2) /\ (p % 2 = 1 <=> i % 2 = 1)
      <3> DEFINE m == L - K
      <3>1. p = 2 * m + i /\ m \in Int /\ i \in Int
        BY <1>14
      <3> HIDE DEF m, p
      <3>2. /\ (2 * m + i + 1) \div 2 = m + ((i + 1) \div 2)
            /\ (2 * m + i) % 2 = 1 <=> i % 2 = 1
        BY <3>1, Halves
      <3>3. (p + 1) \div 2 = m + ((i + 1) \div 2) /\ (p % 2 = 1 <=> i % 2 = 1)
        BY <3>1, <3>2
      <3> QED BY <3>3 DEF m
    <2>4. (i + 1) \div 2 \in 1 .. K
      BY <1>14
    <2>5. z[i] = replay[p]
      BY <1>9
    <2> HIDE DEF p
    <2>6. x[(p + 1) \div 2] = y[(i + 1) \div 2]
      BY <1>8, <2>3, <2>4
    <2>7. CASE i % 2 = 1
      BY <2>2, <2>3, <2>5, <2>6, <2>7
    <2>8. CASE i % 2 # 1
      BY <2>2, <2>3, <2>5, <2>6, <2>8
    <2> QED BY <2>7, <2>8
  <1>11. Len(Messages(y)) = 2 * K
         /\ \A i \in 1 .. 2 * K : Messages(y)[i] = Entry(y[(i + 1) \div 2], IF i % 2 = 1 THEN "user" ELSE "assistant")
    <2>1. 2 * K \in Nat
      BY <1>3
    <2> QED BY <2>1 DEF Messages, K
  <1>12. z = [i \in 1 .. 2 * K |-> z[i]] /\ Messages(y) = [i \in 1 .. 2 * K |-> Messages(y)[i]]
    <2>1. z = [i \in 1 .. 2 * K |-> z[i]]
      BY <1>9
    <2>2. Messages(y) = [i \in 1 .. 2 * K |-> Messages(y)[i]]
      BY DEF Messages, K
    <2> QED BY <2>1, <2>2
  <1>13. z = Messages(y)
    BY <1>10, <1>11, <1>12
  <1> QED BY <1>13 DEF z, y, K

-----------------------------------------------------------------------------
\* The turns of a file's whole lines.
Readable(f) == {f[i].turn : i \in Wholes(f)}

Pieces == {Line(u) : u \in Turn} \cup {Newline} \cup Parts

LEMMA PieceFacts ==
    /\ \A u : Line(u).piece = "line" /\ Line(u).turn = u /\ Line(u) # Newline
    /\ Newline.piece # "line" /\ \A p \in Parts : p.piece # "line" /\ p # Newline
    /\ \A p \in Pieces : p.piece = "line" => p.turn \in Turn
  <1>1. \A u : Line(u).piece = "line" /\ Line(u).turn = u
    BY DEF Line
  <1>2. Partial.piece = "partial" /\ Torn.piece = "torn" /\ Newline.piece = "newline"
    BY DEF Partial, Torn, Newline
  <1>3. \A p \in Parts : p.piece # "line" /\ p # Newline
    BY <1>2 DEF Parts
  <1> QED BY <1>1, <1>2, <1>3 DEF Pieces

LEMMA ReadFileFacts ==
    ASSUME NEW f \in Seq(Pieces)
    PROVE  ReadFile(f) \in Seq(Turn) /\ (IsText(f) => Readable(f) = Range(ReadFile(f)))
  <1> DEFINE n == Cardinality(Wholes(f))
             lines == Picked(f, Wholes(f))
  <1>1. /\ n \in Nat
        /\ \A i \in Wholes(f) : \E k \in 1 .. n : Nth(Wholes(f), k) = i
        /\ \A k \in 1 .. n : Nth(Wholes(f), k) \in Wholes(f)
    <2>1. Wholes(f) \in SUBSET (1 .. Len(f)) /\ Len(f) \in Nat
      BY DEF Wholes
    <2> QED BY <2>1, Ranks
  <1>2. \A i \in Wholes(f) : f[i].turn \in Turn
    <2> TAKE i \in Wholes(f)
    <2>1. f[i] \in Pieces /\ f[i].piece = "line"
      BY DEF Wholes
    <2> QED BY <2>1, PieceFacts
  <1>3. lines = [k \in 1 .. n |-> f[Nth(Wholes(f), k)]]
    BY DEF Picked
  <1>4. ASSUME ~IsText(f) PROVE ReadFile(f) \in Seq(Turn)
    BY <1>4 DEF ReadFile
  <1> SUFFICES ASSUME IsText(f) PROVE ReadFile(f) \in Seq(Turn) /\ Readable(f) = Range(ReadFile(f))
    BY <1>4
  <1>5. ReadFile(f) = [k \in DOMAIN lines |-> lines[k].turn]
    BY DEF ReadFile
  <1> HIDE DEF n, lines
  <1>6. ReadFile(f) = [k \in 1 .. n |-> f[Nth(Wholes(f), k)].turn]
    BY <1>3, <1>5
  <1>7. ReadFile(f) \in Seq(Turn) /\ DOMAIN ReadFile(f) = 1 .. n
    BY <1>1, <1>2, <1>6
  <1>8. Range(ReadFile(f)) = {f[Nth(Wholes(f), k)].turn : k \in 1 .. n}
    BY <1>6 DEF Range
  <1>9. Readable(f) = {f[Nth(Wholes(f), k)].turn : k \in 1 .. n}
    BY <1>1 DEF Readable
  <1> QED BY <1>7, <1>8, <1>9

-----------------------------------------------------------------------------
\* What a turn says.
LEMMA SaidEntries ==
    ASSUME NEW n \in Turn, NEW r \in Replies
    PROVE  Said(n, r) \in Seq(Entries)
  <1> DEFINE texts == {i \in DOMAIN r : r[i] # "blank"}
             said == [i \in 1 .. Cardinality(texts) |-> Entry(n, "assistant")]
  <1>1. r \in Seq({"text", "blank"})
    BY CliConstants
  <1>2. Cardinality(texts) \in Nat
    <2>1. DOMAIN r = 1 .. Len(r) /\ Len(r) \in Nat /\ texts \subseteq 1 .. Len(r)
      BY <1>1
    <2>2. IsFiniteSet(1 .. Len(r))
      BY <2>1, FS_Interval
    <2>3. IsFiniteSet(texts)
      BY <2>1, <2>2, FS_Subset
    <2> QED BY <2>3, FS_CardinalityType
  <1>3. \A role \in {"user", "assistant"} : Entry(n, role) \in Entries
    BY DEF Entries
  <1> HIDE DEF texts
  <1>4. said \in Seq(Entries) /\ <<Entry(n, "user")>> \in Seq(Entries)
    BY <1>2, <1>3
  <1> HIDE DEF said
  <1>5. <<Entry(n, "user")>> \o said \in Seq(Entries)
    BY <1>4
  <1> QED BY <1>5 DEF Said, said, texts

LEMMA ReplayEntries ==
    ASSUME NEW t \in Terminals, cache[t] \in Seq(Turn)
    PROVE  SessionReplay(t) \in Seq(Entries) /\ SessionReplay(t) = Messages(LastN(cache[t], Window))
  <1> DEFINE s == LastN(cache[t], Window)
  <1>1. s \in Seq(Turn)
    BY LastOnes, CliConstants
  <1>2. SessionReplay(t) = Messages(s)
    BY DEF SessionReplay, Messages, CachedTurns
  <1> HIDE DEF s
  <1>3. ASSUME NEW i \in 1 .. 2 * Len(s)
        PROVE  Entry(s[(i + 1) \div 2], IF i % 2 = 1 THEN "user" ELSE "assistant") \in Entries
    <2>1. (i + 1) \div 2 \in 1 .. Len(s)
      <3>1. Len(s) \in Nat
        BY <1>1
      <3> QED BY <3>1
    <2>2. s[(i + 1) \div 2] \in Turn
      BY <1>1, <2>1
    <2> QED BY <2>2 DEF Entries
  <1>4. Messages(s) \in Seq(Entries)
    <2>1. 2 * Len(s) \in Nat
      BY <1>1
    <2> QED BY <1>3, <2>1 DEF Messages
  <1> QED BY <1>2, <1>4 DEF s

LEMMA CliTypesKeep == CliTypeOK /\ [CliNext]_cliVars => CliTypeOK'
  <1> SUFFICES ASSUME CliTypeOK, [CliNext]_cliVars PROVE CliTypeOK'
    OBVIOUS
  <1>1. /\ kind \in [Terminals -> Kinds]
        /\ pc \in [Terminals -> {"prompt", "push", "line", "newline", "cache", "show", "down"}]
        /\ turn \in [Terminals -> Turn \cup {NoTurn}]
        /\ \A t \in Terminals : turn[t] = NoTurn => pc[t] \in {"prompt", "down"}
        /\ context \in [Terminals -> Seq(Entries)] /\ history \in [Terminals -> Seq(Entries)]
        /\ conv \in [Terminals -> Seq(Entries)]
        /\ cache \in [Terminals -> Seq(Turn)] /\ own \in [Terminals -> Seq(Turn)]
        /\ file \in Seq(Pieces)
        /\ turns \in 0 .. MaxTurns /\ faults \in 0 .. MaxFaults
        /\ shown \subseteq Turn /\ broken \in Nat
        /\ MaxTurns \in Nat /\ MaxFaults \in Nat /\ Window \in Nat
    BY CliConstants DEF CliTypeOK, Pieces
  <1>2. \A p \in Pieces : Append(file, p) \in Seq(Pieces)
    BY <1>1
  <1>3. Newline \in Pieces /\ Parts \subseteq Pieces /\ \A u \in Turn : Line(u) \in Pieces
    BY DEF Pieces
  <1>4. <<>> \in Seq(Entries) /\ <<>> \in Seq(Turn)
    OBVIOUS
  <1>5. \A t \in Terminals : turn[t] # NoTurn => turn[t] \in Turn
    BY <1>1
  <1>6. faults < MaxFaults => faults + 1 \in 0 .. MaxFaults
    BY <1>1
  <1>7. broken + 1 \in Nat
    BY <1>1
  <1>8. ASSUME NEW t \in Terminals, ReadLine(t) PROVE CliTypeOK'
    <2>1. turns + 1 \in Turn /\ turns + 1 \in 0 .. MaxTurns /\ turns + 1 # NoTurn
      BY <1>1, <1>8 DEF ReadLine, Turn, NoTurn
    <2>2. Assemble(t) \in Seq(Entries)
      BY <1>1, <1>4, ReplayEntries DEF Assemble
    <2> QED BY <1>1, <1>8, <2>1, <2>2, SMTT(30) DEF ReadLine, CliTypeOK, Pieces
  <1>9. ASSUME NEW t \in Terminals, PushHistory(t) PROVE CliTypeOK'
    <2>1. turn[t] \in Turn
      BY <1>1, <1>9 DEF PushHistory
    <2>2. PICK r \in Replies :
             /\ history' = [history EXCEPT ![t] = LastN(@ \o Said(turn[t], r), 2 * Window)]
             /\ conv' = [conv EXCEPT ![t] = @ \o Said(turn[t], r)]
      BY <1>9 DEF PushHistory
    <2>3. Said(turn[t], r) \in Seq(Entries)
      BY <2>1, SaidEntries
    <2>4. history[t] \o Said(turn[t], r) \in Seq(Entries) /\ conv[t] \o Said(turn[t], r) \in Seq(Entries)
      BY <1>1, <2>3
    <2>5. LastN(history[t] \o Said(turn[t], r), 2 * Window) \in Seq(Entries)
      <3>1. 2 * Window \in Nat
        BY <1>1
      <3> QED BY <2>4, <3>1, LastOnes
    <2>6. history' \in [Terminals -> Seq(Entries)] /\ conv' \in [Terminals -> Seq(Entries)]
      BY <1>1, <2>2, <2>4, <2>5
    <2> QED BY <1>1, <1>9, <2>1, <2>6 DEF PushHistory, CliTypeOK, Pieces
  <1>10. ASSUME NEW t \in Terminals, WriteLine(t) PROVE CliTypeOK'
    <2>1. turn[t] \in Turn
      BY <1>1, <1>10 DEF WriteLine
    <2> QED BY <1>1, <1>2, <1>3, <1>7, <1>10, <2>1 DEF WriteLine, CliTypeOK, Pieces
  <1>11. ASSUME NEW t \in Terminals, WriteNewline(t) PROVE CliTypeOK'
    BY <1>1, <1>2, <1>3, <1>11 DEF WriteNewline, CliTypeOK, Pieces
  <1>12. ASSUME NEW t \in Terminals, WriteFails(t) PROVE CliTypeOK'
    BY <1>1, <1>2, <1>3, <1>6, <1>7, <1>12 DEF WriteFails, CliTypeOK, Pieces
  <1>13. ASSUME NEW t \in Terminals, UpdateCache(t) PROVE CliTypeOK'
    <2>1. turn[t] \in Turn
      BY <1>1, <1>13 DEF UpdateCache
    <2>2. Append(cache[t], turn[t]) \in Seq(Turn) /\ Append(own[t], turn[t]) \in Seq(Turn)
      BY <1>1, <2>1
    <2>3. LastN(Append(cache[t], turn[t]), Window) \in Seq(Turn)
      BY <1>1, <2>2, LastOnes
    <2> QED BY <1>1, <1>13, <2>2, <2>3 DEF UpdateCache, CliTypeOK, Pieces
  <1>14. ASSUME NEW t \in Terminals, Show(t) PROVE CliTypeOK'
    <2>1. turn[t] \in Turn
      BY <1>1, <1>14 DEF Show
    <2>2. NoTurn \in Turn \cup {NoTurn}
      OBVIOUS
    <2> QED BY <1>1, <1>4, <1>14, <2>1, <2>2 DEF Show, CliTypeOK, Pieces
  <1>15. ASSUME NEW t \in Terminals, ShowFails(t) PROVE CliTypeOK'
    BY <1>1, <1>6, <1>15 DEF ShowFails, CliTypeOK, Pieces
  <1>16. ASSUME NEW t \in Terminals, Quit(t) PROVE CliTypeOK'
    BY <1>1, <1>16 DEF Quit, CliTypeOK, Pieces
  <1>17. ASSUME NEW t \in Terminals, Crash(t) PROVE CliTypeOK'
    BY <1>1, <1>2, <1>3, <1>6, <1>7, <1>17 DEF Crash, CliTypeOK, Pieces
  <1>18. ASSUME NEW t \in Terminals, Restart(t) PROVE CliTypeOK'
    <2>1. ReadFile(file) \in Seq(Turn)
      BY <1>1, ReadFileFacts
    <2> QED BY <1>1, <1>4, <1>18, <2>1 DEF Restart, CliTypeOK, Pieces
  <1>19. CASE UNCHANGED cliVars
    BY <1>19 DEF cliVars, CliTypeOK
  <1> QED BY <1>8, <1>9, <1>10, <1>11, <1>12, <1>13, <1>14, <1>15, <1>16, <1>17, <1>18, <1>19
          DEF CliNext, CliStep

\* The types of the command line's conversations and of their file.
THEOREM CliTypes == CliSpec => []CliTypeOK
  <1>1. CliInit => CliTypeOK
    BY CliConstants DEF CliInit, CliTypeOK, NoTurn
  <1> QED BY <1>1, CliTypesKeep, PTL DEF CliSpec

-----------------------------------------------------------------------------
(* What a conversation's assemblers remember.                              *)

\* The rolling history is the end of the conversation, and the cache ends with
\* the process's own turns; the context in hand was made of the one or the other.
Remembers(at, sent, kept, said, cached, mine) ==
    /\ kept = LastN(said, 2 * Window)
    /\ at = "push" => sent = kept
    /\ at = "line" => sent = Messages(LastN(cached, Window))
    /\ Ends(cached, mine)

AllRemember ==
    \A t \in Terminals : Remembers(pc[t], context[t], history[t], conv[t], cache[t], own[t])

\* A step that concerns one process.
LEMMA OneRemembers ==
    ASSUME AllRemember, NEW t \in Terminals,
           \A s \in Terminals \ {t} :
              /\ pc'[s] = pc[s] /\ context'[s] = context[s] /\ history'[s] = history[s]
              /\ conv'[s] = conv[s] /\ cache'[s] = cache[s] /\ own'[s] = own[s],
           Remembers(pc'[t], context'[t], history'[t], conv'[t], cache'[t], own'[t])
    PROVE  AllRemember'
  <1> SUFFICES ASSUME NEW s \in Terminals
               PROVE  Remembers(pc'[s], context'[s], history'[s], conv'[s], cache'[s], own'[s])
    BY DEF AllRemember
  <1>1. CASE s = t
    BY <1>1
  <1>2. CASE s # t
    BY <1>2 DEF AllRemember
  <1> QED BY <1>1, <1>2

LEMMA RememberingKeeps == CliTypeOK /\ AllRemember /\ [CliNext]_cliVars => AllRemember'
  <1> SUFFICES ASSUME CliTypeOK, AllRemember, [CliNext]_cliVars PROVE AllRemember'
    OBVIOUS
  <1>1. /\ pc \in [Terminals -> {"prompt", "push", "line", "newline", "cache", "show", "down"}]
        /\ turn \in [Terminals -> Turn \cup {NoTurn}]
        /\ \A t \in Terminals : turn[t] = NoTurn => pc[t] \in {"prompt", "down"}
        /\ context \in [Terminals -> Seq(Entries)] /\ history \in [Terminals -> Seq(Entries)]
        /\ conv \in [Terminals -> Seq(Entries)]
        /\ cache \in [Terminals -> Seq(Turn)] /\ own \in [Terminals -> Seq(Turn)]
        /\ Window \in Nat
    BY CliConstants DEF CliTypeOK
  <1>2. \A t \in Terminals : Remembers(pc[t], context[t], history[t], conv[t], cache[t], own[t])
    BY DEF AllRemember
  <1>3. ASSUME NEW t \in Terminals, ReadLine(t) PROVE AllRemember'
    <2>1. /\ context' = [context EXCEPT ![t] = Assemble(t)]
          /\ pc' = [pc EXCEPT ![t] = CASE kind[t] = "rolling" -> "push"
                                       [] kind[t] = "session" -> "line"
                                       [] OTHER -> "show"]
          /\ UNCHANGED <<kind, history, cache, conv, own>>
      BY <1>3 DEF ReadLine
    <2>2. /\ pc'[t] = "push" => kind[t] = "rolling"
          /\ pc'[t] = "line" => kind[t] = "session"
          /\ \A s \in Terminals \ {t} : pc'[s] = pc[s] /\ context'[s] = context[s]
          /\ context'[t] = Assemble(t)
      BY <1>1, <2>1
    <2>3. kind[t] = "rolling" => Assemble(t) = history[t]
      BY DEF Assemble
    <2>4. kind[t] = "session" => Assemble(t) = Messages(LastN(cache[t], Window))
      BY <1>1, ReplayEntries DEF Assemble
    <2>5. Remembers(pc'[t], context'[t], history'[t], conv'[t], cache'[t], own'[t])
      BY <1>2, <2>1, <2>2, <2>3, <2>4 DEF Remembers
    <2> QED BY <2>1, <2>2, <2>5, OneRemembers
  <1>4. ASSUME NEW t \in Terminals, PushHistory(t) PROVE AllRemember'
    <2>1. PICK r \in Replies :
             /\ history' = [history EXCEPT ![t] = LastN(@ \o Said(turn[t], r), 2 * Window)]
             /\ conv' = [conv EXCEPT ![t] = @ \o Said(turn[t], r)]
      BY <1>4 DEF PushHistory
    <2>2. /\ pc' = [pc EXCEPT ![t] = "show"] /\ pc[t] = "push"
          /\ UNCHANGED <<context, cache, own>>
      BY <1>4 DEF PushHistory
    <2>3. Said(turn[t], r) \in Seq(Entries)
      BY <1>1, <2>2, SaidEntries
    <2>4. LastN(history[t] \o Said(turn[t], r), 2 * Window) = LastN(conv[t] \o Said(turn[t], r), 2 * Window)
      <3>1. history[t] = LastN(conv[t], 2 * Window)
        BY <1>2 DEF Remembers
      <3>2. 2 * Window \in Nat
        BY <1>1
      <3>3. conv[t] \in Seq(Entries)
        BY <1>1
      <3> QED BY <2>3, <3>1, <3>2, <3>3, LastOfLast
    <2>5. history'[t] = LastN(conv'[t], 2 * Window)
      BY <1>1, <2>1, <2>4
    <2>6. pc'[t] = "show"
      BY <1>1, <2>2
    <2>7. Remembers(pc'[t], context'[t], history'[t], conv'[t], cache'[t], own'[t])
      BY <1>2, <2>2, <2>5, <2>6 DEF Remembers
    <2>8. \A s \in Terminals \ {t} : pc'[s] = pc[s] /\ history'[s] = history[s] /\ conv'[s] = conv[s]
      BY <1>1, <2>1, <2>2
    <2> QED BY <2>2, <2>7, <2>8, OneRemembers
  <1>5. ASSUME NEW t \in Terminals, UpdateCache(t) PROVE AllRemember'
    <2>1. /\ pc[t] = "cache" /\ pc' = [pc EXCEPT ![t] = "show"]
          /\ cache' = [cache EXCEPT ![t] = LastN(Append(@, turn[t]), Window)]
          /\ own' = [own EXCEPT ![t] = Append(@, turn[t])]
          /\ UNCHANGED <<context, history, conv>>
      BY <1>5 DEF UpdateCache
    <2>2. Ends(LastN(Append(cache[t], turn[t]), Window), Append(own[t], turn[t]))
      <3>1. turn[t] \in Turn /\ cache[t] \in Seq(Turn) /\ own[t] \in Seq(Turn)
        BY <1>1, <2>1
      <3>2. Ends(cache[t], own[t])
        BY <1>2 DEF Remembers
      <3> QED BY <3>1, <3>2, EndsGrow
    <2>3. /\ pc'[t] = "show" /\ cache'[t] = LastN(Append(cache[t], turn[t]), Window)
          /\ own'[t] = Append(own[t], turn[t])
          /\ \A s \in Terminals \ {t} : pc'[s] = pc[s] /\ cache'[s] = cache[s] /\ own'[s] = own[s]
      BY <1>1, <2>1
    <2>4. Remembers(pc'[t], context'[t], history'[t], conv'[t], cache'[t], own'[t])
      BY <1>2, <2>1, <2>2, <2>3 DEF Remembers
    <2> QED BY <2>1, <2>3, <2>4, OneRemembers
  <1>6. ASSUME NEW t \in Terminals, Restart(t) PROVE AllRemember'
    <2>1. /\ pc'[t] = "prompt" /\ context'[t] = <<>> /\ history'[t] = <<>> /\ conv'[t] = <<>>
          /\ own'[t] = <<>>
          /\ \A s \in Terminals \ {t} :
                /\ pc'[s] = pc[s] /\ context'[s] = context[s] /\ history'[s] = history[s]
                /\ conv'[s] = conv[s] /\ cache'[s] = cache[s] /\ own'[s] = own[s]
      BY <1>1, <1>6 DEF Restart
    <2>2. LastN(<<>>, 2 * Window) = <<>>
      <3>1. 2 * Window \in Nat
        BY <1>1
      <3> QED BY <3>1, LastOfNone
    <2>3. \A s : Ends(s, <<>>)
      BY DEF Ends
    <2>4. Remembers(pc'[t], context'[t], history'[t], conv'[t], cache'[t], own'[t])
      BY <2>1, <2>2, <2>3 DEF Remembers
    <2> QED BY <2>1, <2>4, OneRemembers
  <1>7. ASSUME NEW t \in Terminals,
               Quit(t) \/ WriteLine(t) \/ WriteNewline(t) \/ WriteFails(t) \/ Show(t) \/ ShowFails(t) \/ Crash(t)
        PROVE  AllRemember'
    <2>1. /\ pc'[t] \notin {"push", "line"}
          /\ \A s \in Terminals \ {t} : pc'[s] = pc[s] /\ context'[s] = context[s]
          /\ UNCHANGED <<history, cache, conv, own>>
      BY <1>1, <1>7 DEF Quit, WriteLine, WriteNewline, WriteFails, Show, ShowFails, Crash
    <2>2. Remembers(pc'[t], context'[t], history'[t], conv'[t], cache'[t], own'[t])
      BY <1>2, <2>1 DEF Remembers
    <2> QED BY <2>1, <2>2, OneRemembers
  <1>8. CASE UNCHANGED cliVars
    BY <1>8 DEF cliVars, AllRemember
  <1> QED BY <1>3, <1>4, <1>5, <1>6, <1>7, <1>8 DEF CliNext, CliStep

LEMMA RememberingStarts == CliInit => AllRemember
  <1> SUFFICES ASSUME CliInit PROVE AllRemember
    OBVIOUS
  <1>1. LastN(<<>>, 2 * Window) = <<>>
    <2>1. 2 * Window \in Nat
      BY CliConstants
    <2> QED BY <2>1, LastOfNone
  <1>2. Ends(<<>>, <<>>)
    BY DEF Ends
  <1> QED BY <1>1, <1>2 DEF CliInit, AllRemember, Remembers

\* A rolling history replays the most recent part of the conversation.
THEOREM HistoryStaysRecent == CliSpec => []HistoryIsRecentSuffix
  <1>1. AllRemember => HistoryIsRecentSuffix
    BY DEF AllRemember, Remembers, HistoryIsRecentSuffix
  <1> QED BY <1>1, CliTypes, RememberingStarts, RememberingKeeps, PTL DEF CliSpec

\* A process's last turns are in the context of its next one, whatever became
\* of them in the file.
THEOREM OwnTurnsStayRemembered == CliSpec => []OwnTurnsRemembered
  <1>1. CliTypeOK /\ AllRemember => OwnTurnsRemembered
    <2> SUFFICES ASSUME CliTypeOK, AllRemember, NEW t \in Terminals, pc[t] = "line"
                 PROVE  LastN(context[t], 2 * Len(LastN(own[t], Window))) = Messages(LastN(own[t], Window))
      BY DEF OwnTurnsRemembered, Messages
    <2>1. context[t] = Messages(LastN(cache[t], Window)) /\ Ends(cache[t], own[t])
      BY DEF AllRemember, Remembers
    <2>2. cache[t] \in Seq(Turn) /\ own[t] \in Seq(Turn) /\ context[t] \in Seq(Entries)
      BY DEF CliTypeOK
    <2> QED BY <2>1, <2>2, ReplayEnds DEF Entries
  <1> QED BY <1>1, CliTypes, RememberingStarts, RememberingKeeps, PTL DEF CliSpec

-----------------------------------------------------------------------------
(* What a file loses.                                                      *)

\* What the next append may cost when nobody is in the middle of one: a file
\* that ends inside a line takes the next line on it, and loses a whole one.
Weight(f) ==
    IF f = <<>> \/ f[Len(f)] = Newline THEN 0 ELSE IF Len(f) \in Wholes(f) THEN 2 ELSE 1

LEMMA ReadMore ==
    ASSUME NEW f \in Seq(Pieces), NEW x \in Pieces
    PROVE  /\ x = Newline => Readable(f) \subseteq Readable(Append(f, x))
           /\ Weight(f) # 2 => Readable(f) \subseteq Readable(Append(f, x))
           /\ \E u : Readable(f) \subseteq Readable(Append(f, x)) \cup {u}
           /\ Weight(f) = 0 /\ x.piece = "line" => x.turn \in Readable(Append(f, x))
           /\ x = Newline => Weight(Append(f, x)) = 0
           /\ x \in Parts => Weight(Append(f, x)) = 1
           /\ Weight(f) \in 0 .. 2
  <1> DEFINE g == Append(f, x)
             n == Len(f)
  <1>1. /\ n \in Nat /\ Len(g) = n + 1 /\ g[n + 1] = x /\ \A i \in 1 .. n : g[i] = f[i]
        /\ DOMAIN f = 1 .. n /\ DOMAIN g = 1 .. n + 1
    OBVIOUS
  <1> HIDE DEF g
  <1>2. g # <<>> /\ (f # <<>> <=> n # 0)
    BY <1>1
  <1> HIDE DEF n
  <1>3. ASSUME NEW i \in Wholes(f), i # n \/ x = Newline
        PROVE  i \in Wholes(g) /\ g[i].turn = f[i].turn
    <2>1. /\ i \in 1 .. n /\ f[i].piece = "line" /\ (i = 1 \/ f[i - 1] = Newline)
          /\ i = n \/ f[i + 1] = Newline
      BY <1>1 DEF Wholes, n
    <2>2. g[i] = f[i] /\ i \in 1 .. n + 1 /\ i \in Int
      BY <1>1, <2>1
    <2>3. i = 1 \/ g[i - 1] = Newline
      <3>1. CASE i # 1
        <4>1. i - 1 \in 1 .. n
          BY <1>1, <2>1, <3>1
        <4> QED BY <1>1, <2>1, <3>1, <4>1
      <3> QED BY <3>1
    <2>4. g[i + 1] = Newline
      <3>1. CASE i = n
        BY <1>1, <1>3, <3>1
      <3>2. CASE i # n
        <4>1. i + 1 \in 1 .. n
          BY <1>1, <2>1, <3>2
        <4> QED BY <1>1, <2>1, <3>2, <4>1
      <3> QED BY <3>1, <3>2
    <2> QED BY <1>1, <2>1, <2>2, <2>3, <2>4 DEF Wholes
  <1>4. x = Newline => Readable(f) \subseteq Readable(g)
    BY <1>3 DEF Readable
  <1>5. n \in Wholes(f) => Weight(f) = 2
    <2> SUFFICES ASSUME n \in Wholes(f) PROVE Weight(f) = 2
      OBVIOUS
    <2>1. n \in 1 .. n /\ f[n].piece = "line"
      BY <1>1 DEF Wholes
    <2>2. f # <<>> /\ f[n] # Newline
      BY <1>1, <1>2, <2>1, PieceFacts
    <2> QED BY <2>2 DEF Weight, n
  <1>6. Weight(f) # 2 => Readable(f) \subseteq Readable(g)
    BY <1>3, <1>5 DEF Readable
  <1>7. Readable(f) \subseteq Readable(g) \cup {f[n].turn}
    BY <1>3 DEF Readable
  <1>8. Weight(f) = 0 /\ x.piece = "line" => x.turn \in Readable(g)
    <2> SUFFICES ASSUME Weight(f) = 0, x.piece = "line" PROVE x.turn \in Readable(g)
      OBVIOUS
    <2>1. n = 0 \/ f[n] = Newline
      BY <1>2 DEF Weight, n
    <2>2. n + 1 = 1 \/ g[n + 1 - 1] = Newline
      <3>1. CASE n # 0
        <4>1. n \in 1 .. n /\ n + 1 - 1 = n
          BY <1>1, <3>1
        <4> QED BY <1>1, <2>1, <3>1, <4>1
      <3>2. CASE n = 0
        BY <3>2
      <3> QED BY <3>1, <3>2
    <2>3. n + 1 \in 1 .. n + 1
      BY <1>1
    <2>4. n + 1 \in Wholes(g)
      BY <1>1, <2>2, <2>3 DEF Wholes
    <2> QED BY <1>1, <2>4 DEF Readable
  <1>9. x = Newline => Weight(g) = 0
    BY <1>1 DEF Weight
  <1>10. x \in Parts => Weight(g) = 1
    <2> SUFFICES ASSUME x \in Parts PROVE Weight(g) = 1
      OBVIOUS
    <2>1. g[Len(g)] = x /\ x # Newline /\ x.piece # "line"
      BY <1>1, PieceFacts
    <2>2. Len(g) \notin Wholes(g)
      BY <2>1 DEF Wholes
    <2> QED BY <1>2, <2>1, <2>2 DEF Weight
  <1>11. Weight(f) \in 0 .. 2
    BY DEF Weight
  <1> QED BY <1>4, <1>6, <1>7, <1>8, <1>9, <1>10, <1>11 DEF g

\* The turns that a session's processes show or are about to show.
Holding == {"newline", "cache", "show"}
Held == {turn[t] : t \in {s \in Terminals : kind[s] = "session" /\ pc[s] \in Holding}}
Lost == (shown \cup Held) \ Readable(file)

Open == IF Appending = {} THEN Weight(file) ELSE 0

\* Two turns for each damaged append pay for what is lost and may be.
LossIsPaid == Cardinality(Lost) + Open <= 2 * broken

LEMMA FewerLost ==
    ASSUME NEW X, IsFiniteSet(X), NEW Y, NEW a, NEW b
    PROVE  /\ Cardinality(X) \in Nat
           /\ Y \subseteq X => Cardinality(Y) \in Nat /\ Cardinality(Y) <= Cardinality(X)
           /\ Y \subseteq X \cup {a} => Cardinality(Y) \in Nat /\ Cardinality(Y) <= Cardinality(X) + 1
           /\ Y \subseteq X \cup {a} \cup {b} => Cardinality(Y) \in Nat /\ Cardinality(Y) <= Cardinality(X) + 2
  <1>1. Cardinality(X) \in Nat
    BY FS_CardinalityType
  <1>2. /\ IsFiniteSet(X \cup {a}) /\ Cardinality(X \cup {a}) \in Nat
        /\ Cardinality(X \cup {a}) <= Cardinality(X) + 1
    <2>1. IsFiniteSet(X \cup {a}) /\ Cardinality(X \cup {a}) = IF a \in X THEN Cardinality(X) ELSE Cardinality(X) + 1
      BY FS_AddElement
    <2>2. Cardinality(X \cup {a}) = Cardinality(X) \/ Cardinality(X \cup {a}) = Cardinality(X) + 1
      BY <2>1
    <2> QED BY <1>1, <2>1, <2>2
  <1> DEFINE Z == X \cup {a}
  <1>3. /\ IsFiniteSet(Z \cup {b}) /\ Cardinality(Z \cup {b}) \in Nat
        /\ Cardinality(Z \cup {b}) <= Cardinality(Z) + 1
    <2>1. IsFiniteSet(Z)
      BY <1>2
    <2> HIDE DEF Z
    <2>2. IsFiniteSet(Z \cup {b}) /\ Cardinality(Z \cup {b}) = IF b \in Z THEN Cardinality(Z) ELSE Cardinality(Z) + 1
      BY <2>1, FS_AddElement
    <2>3. Cardinality(Z \cup {b}) = Cardinality(Z) \/ Cardinality(Z \cup {b}) = Cardinality(Z) + 1
      BY <2>2
    <2>4. Cardinality(Z) \in Nat
      BY <2>1, FS_CardinalityType
    <2> QED BY <2>2, <2>3, <2>4
  <1>4. ASSUME NEW S, IsFiniteSet(S), Y \subseteq S
        PROVE  Cardinality(Y) \in Nat /\ Cardinality(Y) <= Cardinality(S)
    BY <1>4, FS_Subset, FS_CardinalityType
  <1>5. Y \subseteq X => Cardinality(Y) \in Nat /\ Cardinality(Y) <= Cardinality(X)
    BY <1>4
  <1>6. Y \subseteq Z => Cardinality(Y) \in Nat /\ Cardinality(Y) <= Cardinality(X) + 1
    <2>1. Y \subseteq Z => Cardinality(Y) \in Nat /\ Cardinality(Y) <= Cardinality(Z)
      BY <1>2, <1>4
    <2> QED BY <1>1, <1>2, <2>1
  <1>7. Y \subseteq Z \cup {b} => Cardinality(Y) \in Nat /\ Cardinality(Y) <= Cardinality(X) + 2
    <2>1. Y \subseteq Z \cup {b} => Cardinality(Y) \in Nat /\ Cardinality(Y) <= Cardinality(Z \cup {b})
      BY <1>3, <1>4
    <2>2. Cardinality(Z) \in Nat /\ Cardinality(Z) <= Cardinality(X) + 1
      BY <1>2
    <2> HIDE DEF Z
    <2> QED BY <1>1, <1>3, <2>1, <2>2
  <1> QED BY <1>1, <1>5, <1>6, <1>7

LEMMA HeldAfter ==
    ASSUME NEW t \in Terminals, kind' = kind,
           \A s \in Terminals \ {t} : pc'[s] = pc[s] /\ turn'[s] = turn[s]
    PROVE  /\ Held' \subseteq Held \cup {turn'[t]}
           /\ pc'[t] \notin Holding => Held' \subseteq Held
           /\ turn'[t] = turn[t] /\ pc[t] \in Holding => Held' \subseteq Held
  BY DEF Held

LEMMA LostIsFinite == CliTypeOK => IsFiniteSet(Lost)
  <1> SUFFICES ASSUME CliTypeOK PROVE IsFiniteSet(Lost)
    OBVIOUS
  <1>1. /\ turn \in [Terminals -> Turn \cup {NoTurn}] /\ shown \subseteq Turn /\ MaxTurns \in Nat
    BY CliConstants DEF CliTypeOK
  <1>2. Turn \cup {NoTurn} = 0 .. MaxTurns
    BY <1>1 DEF Turn, NoTurn
  <1>3. Lost \subseteq 0 .. MaxTurns
    BY <1>1, <1>2 DEF Lost, Held
  <1>4. IsFiniteSet(0 .. MaxTurns)
    BY <1>1, FS_Interval
  <1> QED BY <1>3, <1>4, FS_Subset

LEMMA Paying ==
    ASSUME NEW c \in Nat, NEW d \in Nat, NEW o \in Nat, NEW p \in Nat, NEW b \in Nat, NEW e \in Nat,
           NEW k \in Nat, d <= c + k, p + k <= o + 2 * (e - b), c + o <= 2 * b
    PROVE  d + p <= 2 * e
  OBVIOUS

\* A rolling history is not a session's.
PushesRoll == \A t \in Terminals : pc[t] = "push" => kind[t] # "session"

LEMMA PushesRollKeeps == CliTypeOK /\ PushesRoll /\ [CliNext]_cliVars => PushesRoll'
  <1> SUFFICES ASSUME CliTypeOK, PushesRoll, [CliNext]_cliVars PROVE PushesRoll'
    OBVIOUS
  <1>1. pc \in [Terminals -> {"prompt", "push", "line", "newline", "cache", "show", "down"}]
    BY DEF CliTypeOK
  <1>2. ASSUME NEW t \in Terminals, CliStep(t) \/ Quit(t) \/ Crash(t) \/ Restart(t)
        PROVE  PushesRoll'
    <2>1. kind' = kind /\ \A s \in Terminals \ {t} : pc'[s] = pc[s]
      BY <1>1, <1>2 DEF CliStep, ReadLine, PushHistory, WriteLine, WriteNewline, WriteFails,
             UpdateCache, Show, ShowFails, Quit, Crash, Restart
    <2>2. pc'[t] = "push" => kind[t] # "session"
      BY <1>1, <1>2 DEF CliStep, ReadLine, PushHistory, WriteLine, WriteNewline, WriteFails,
             UpdateCache, Show, ShowFails, Quit, Crash, Restart
    <2> QED BY <2>1, <2>2 DEF PushesRoll
  <1>3. CASE UNCHANGED cliVars
    BY <1>3 DEF cliVars, PushesRoll
  <1> QED BY <1>2, <1>3 DEF CliNext

LEMMA LossKeeps == CliTypeOK /\ PushesRoll /\ LossIsPaid /\ [CliNext]_cliVars => LossIsPaid'
  <1> SUFFICES ASSUME CliTypeOK, PushesRoll, LossIsPaid, [CliNext]_cliVars PROVE LossIsPaid'
    OBVIOUS
  <1>1. /\ pc \in [Terminals -> {"prompt", "push", "line", "newline", "cache", "show", "down"}]
        /\ turn \in [Terminals -> Turn \cup {NoTurn}]
        /\ \A t \in Terminals : turn[t] = NoTurn => pc[t] \in {"prompt", "down"}
        /\ file \in Seq(Pieces) /\ broken \in Nat
    BY DEF CliTypeOK, Pieces
  <1>2. /\ IsFiniteSet(Lost) /\ Cardinality(Lost) \in Nat
        /\ Cardinality(Lost) + Open <= 2 * broken
    BY LostIsFinite, FS_CardinalityType DEF LossIsPaid
  <1>3. Newline \in Pieces /\ Parts \subseteq Pieces /\ \A u \in Turn : Line(u) \in Pieces
    BY DEF Pieces
  <1>4. Weight(file) \in 0 .. 2 /\ Open \in 0 .. 2 /\ (Appending # {} => Open = 0)
        /\ (Appending = {} => Open = Weight(file))
    BY <1>1, <1>3, ReadMore DEF Open
  \* What is lost and what may be, after a step.
  <1>5. ASSUME Lost' \subseteq Lost, Open' \in Nat, broken' \in Nat,
               Open' + 0 <= Open + 2 * (broken' - broken)
        PROVE  LossIsPaid'
    <2>1. Cardinality(Lost') \in Nat /\ Cardinality(Lost') <= Cardinality(Lost)
      BY <1>2, <1>5, FewerLost
    <2>2. Open \in Nat /\ 0 \in Nat /\ Cardinality(Lost') <= Cardinality(Lost) + 0
      BY <1>2, <1>4, <2>1
    <2>3. Open' + 0 <= Open + 2 * (broken' - broken)
      BY <1>5
    <2>4. Cardinality(Lost') + Open' <= 2 * broken'
      BY <1>1, <1>2, <1>5, <2>1, <2>2, <2>3, Paying
    <2> QED BY <2>4 DEF LossIsPaid
  <1>6. ASSUME NEW a, Lost' \subseteq Lost \cup {a}, Open' \in Nat, broken' \in Nat,
               Open' + 1 <= Open + 2 * (broken' - broken)
        PROVE  LossIsPaid'
    <2>1. Cardinality(Lost') \in Nat /\ Cardinality(Lost') <= Cardinality(Lost) + 1
      BY <1>2, <1>6, FewerLost
    <2>2. Cardinality(Lost) \in Nat /\ Open \in Nat /\ broken \in Nat /\ Cardinality(Lost) + Open <= 2 * broken
      BY <1>1, <1>2, <1>4
    <2>3. Open' \in Nat /\ broken' \in Nat /\ Open' + 1 <= Open + 2 * (broken' - broken)
      BY <1>6
    <2> DEFINE c == Cardinality(Lost)
               d == Cardinality(Lost')
    <2>4. d + Open' <= 2 * broken'
      <3> DEFINE o == Open
                 p == Open'
                 w == broken
                 z == broken'
      <3>1. /\ c \in Nat /\ d \in Nat /\ o \in Nat /\ p \in Nat /\ w \in Nat /\ z \in Nat
            /\ d <= c + 1 /\ c + o <= 2 * w /\ p + 1 <= o + 2 * (z - w)
        BY <2>1, <2>2, <2>3
      <3> HIDE DEF c, d, o, p, w, z
      <3>2. d + p <= 2 * z
        BY <3>1
      <3> QED BY <3>2 DEF p, z
    <2> QED BY <2>4 DEF LossIsPaid
  <1>7. ASSUME NEW a, NEW b, Lost' \subseteq Lost \cup {a} \cup {b}, Open' \in Nat, broken' \in Nat,
               Open' + 2 <= Open + 2 * (broken' - broken)
        PROVE  LossIsPaid'
    <2>1. Cardinality(Lost') \in Nat /\ Cardinality(Lost') <= Cardinality(Lost) + 2
      BY <1>2, <1>7, FewerLost
    <2>2. Cardinality(Lost) \in Nat /\ Open \in Nat /\ broken \in Nat /\ Cardinality(Lost) + Open <= 2 * broken
      BY <1>1, <1>2, <1>4
    <2>3. Open' \in Nat /\ broken' \in Nat /\ Open' + 2 <= Open + 2 * (broken' - broken)
      BY <1>7
    <2> DEFINE c == Cardinality(Lost)
               d == Cardinality(Lost')
    <2>4. d + Open' <= 2 * broken'
      <3> DEFINE o == Open
                 p == Open'
                 w == broken
                 z == broken'
      <3>1. /\ c \in Nat /\ d \in Nat /\ o \in Nat /\ p \in Nat /\ w \in Nat /\ z \in Nat
            /\ d <= c + 2 /\ c + o <= 2 * w /\ p + 2 <= o + 2 * (z - w)
        BY <2>1, <2>2, <2>3
      <3> HIDE DEF c, d, o, p, w, z
      <3>2. d + p <= 2 * z
        BY <3>1
      <3> QED BY <3>2 DEF p, z
    <2> QED BY <2>4 DEF LossIsPaid
  \* A step that leaves the file alone, and takes no turn in hand.
  <1>8. ASSUME Held' \subseteq Held \cup shown, shown' \subseteq shown \cup Held,
               file' = file, broken' = broken, Appending' = Appending
        PROVE  LossIsPaid'
    <2>1. Lost' \subseteq Lost
      BY <1>8 DEF Lost
    <2>2. Open' = Open
      BY <1>8 DEF Open
    <2> QED BY <1>1, <1>4, <1>5, <1>8, <2>1, <2>2
  <1>9. ASSUME NEW t \in Terminals, ReadLine(t) \/ Quit(t) \/ ShowFails(t) \/ Restart(t)
        PROVE  LossIsPaid'
    <2>1. /\ kind' = kind /\ shown' = shown /\ file' = file /\ broken' = broken
          /\ \A s \in Terminals \ {t} : pc'[s] = pc[s] /\ turn'[s] = turn[s]
      BY <1>1, <1>9 DEF ReadLine, Quit, ShowFails, Restart
    <2>2. pc[t] # "newline" /\ pc'[t] # "newline"
      BY <1>1, <1>9 DEF ReadLine, Quit, ShowFails, Restart
    <2>3. Appending' = Appending
      BY <2>1, <2>2 DEF Appending
    <2>4. CASE pc'[t] \notin Holding
      BY <1>8, <2>1, <2>3, <2>4, HeldAfter
    <2>5. CASE pc'[t] \in Holding
      <3>1. ReadLine(t) /\ kind[t] # "session"
        BY <1>1, <1>9, <2>5 DEF ReadLine, Quit, ShowFails, Restart, Holding
      <3>2. Held' \subseteq Held
        BY <2>1, <3>1 DEF Held
      <3> QED BY <1>8, <2>1, <2>3, <3>2
    <2> QED BY <2>4, <2>5
  <1>10. ASSUME NEW t \in Terminals, PushHistory(t) PROVE LossIsPaid'
    <2>1. /\ kind' = kind /\ shown' = shown /\ file' = file /\ broken' = broken /\ turn' = turn
          /\ \A s \in Terminals \ {t} : pc'[s] = pc[s]
          /\ pc[t] = "push" /\ pc'[t] = "show"
      BY <1>1, <1>10 DEF PushHistory
    <2>2. Appending' = Appending
      BY <2>1 DEF Appending
    <2>3. kind[t] # "session"
      BY <2>1 DEF PushesRoll
    <2>4. Held' \subseteq Held
      BY <2>1, <2>3 DEF Held
    <2> QED BY <1>8, <2>1, <2>2, <2>4
  <1>11. ASSUME NEW t \in Terminals, UpdateCache(t) \/ Show(t) PROVE LossIsPaid'
    <2>1. /\ kind' = kind /\ file' = file /\ broken' = broken
          /\ \A s \in Terminals \ {t} : pc'[s] = pc[s] /\ turn'[s] = turn[s]
          /\ pc[t] \in {"cache", "show"} /\ pc'[t] \in {"show", "prompt"}
      BY <1>1, <1>11 DEF UpdateCache, Show
    <2>2. Appending' = Appending
      BY <2>1 DEF Appending
    <2>3. CASE UpdateCache(t)
      <3>1. turn' = turn /\ shown' = shown
        BY <2>3 DEF UpdateCache
      <3>2. Held' \subseteq Held
        BY <2>1, <3>1, HeldAfter DEF Holding
      <3> QED BY <1>8, <2>1, <2>2, <3>1, <3>2
    <2>4. CASE Show(t)
      <3>1. pc[t] = "show" /\ pc'[t] = "prompt"
            /\ shown' = IF kind[t] = "session" THEN shown \cup {turn[t]} ELSE shown
        BY <1>1, <2>4 DEF Show
      <3>2. Held' \subseteq Held
        BY <2>1, <3>1, HeldAfter DEF Holding
      <3>3. shown' \subseteq shown \cup Held
        BY <3>1 DEF Held, Holding
      <3> QED BY <1>8, <2>1, <2>2, <3>2, <3>3
    <2> QED BY <1>11, <2>3, <2>4
  <1>12. ASSUME NEW t \in Terminals, WriteLine(t) PROVE LossIsPaid'
    <2>1. /\ kind' = kind /\ shown' = shown /\ turn' = turn
          /\ \A s \in Terminals \ {t} : pc'[s] = pc[s]
          /\ pc[t] = "line" /\ pc'[t] = "newline"
          /\ file' = Append(file, Line(turn[t]))
          /\ broken' = IF Appending # {} THEN broken + 1 ELSE broken
      BY <1>1, <1>12 DEF WriteLine
    <2>2. turn[t] \in Turn /\ Line(turn[t]) \in Pieces
      BY <1>1, <1>3, <2>1
    <2>3. t \in Appending' /\ Open' = 0
      BY <2>1 DEF Appending, Open
    <2>4. Held' \subseteq Held \cup {turn[t]}
      BY <2>1, HeldAfter
    <2>5. PICK u : Readable(file) \subseteq Readable(file') \cup {u}
      BY <1>1, <2>1, <2>2, ReadMore
    <2>6. Lost' \subseteq Lost \cup {turn[t]} \cup {u}
      BY <2>1, <2>4, <2>5 DEF Lost
    <2>7. CASE Appending # {} \/ Weight(file) = 2
      <3>1. broken' \in Nat /\ Open' + 2 <= Open + 2 * (broken' - broken)
        BY <1>1, <1>4, <2>1, <2>3, <2>7
      <3> QED BY <1>7, <2>3, <2>6, <3>1
    <2>8. CASE Appending = {} /\ Weight(file) = 1
      <3>1. broken' \in Nat /\ Open' + 1 <= Open + 2 * (broken' - broken)
        BY <1>1, <1>4, <2>1, <2>3, <2>8
      <3>2. Readable(file) \subseteq Readable(file')
        BY <1>1, <2>1, <2>2, <2>8, ReadMore
      <3>3. Lost' \subseteq Lost \cup {turn[t]}
        BY <2>1, <2>4, <3>2 DEF Lost
      <3> QED BY <1>6, <2>3, <3>1, <3>3
    <2>9. CASE Appending = {} /\ Weight(file) = 0
      <3>1. broken' \in Nat /\ Open' + 0 <= Open + 2 * (broken' - broken)
        BY <1>1, <1>4, <2>1, <2>3, <2>9
      <3>2. Readable(file) \subseteq Readable(file') /\ turn[t] \in Readable(file')
        BY <1>1, <2>1, <2>2, <2>9, ReadMore, PieceFacts
      <3>3. Lost' \subseteq Lost
        BY <2>1, <2>4, <3>2 DEF Lost
      <3> QED BY <1>5, <2>3, <3>1, <3>3
    <2> QED BY <1>4, <2>7, <2>8, <2>9
  <1>13. ASSUME NEW t \in Terminals, WriteNewline(t) PROVE LossIsPaid'
    <2>1. /\ kind' = kind /\ shown' = shown /\ turn' = turn /\ broken' = broken
          /\ \A s \in Terminals \ {t} : pc'[s] = pc[s]
          /\ pc[t] = "newline" /\ pc'[t] = "cache"
          /\ file' = Append(file, Newline)
      BY <1>1, <1>13 DEF WriteNewline
    <2>2. Held' \subseteq Held
      BY <2>1, HeldAfter DEF Holding
    <2>3. Readable(file) \subseteq Readable(file') /\ Weight(file') = 0
      BY <1>1, <1>3, <2>1, ReadMore
    <2>4. Lost' \subseteq Lost /\ Open' = 0
      BY <2>1, <2>2, <2>3 DEF Lost, Open
    <2> QED BY <1>1, <1>4, <1>5, <2>1, <2>4
  <1>14. ASSUME NEW t \in Terminals, NEW p \in Parts, pc[t] = "line", pc'[t] # "newline", broken' = broken + 1,
                kind' = kind, shown' = shown, turn' = turn,
                \A s \in Terminals \ {t} : pc'[s] = pc[s], file' = Append(file, p)
         PROVE  LossIsPaid'
    <2>1. Appending' = Appending
      BY <1>14 DEF Appending
    <2>2. Weight(file') = 1 /\ (Weight(file) # 2 => Readable(file) \subseteq Readable(file'))
      BY <1>1, <1>3, <1>14, ReadMore
    <2>3. Held' \subseteq Held \cup {turn[t]}
      BY <1>14, HeldAfter
    <2>4. Open' = IF Appending = {} THEN 1 ELSE 0
      BY <2>1, <2>2 DEF Open
    <2>5. CASE Appending = {} /\ Weight(file) # 2
      <3>1. Lost' \subseteq Lost \cup {turn[t]}
        BY <1>14, <2>2, <2>3, <2>5 DEF Lost
      <3>2. Open' \in Nat /\ broken' \in Nat /\ Open' + 1 <= Open + 2 * (broken' - broken)
        BY <1>1, <1>4, <1>14, <2>4, <2>5
      <3> QED BY <1>6, <3>1, <3>2
    <2>6. CASE Appending # {} \/ Weight(file) = 2
      <3>1. PICK u : Readable(file) \subseteq Readable(file') \cup {u}
        BY <1>1, <1>3, <1>14, ReadMore
      <3>2. Lost' \subseteq Lost \cup {turn[t]} \cup {u}
        BY <1>14, <2>3, <3>1 DEF Lost
      <3>3. Open' \in Nat /\ broken' \in Nat /\ Open' + 2 <= Open + 2 * (broken' - broken)
        BY <1>1, <1>4, <1>14, <2>4, <2>6
      <3> QED BY <1>7, <3>2, <3>3
    <2> QED BY <2>5, <2>6
  <1>15. ASSUME NEW t \in Terminals, pc[t] = "newline", pc'[t] # "newline", broken' = broken + 1,
                Held' \subseteq Held, shown' = shown, file' = file,
                \A s \in Terminals \ {t} : pc'[s] = pc[s]
         PROVE  LossIsPaid'
    <2>1. t \in Appending /\ Open = 0
      BY <1>4, <1>15 DEF Appending
    <2>2. Lost' \subseteq Lost
      BY <1>15 DEF Lost
    <2>3. Open' \in 0 .. 2
      BY <1>4, <1>15 DEF Open
    <2>4. broken' \in Nat /\ Open' + 0 <= Open + 2 * (broken' - broken)
      <3>1. broken \in Nat /\ broken' = broken + 1
        BY <1>1, <1>15
      <3>2. broken' \in Nat /\ 2 * (broken' - broken) = 2
        BY <3>1
      <3> QED BY <2>1, <2>3, <3>2
    <2> QED BY <1>5, <2>2, <2>3, <2>4
  <1>16. ASSUME NEW t \in Terminals, WriteFails(t) PROVE LossIsPaid'
    <2>1. /\ kind' = kind /\ shown' = shown /\ turn' = turn /\ broken' = broken + 1
          /\ \A s \in Terminals \ {t} : pc'[s] = pc[s]
          /\ pc[t] \in {"line", "newline"} /\ pc'[t] = "cache"
          /\ file' = file \/ (pc[t] = "line" /\ \E p \in Parts : file' = Append(file, p))
      <3>1. pc' = [pc EXCEPT ![t] = "cache"] /\ pc[t] \in {"line", "newline"}
        BY <1>16 DEF WriteFails
      <3>2. kind' = kind /\ shown' = shown /\ turn' = turn /\ broken' = broken + 1
        BY <1>16 DEF WriteFails
      <3>3. file' = file \/ (pc[t] = "line" /\ \E p \in Parts : file' = Append(file, p))
        BY <1>16 DEF WriteFails
      <3> QED BY <1>1, <3>1, <3>2, <3>3
    <2>2. CASE pc[t] = "line" /\ \E p \in Parts : file' = Append(file, p)
      BY <1>14, <2>1, <2>2
    <2>3. CASE pc[t] = "newline" /\ file' = file
      <3>1. Held' \subseteq Held
        BY <2>1, <2>3, HeldAfter DEF Holding
      <3> QED BY <1>15, <2>1, <2>3, <3>1
    <2>4. CASE pc[t] = "line" /\ file' = file
      <3>1. Held' \subseteq Held \cup {turn[t]}
        BY <2>1, HeldAfter
      <3>2. Lost' \subseteq Lost \cup {turn[t]}
        BY <2>1, <2>4, <3>1 DEF Lost
      <3>3. Appending' = Appending
        BY <2>1, <2>4 DEF Appending
      <3>4. Open' = Open
        BY <2>4, <3>3 DEF Open
      <3>5. broken' \in Nat /\ Open' \in Nat /\ Open' + 1 <= Open + 2 * (broken' - broken)
        BY <1>1, <1>4, <2>1, <3>4
      <3> QED BY <1>6, <3>2, <3>5
    <2> QED BY <2>1, <2>2, <2>3, <2>4
  <1>17. ASSUME NEW t \in Terminals, Crash(t) PROVE LossIsPaid'
    <2>1. /\ kind' = kind /\ shown' = shown /\ turn' = turn
          /\ \A s \in Terminals \ {t} : pc'[s] = pc[s]
          /\ pc'[t] = "down"
      BY <1>1, <1>17 DEF Crash
    <2>2. Held' \subseteq Held
      BY <2>1, HeldAfter DEF Holding
    <2>3. CASE pc[t] = "line" /\ (\E p \in Parts : file' = Append(file, p)) /\ broken' = broken + 1
      BY <1>14, <2>1, <2>3
    <2>4. CASE file' = file /\ pc[t] = "newline" /\ broken' = broken + 1
      BY <1>15, <2>1, <2>2, <2>4
    <2>5. CASE file' = file /\ pc[t] # "newline" /\ broken' = broken
      <3>1. Appending' = Appending
        BY <2>1, <2>5 DEF Appending
      <3> QED BY <1>8, <2>1, <2>2, <2>5, <3>1
    <2> QED BY <1>17, <2>3, <2>4, <2>5 DEF Crash
  <1>18. CASE UNCHANGED cliVars
    <2>1. Held' = Held /\ Appending' = Appending
      BY <1>18 DEF cliVars, Held, Appending
    <2> QED BY <1>8, <1>18, <2>1 DEF cliVars
  <1> QED BY <1>9, <1>10, <1>11, <1>12, <1>13, <1>16, <1>17, <1>18 DEF CliNext, CliStep

\* As long as no append was cut inside a character, a reply the user has seen
\* survives in the file, but for two turns for each append that failed, was cut
\* short or overlapped another.
THEOREM ShownTurnsKeepSurviving == CliSpec => []ShownTurnsSurvive
  <1>1. CliInit => LossIsPaid /\ PushesRoll
    <2> SUFFICES ASSUME CliInit PROVE LossIsPaid /\ PushesRoll
      OBVIOUS
    <2>1. Lost = {} /\ Weight(file) = 0 /\ broken = 0
      BY DEF CliInit, Lost, Held, Holding, Weight
    <2>2. Cardinality(Lost) = 0 /\ Open = 0
      BY <2>1, FS_EmptySet DEF Open
    <2> QED BY <2>1, <2>2 DEF CliInit, LossIsPaid, PushesRoll
  <1>2. CliSpec => [](CliTypeOK /\ PushesRoll /\ LossIsPaid)
    BY <1>1, CliTypes, PushesRollKeeps, LossKeeps, PTL DEF CliSpec
  <1>3. CliTypeOK /\ LossIsPaid => ShownTurnsSurvive
    <2> SUFFICES ASSUME CliTypeOK, LossIsPaid, IsText(file)
                 PROVE  Cardinality(shown \ Range(ReadFile(file))) <= 2 * broken
      BY DEF ShownTurnsSurvive
    <2>1. file \in Seq(Pieces) /\ broken \in Nat
      BY DEF CliTypeOK, Pieces
    <2>2. Readable(file) = Range(ReadFile(file))
      BY <2>1, ReadFileFacts
    <2>3. shown \ Range(ReadFile(file)) \subseteq Lost
      BY <2>2 DEF Lost
    <2>4. /\ Cardinality(Lost) \in Nat /\ Cardinality(shown \ Range(ReadFile(file))) \in Nat
          /\ Cardinality(shown \ Range(ReadFile(file))) <= Cardinality(Lost)
      BY <2>3, LostIsFinite, FewerLost
    <2>5. Open \in Nat
      <3>1. Newline \in Pieces
        BY DEF Pieces
      <3> QED BY <2>1, <3>1, ReadMore DEF Open
    <2> QED BY <2>1, <2>4, <2>5 DEF LossIsPaid
  <1> QED BY <1>2, <1>3, PTL

=============================================================================
