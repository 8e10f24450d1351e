-------------------------- MODULE CapabilityProofs --------------------------
(***************************************************************************)
(* The two capabilities that share files between callers.  For any number  *)
(* of callers, keys and values: the file of cap.state never holds a map    *)
(* that the store did not have, and a mutation that runs alone settles it. *)
(* For any number of callers, skills and pipe capacities: a run of         *)
(* cap.skill that no other call disturbed finds its skill and its library. *)
(***************************************************************************)
EXTENDS StateStore, SkillRun, TLAPS

\* Everything a later write or restart can bring back is a past store.
CloneOfPast ==
    /\ EmptyStore \in past
    /\ store \in past
    /\ \A p \in Callers : snap[p] \in past
    /\ Load(file) \in past

\* While the last mutation is a lone one, its caller is the only one under
\* way, holds the store as its clone, and has the file as it found it or empty.
LoneCaller ==
    ~exposed =>
        /\ InFlight = {} => Load(file) = store
        /\ \A p, q \in InFlight : p = q
        /\ \A p \in InFlight :
              /\ snap[p] = store
              /\ pc[p] = "open" => Load(file) = before
              /\ pc[p] = "write" => file = Blank

\* The inductive invariant.
StoreInv == TypeOK /\ CloneOfPast /\ LoneCaller

-----------------------------------------------------------------------------
LEMMA EmptyIsStore == EmptyStore \in Stores
  BY DEF EmptyStore, Stores

\* Parsing the file yields a store whatever the file holds.
LEMMA LoadFacts ==
    /\ \A f \in Contents : Load(f) \in Stores
    /\ Load(Blank) = EmptyStore
    /\ Load(Garbled) = EmptyStore
    /\ \A s \in Stores : Load(Json(s)) = s /\ Json(s) \in Contents
    /\ Blank \in Contents /\ Garbled \in Contents
  <1>1. /\ Load(Blank) = EmptyStore /\ Load(Garbled) = EmptyStore
        /\ Blank \in Contents /\ Garbled \in Contents
    BY DEF Contents, Load, Blank, Garbled
  <1>2. ASSUME NEW s \in Stores PROVE Load(Json(s)) = s /\ Json(s) \in Contents
    BY DEF Contents, Load, Json
  <1>3. ASSUME NEW f \in Contents PROVE Load(f) \in Stores
    <2>1. f = Blank \/ f = Garbled \/ \E s \in Stores : f = Json(s)
      BY DEF Contents
    <2> QED BY <1>1, <1>2, <2>1, EmptyIsStore
  <1> QED BY <1>1, <1>2, <1>3

\* A write leaves the new map or no map.
LEMMA OverwriteFacts ==
    ASSUME NEW f \in Contents, NEW s \in Stores, NEW r \in Overwrite(f, s)
    PROVE  /\ r \in Contents
           /\ Load(r) \in {s, EmptyStore}
           /\ f = Blank => Load(r) = s
  <1>1. CASE f = Blank \/ f = Json(s)
    BY <1>1, LoadFacts DEF Overwrite
  <1>2. CASE ~(f = Blank \/ f = Json(s))
    <2>1. r = Json(s) \/ r = Garbled
      BY <1>2 DEF Overwrite
    <2> QED BY <1>2, <2>1, LoadFacts
  <1> QED BY <1>1, <1>2

-----------------------------------------------------------------------------
\* Any change of the map under the lock keeps the invariant.
LEMMA MutateKeeps ==
    ASSUME StoreInv, NEW p \in Callers, NEW new \in Stores, Mutate(p, new)
    PROVE  StoreInv'
  <1> USE DEF StoreInv
  <1>1. TypeOK'
    BY LoadFacts DEF TypeOK, Mutate
  <1>2. CloneOfPast'
    <2>1. /\ EmptyStore \in past'
          /\ store' \in past'
          /\ Load(file') \in past'
      BY DEF CloneOfPast, Mutate
    <2>2. ASSUME NEW q \in Callers PROVE snap'[q] \in past'
      BY DEF CloneOfPast, Mutate, TypeOK
    <2> QED BY <2>1, <2>2 DEF CloneOfPast
  <1>3. LoneCaller'
    <2> SUFFICES ASSUME ~exposed'
                 PROVE  /\ InFlight' = {} => Load(file') = store'
                        /\ \A q, r \in InFlight' : q = r
                        /\ \A q \in InFlight' :
                              /\ snap'[q] = store'
                              /\ pc'[q] = "open" => Load(file') = before'
                              /\ pc'[q] = "write" => file' = Blank
      BY DEF LoneCaller
    <2>1. InFlight = {}
      BY DEF Mutate
    <2>2. InFlight' = {p}
      BY <2>1 DEF InFlight, Mutate, TypeOK
    <2>3. /\ snap'[p] = store'
          /\ pc'[p] = "open"
          /\ Load(file') = before'
      BY DEF Mutate, TypeOK
    <2> QED BY <2>2, <2>3
  <1> QED BY <1>1, <1>2, <1>3

\* Every step of the callers and every restart keeps the invariant.
LEMMA StoreInductive ==
    StoreInv /\ [Next]_storeVars => StoreInv'
  <1> SUFFICES ASSUME StoreInv, [Next]_storeVars PROVE StoreInv'
    OBVIOUS
  <1>1. ASSUME NEW p \in Callers, NEW k \in Keys, NEW v \in Vals, Set(p, k, v)
        PROVE  StoreInv'
    <2>1. [store EXCEPT ![k] = v] \in Stores
      BY DEF StoreInv, TypeOK, Stores
    <2> QED BY <1>1, <2>1, MutateKeeps DEF Set
  <1>2. ASSUME NEW p \in Callers, NEW k \in Keys, Delete(p, k)
        PROVE  StoreInv'
    <2>1. [store EXCEPT ![k] = NoVal] \in Stores
      BY DEF StoreInv, TypeOK, Stores
    <2> QED BY <1>2, <2>1, MutateKeeps DEF Delete
  <1>3. ASSUME NEW p \in Callers, OpenTruncate(p) PROVE StoreInv'
    <2> USE <1>3 DEF StoreInv
    <2>1. TypeOK'
      BY LoadFacts DEF TypeOK, OpenTruncate
    <2>2. CloneOfPast'
      BY LoadFacts DEF CloneOfPast, OpenTruncate
    <2>3. LoneCaller'
      <3> SUFFICES ASSUME ~exposed'
                   PROVE  /\ InFlight' = {} => Load(file') = store'
                          /\ \A q, r \in InFlight' : q = r
                          /\ \A q \in InFlight' :
                                /\ snap'[q] = store'
                                /\ pc'[q] = "open" => Load(file') = before'
                                /\ pc'[q] = "write" => file' = Blank
        BY DEF LoneCaller
      <3>1. InFlight' = InFlight /\ p \in InFlight
        BY DEF InFlight, OpenTruncate, TypeOK
      <3>2. /\ \A q, r \in InFlight : q = r
            /\ \A q \in InFlight : snap[q] = store
        BY DEF LoneCaller, OpenTruncate
      <3>3. pc'[p] = "write" /\ file' = Blank /\ snap' = snap /\ store' = store
        BY DEF OpenTruncate, TypeOK
      <3> QED BY <3>1, <3>2, <3>3
    <2> QED BY <2>1, <2>2, <2>3
  <1>4. ASSUME NEW p \in Callers, WriteText(p) PROVE StoreInv'
    <2> USE <1>4 DEF StoreInv
    <2>1. /\ file \in Contents /\ snap[p] \in Stores
          /\ file' \in Overwrite(file, snap[p])
      BY DEF TypeOK, WriteText
    <2>2. /\ file' \in Contents
          /\ Load(file') \in {snap[p], EmptyStore}
          /\ file = Blank => Load(file') = snap[p]
      BY <2>1, OverwriteFacts
    <2>3. TypeOK'
      BY <2>2 DEF TypeOK, WriteText
    <2>4. CloneOfPast'
      BY <2>2 DEF CloneOfPast, WriteText
    <2>5. LoneCaller'
      <3> SUFFICES ASSUME ~exposed'
                   PROVE  InFlight' = {} /\ Load(file') = store'
        BY DEF LoneCaller
      <3>1. p \in InFlight
        BY DEF InFlight, WriteText
      <3>2. /\ \A q, r \in InFlight : q = r
            /\ snap[p] = store
            /\ file = Blank
        BY <3>1 DEF LoneCaller, WriteText
      <3>3. InFlight' = {}
        BY <3>1, <3>2 DEF InFlight, WriteText, TypeOK
      <3> QED BY <2>2, <3>2, <3>3 DEF WriteText
    <2> QED BY <2>3, <2>4, <2>5
  <1>5. ASSUME NEW p \in Callers, PersistFails(p) PROVE StoreInv'
    <2> USE <1>5 DEF StoreInv
    <2>1. file' = file \/ file' = Garbled
      BY DEF PersistFails
    <2>2. TypeOK'
      BY <2>1, LoadFacts DEF TypeOK, PersistFails
    <2>3. CloneOfPast'
      BY <2>1, LoadFacts DEF CloneOfPast, PersistFails
    <2>4. LoneCaller'
      BY DEF LoneCaller, PersistFails
    <2> QED BY <2>2, <2>3, <2>4
  <1>6. ASSUME Restart PROVE StoreInv'
    <2> USE <1>6 DEF StoreInv
    <2>1. TypeOK'
      BY LoadFacts, EmptyIsStore DEF TypeOK, Restart
    <2>2. CloneOfPast'
      BY DEF CloneOfPast, Restart
    <2>3. InFlight' = {}
      BY DEF InFlight, Restart
    <2>4. LoneCaller'
      BY <2>3 DEF LoneCaller, Restart
    <2> QED BY <2>1, <2>2, <2>4
  <1>7. ASSUME UNCHANGED storeVars PROVE StoreInv'
    BY <1>7 DEF storeVars, StoreInv, TypeOK, CloneOfPast, LoneCaller, InFlight
  <1> QED BY <1>1, <1>2, <1>3, <1>4, <1>5, <1>6, <1>7 DEF Next

\* The invariant holds throughout.
THEOREM StoreInvariant == Spec => []StoreInv
  <1>1. Init => StoreInv
    BY EmptyIsStore, LoadFacts
    DEF Init, StoreInv, TypeOK, CloneOfPast, LoneCaller, InFlight
  <1> QED BY <1>1, StoreInductive, PTL DEF Spec

\* The types of cap.state's map, file and callers.
THEOREM StoreTypeCorrect == Spec => []TypeOK
  <1>1. StoreInv => TypeOK
    BY DEF StoreInv
  <1> QED BY <1>1, StoreInvariant, PTL

\* with_file and read_state only ever see nothing or a whole past store,
\* however many callers race through persist.
THEOREM NoBlendedStore == Spec => []ReadersSeeAPastStore
  <1>1. StoreInv => ReadersSeeAPastStore
    BY DEF StoreInv, CloneOfPast, ReadersSeeAPastStore
  <1> QED BY <1>1, StoreInvariant, PTL

\* A set or delete that runs alone leaves the file equal to the store.
THEOREM LoneMutationRepairs == Spec => []LoneMutationSettlesFile
  <1>1. StoreInv => LoneMutationSettlesFile
    BY DEF StoreInv, LoneCaller, LoneMutationSettlesFile
  <1> QED BY <1>1, StoreInvariant, PTL

\* What a crash during a lone set or delete can restore.
THEOREM LoneCrashBound == Spec => []LoneCrashOutcome
  <1>1. ASSUME StoreInv PROVE LoneCrashOutcome
    <2>1. CASE InFlight = {}
      BY <1>1, <2>1 DEF StoreInv, LoneCaller, LoneCrashOutcome
    <2>2. CASE InFlight # {}
      <3>1. PICK p \in InFlight : TRUE
        BY <2>2
      <3>2. pc[p] = "open" \/ pc[p] = "write"
        BY <1>1, <3>1 DEF StoreInv, TypeOK, InFlight
      <3> QED BY <1>1, <3>1, <3>2, LoadFacts
              DEF StoreInv, LoneCaller, LoneCrashOutcome
    <2> QED BY <2>1, <2>2
  <1>2. StoreInv => LoneCrashOutcome
    BY <1>1
  <1> QED BY <1>2, StoreInvariant, PTL

-----------------------------------------------------------------------------
(* cap.skill and its runner.                                               *)

\* The child of a call belongs to a run that has spawned it, and a run that no
\* other call disturbed has the skill it checked, and the library it wrote,
\* until the child has started.
Ready(c) ==
    /\ child[c].at # "none" => run[c].at \in {"read", "invoke", "reply", "reap"}
    /\ c \notin disturbed =>
        /\ run[c].at \in {"lib", "libwrite", "spawn"} => skill[run[c].name] # Absent
        /\ run[c].at = "spawn" => lib = "whole"
        /\ child[c].at = "start" => skill[child[c].name] # Absent /\ lib = "whole"
        /\ child[c].at = "exited" => child[c].why \notin {"import", "missing"}

RunsAreReady == \A c \in SkillCallers : Ready(c)

-----------------------------------------------------------------------------
\* What the stage of a call says about its record.
LEMMA RunRecords ==
    ASSUME NEW r \in Runs
    PROVE  /\ r.at \in {"truncate", "write"} =>
                  /\ r \in [at: {"truncate", "write"}, name: Names, source: Scripts]
                  /\ [r EXCEPT !.at = "write"] \in Runs
           /\ r.at \in {"lib", "libwrite", "spawn"} =>
                  /\ r \in [at: {"lib", "libwrite", "spawn"}, name: Names]
                  /\ [r EXCEPT !.at = "libwrite"] \in Runs
                  /\ [r EXCEPT !.at = "spawn"] \in Runs
           /\ r.at \in {"invoke", "reply"} =>
                  /\ r \in [at: {"invoke", "reply"}, id: Nat]
                  /\ [r EXCEPT !.at = "reply"] \in Runs
           /\ r.at = "idle" => r = NoRun
  BY DEF Runs, NoRun

\* What the stage of a child says about its record.
LEMMA ChildRecords ==
    ASSUME NEW d \in Children
    PROVE  /\ d.at = "start" => d.name \in Names
           /\ d.at = "up" => d \in [at: {"up"}, todo: Seq(Actions), sent: Nat, left: BOOLEAN]
           /\ d.at \in {"none", "start", "up", "exited"}
  BY DEF Children, NoChild

\* The records the actions build.
LEMMA NewRecords ==
    /\ NoRun \in Runs /\ [at |-> "read"] \in Runs
    /\ \A n \in Names, s \in Scripts : [at |-> "truncate", name |-> n, source |-> s] \in Runs
    /\ \A n \in Names : [at |-> "lib", name |-> n] \in Runs
    /\ \A i \in Nat : [at |-> "invoke", id |-> i] \in Runs
    /\ \A w \in {"value", "Protocol", "NoReturn", "Io"} : [at |-> "reap", result |-> w] \in Runs
    /\ NoChild \in Children
    /\ \A n \in Names : [at |-> "start", name |-> n] \in Children
    /\ \A t \in Seq(Actions), i \in Nat :
           [at |-> "up", todo |-> t, sent |-> i, left |-> FALSE] \in Children
    /\ \A w \in {"missing", "import", "raised", "eof", "done"}, b \in BOOLEAN :
           Exited(w, b) \in Children
  BY DEF Runs, Children, NoRun, NoChild, Exited

\* The sources on disk are programs, and none is mistaken for no file.
LEMMA Sources ==
    /\ Truncated \in Seq(Actions) /\ Truncated # Absent
    /\ \A s \in Scripts : s \in Seq(Actions) /\ s # Absent
  BY SkillConstants DEF Truncated, Absent

\* The first call of a run, whichever operation it is.
LEMMA BeginTypes ==
    ASSUME SkillTypeOK, NEW c \in SkillCallers, NEW r \in Runs, Begin(c, r)
    PROVE  SkillTypeOK'
  BY SkillConstants DEF Begin, Goto, files, pipes, SkillTypeOK

\* Every action keeps the types.
LEMMA SkillTypesKeep ==
    SkillTypeOK /\ [SkillNext]_skillVars => SkillTypeOK'
  <1> SUFFICES ASSUME SkillTypeOK, [SkillNext]_skillVars PROVE SkillTypeOK'
    OBVIOUS
  <1> USE DEF Goto, files, pipes
  <1>1. ASSUME NEW c \in SkillCallers, NEW n \in Names, NEW s \in Scripts,
               Create(c, n, s) \/ Edit(c, n, s)
        PROVE  SkillTypeOK'
    BY <1>1, NewRecords, BeginTypes DEF Create, Edit
  <1>2. ASSUME NEW c \in SkillCallers, NEW n \in Names, RunSkill(c, n)
        PROVE  SkillTypeOK'
    BY <1>2, NewRecords, BeginTypes DEF RunSkill
  <1>3. ASSUME NEW c \in SkillCallers, NEW n \in Names, DeleteSkill(c, n)
        PROVE  SkillTypeOK'
    BY <1>3, SkillConstants DEF DeleteSkill, SkillTypeOK
  <1>4. ASSUME NEW c \in SkillCallers, Truncate(c) \/ Write(c) PROVE SkillTypeOK'
    <2>1. /\ run[c] \in Runs /\ run[c].at \in {"truncate", "write"}
      BY <1>4 DEF Truncate, Write, SkillTypeOK
    <2>2. run[c].name \in Names /\ run[c].source \in Scripts /\ [run[c] EXCEPT !.at = "write"] \in Runs
      BY <2>1, RunRecords
    <2>3. run' \in [SkillCallers -> Runs]
      BY <1>4, <2>2, NewRecords DEF Truncate, Write, SkillTypeOK
    <2>4. PICK s \in Scripts \cup {Absent, Truncated} : skill' = [skill EXCEPT ![run[c].name] = s]
      BY <1>4, <2>2 DEF Truncate, Write, SkillTypeOK
    <2>5. skill' \in [Names -> Scripts \cup {Absent, Truncated}]
      BY <2>2, <2>4 DEF SkillTypeOK
    <2> QED BY <1>4, <2>3, <2>5 DEF Truncate, Write, SkillTypeOK
  <1>5. ASSUME NEW c \in SkillCallers, LibTruncate(c) \/ LibWrite(c) \/ Spawn(c)
        PROVE  SkillTypeOK'
    <2>1. /\ run[c] \in Runs /\ run[c].at \in {"lib", "libwrite", "spawn"}
      BY <1>5 DEF LibTruncate, LibWrite, Spawn, SkillTypeOK
    <2>2. /\ run[c].name \in Names
          /\ [run[c] EXCEPT !.at = "libwrite"] \in Runs
          /\ [run[c] EXCEPT !.at = "spawn"] \in Runs
      BY <2>1, RunRecords
    <2> QED BY <1>5, <2>2, NewRecords DEF LibTruncate, LibWrite, Spawn, SkillTypeOK
  <1>6. ASSUME NEW c \in SkillCallers, IoFails(c) PROVE SkillTypeOK'
    BY <1>6, NewRecords DEF IoFails, SkillTypeOK
  <1>7. ASSUME NEW c \in SkillCallers, ChildStart(c) PROVE SkillTypeOK'
    <2> DEFINE source == skill[child[c].name]
    <2>1. child[c].name \in Names
      BY <1>7, ChildRecords DEF ChildStart, SkillTypeOK
    <2>2. source \in Scripts \cup {Absent, Truncated}
      BY <2>1 DEF SkillTypeOK
    <2>3. PICK d : /\ child' = [child EXCEPT ![c] = d]
                   /\ \/ d = Exited("missing", FALSE) \/ d = Exited("import", FALSE)
                      \/ /\ source # Absent
                         /\ d = [at |-> "up", todo |-> source, sent |-> 0, left |-> FALSE]
      BY <1>7 DEF ChildStart
    <2>4. d \in Children
      BY <2>2, <2>3, NewRecords, Sources
    <2>5. child' \in [SkillCallers -> Children]
      <3>1. child \in [SkillCallers -> Children] /\ child' = [child EXCEPT ![c] = d]
        BY <2>3 DEF SkillTypeOK
      <3> HIDE DEF source
      <3> QED BY <2>4, <3>1, Zenon
    <2>6. UNCHANGED <<files, run, pipes, calls, disturbed>>
      BY <1>7 DEF ChildStart
    <2> QED BY <2>5, <2>6 DEF SkillTypeOK
  <1>8. ASSUME NEW c \in SkillCallers, ChildWrite(c) PROVE SkillTypeOK'
    <2> DEFINE id == child[c].sent + (IF Todo(c) = "invoke" THEN 1 ELSE 0)
               new == [child[c] EXCEPT !.todo = Tail(@), !.sent = id]
    <2>1. child[c] \in [at: {"up"}, todo: Seq(Actions), sent: Nat, left: BOOLEAN]
      BY <1>8, ChildRecords DEF ChildWrite, SkillTypeOK
    <2>2. /\ child[c].todo # <<>> /\ Todo(c) \in Writes
      BY <1>8 DEF ChildWrite, Todo, Writes
    <2>3. id \in Nat /\ Tail(child[c].todo) \in Seq(Actions)
      BY <2>1, <2>2
    <2>4. new \in Children /\ child' = [child EXCEPT ![c] = new]
      <3>1. new \in [at: {"up"}, todo: Seq(Actions), sent: Nat, left: BOOLEAN]
        BY <2>1, <2>3
      <3>2. child' = [child EXCEPT ![c] = new]
        BY <1>8 DEF ChildWrite, SkillTypeOK
      <3> QED BY <3>1, <3>2 DEF Children
    <2>5. [type |-> Todo(c), id |-> id] \in Lines
      BY <2>2, <2>3 DEF Lines
    <2>6. out' = [out EXCEPT ![c] = Append(@, [type |-> Todo(c), id |-> id])] /\ Len(out[c]) < Pipe
      BY <1>8 DEF ChildWrite
    <2> HIDE DEF id, new
    <2>7. /\ out' \in [SkillCallers -> Seq(Lines)]
          /\ \A d \in SkillCallers : Len(out'[d]) <= Pipe
      BY <2>5, <2>6, SkillConstants DEF SkillTypeOK
    <2> QED BY <1>8, <2>4, <2>7, ZenonT(60) DEF ChildWrite, SkillTypeOK
  <1>9. ASSUME NEW c \in SkillCallers, ChildRead(c) PROVE SkillTypeOK'
    <2>1. child[c] \in [at: {"up"}, todo: Seq(Actions), sent: Nat, left: BOOLEAN]
      BY <1>9, ChildRecords DEF ChildRead, SkillTypeOK
    <2>2. child[c].todo # <<>>
      BY <1>9 DEF ChildRead, Todo
    <2>3. [child[c] EXCEPT !.todo = Tail(@)] \in Children
      <3>1. Tail(child[c].todo) \in Seq(Actions)
        BY <2>1, <2>2
      <3>2. [child[c] EXCEPT !.todo = Tail(@)] \in [at: {"up"}, todo: Seq(Actions), sent: Nat, left: BOOLEAN]
        BY <2>1, <3>1
      <3> QED BY <3>2 DEF Children
    <2>4. child' \in [SkillCallers -> Children]
      <3>1. child[c].left \in BOOLEAN
        BY <2>1
      <3> QED BY <1>9, <2>3, <3>1, NewRecords DEF ChildRead, SkillTypeOK
    <2>5. inp' \in [SkillCallers -> Seq(Nat)] /\ \A d \in SkillCallers : Len(inp'[d]) <= Pipe
      <3>1. inp[c] \in Seq(Nat) /\ Len(inp[c]) \in Nat /\ Len(inp[c]) <= Pipe /\ Pipe \in Nat
        BY SkillConstants DEF SkillTypeOK
      <3>2. PICK q \in Seq(Nat) : inp' = [inp EXCEPT ![c] = q] /\ Len(q) <= Pipe
        <4>1. CASE inp[c] # <<>> /\ inp' = [inp EXCEPT ![c] = Tail(@)]
          <5>1. Tail(inp[c]) \in Seq(Nat) /\ Len(Tail(inp[c])) <= Pipe
            BY <3>1, <4>1
          <5> QED BY <4>1, <5>1 DEF SkillTypeOK
        <4>2. CASE UNCHANGED inp
          BY <3>1, <4>2 DEF SkillTypeOK
        <4> QED BY <1>9, <4>1, <4>2 DEF ChildRead
      <3> QED BY <3>2 DEF SkillTypeOK
    <2> QED BY <1>9, <2>4, <2>5 DEF ChildRead, SkillTypeOK
  <1>10. ASSUME NEW c \in SkillCallers, ChildFork(c) \/ ChildExit(c) PROVE SkillTypeOK'
    <2>1. /\ child[c] \in [at: {"up"}, todo: Seq(Actions), sent: Nat, left: BOOLEAN]
          /\ ChildFork(c) => child[c].todo # <<>>
      BY <1>10, ChildRecords DEF ChildFork, ChildExit, Todo, SkillTypeOK
    <2>2. PICK d \in Children : child' = [child EXCEPT ![c] = d]
      <3>1. CASE ChildFork(c)
        <4> DEFINE new == [child[c] EXCEPT !.todo = Tail(@), !.left = TRUE]
        <4>1. Tail(child[c].todo) \in Seq(Actions)
          BY <2>1, <3>1
        <4>2. new \in Children
          <5>1. new \in [at: {"up"}, todo: Seq(Actions), sent: Nat, left: BOOLEAN]
            BY <2>1, <4>1
          <5> QED BY <5>1 DEF Children
        <4>3. child' = [child EXCEPT ![c] = new]
          BY <3>1 DEF ChildFork, SkillTypeOK
        <4> QED BY <4>2, <4>3
      <3>2. CASE ChildExit(c)
        BY <2>1, <3>2, NewRecords DEF ChildExit
      <3> QED BY <1>10, <3>1, <3>2
    <2> QED BY <1>10, <2>2 DEF ChildFork, ChildExit, SkillTypeOK
  <1>11. ASSUME NEW c \in SkillCallers, ReadLine(c) PROVE SkillTypeOK'
    <2>1. Head(out[c]) \in Lines /\ Tail(out[c]) \in Seq(Lines) /\ Len(Tail(out[c])) <= Pipe
      BY <1>11, SkillConstants DEF ReadLine, SkillTypeOK
    <2>2. run' \in [SkillCallers -> Runs]
      <3>1. PICK r \in Runs : run' = [run EXCEPT ![c] = r]
        BY <1>11, <2>1, NewRecords DEF ReadLine, Lines, Writes
      <3> QED BY <3>1 DEF SkillTypeOK
    <2> QED BY <1>11, <2>1, <2>2 DEF ReadLine, SkillTypeOK
  <1>12. ASSUME NEW c \in SkillCallers, ReadEof(c) PROVE SkillTypeOK'
    BY <1>12, NewRecords DEF ReadEof, SkillTypeOK
  <1>13. ASSUME NEW c \in SkillCallers, Invoked(c) PROVE SkillTypeOK'
    <2>1. [run[c] EXCEPT !.at = "reply"] \in Runs
      BY <1>13, RunRecords DEF Invoked, SkillTypeOK
    <2> QED BY <1>13, <2>1 DEF Invoked, SkillTypeOK
  <1>14. ASSUME NEW c \in SkillCallers, Reply(c) PROVE SkillTypeOK'
    <2>1. run[c].id \in Nat
      <3>1. run[c] \in Runs /\ run[c].at \in {"invoke", "reply"}
        BY <1>14 DEF Reply, SkillTypeOK
      <3>2. run[c] \in [at: {"invoke", "reply"}, id: Nat]
        BY <3>1, RunRecords
      <3> QED BY <3>2
    <2>2. inp' \in [SkillCallers -> Seq(Nat)] /\ \A d \in SkillCallers : Len(inp'[d]) <= Pipe
      <3>1. inp[c] \in Seq(Nat) /\ Len(inp[c]) \in Nat /\ Pipe \in Nat
        BY SkillConstants DEF SkillTypeOK
      <3>2. CASE Len(inp[c]) < Pipe /\ inp' = [inp EXCEPT ![c] = Append(@, run[c].id)]
        <4>1. Append(inp[c], run[c].id) \in Seq(Nat) /\ Len(Append(inp[c], run[c].id)) <= Pipe
          BY <2>1, <3>1, <3>2
        <4> QED BY <3>2, <4>1 DEF SkillTypeOK
      <3>3. CASE UNCHANGED inp
        BY <3>3 DEF SkillTypeOK
      <3> QED BY <1>14, <3>2, <3>3 DEF Reply
    <2> QED BY <1>14, <2>2, NewRecords DEF Reply, SkillTypeOK
  <1>15. ASSUME NEW c \in SkillCallers, Reap(c) \/ DropRun(c) PROVE SkillTypeOK'
    <2>1. Gone(c)
      BY <1>15 DEF Reap, DropRun
    <2>2. /\ <<>> \in Seq(Lines) /\ <<>> \in Seq(Nat) /\ Len(<<>>) <= Pipe
      BY SkillConstants
    <2> QED BY <2>1, <2>2, NewRecords DEF Gone, SkillTypeOK
  <1>16. ASSUME UNCHANGED skillVars PROVE SkillTypeOK'
    BY <1>16 DEF skillVars, SkillTypeOK
  <1> QED BY <1>1, <1>2, <1>3, <1>4, <1>5, <1>6, <1>7, <1>8, <1>9, <1>10, <1>11, <1>12,
             <1>13, <1>14, <1>15, <1>16 DEF SkillNext, Step, ChildStep

\* The types of cap.skill's files, calls, children and pipes; no pipe holds
\* more than its capacity.
THEOREM SkillTypes == SkillSpec => []SkillTypeOK
  <1>1. SkillInit => SkillTypeOK
    BY SkillConstants, NewRecords DEF SkillInit, SkillTypeOK
  <1> QED BY <1>1, SkillTypesKeep, PTL DEF SkillSpec

\* A step that takes no file away keeps every caller ready whose own call and
\* child it leaves alone.
LEMMA OthersStayReady ==
    ASSUME SkillTypeOK, NEW c \in SkillCallers, NEW d \in SkillCallers \ {c}, Ready(d),
           run'[d] = run[d], child'[d] = child[d],
           d \notin disturbed' => d \notin disturbed,
           lib = "whole" => lib' = "whole",
           \A n \in Names : skill[n] # Absent => skill'[n] # Absent
    PROVE  Ready(d)'
  <1>1. run[d] \in Runs /\ child[d] \in Children
    BY DEF SkillTypeOK
  <1>2. run[d].at \in {"lib", "libwrite", "spawn"} => run[d].name \in Names
    BY <1>1, RunRecords
  <1>3. child[d].at = "start" => child[d].name \in Names
    BY <1>1, ChildRecords
  <1> QED BY <1>2, <1>3 DEF Ready

\* Every action keeps the calls ready.
LEMMA ReadinessKeeps ==
    SkillTypeOK /\ RunsAreReady /\ [SkillNext]_skillVars => RunsAreReady'
  <1> SUFFICES ASSUME SkillTypeOK, \A c \in SkillCallers : Ready(c), [SkillNext]_skillVars,
                      NEW d \in SkillCallers
               PROVE  Ready(d)'
    BY DEF RunsAreReady
  <1> USE DEF Goto, files, pipes
  <1>0. run[d] \in Runs /\ child[d] \in Children /\ Ready(d)
    BY DEF SkillTypeOK
  <1>1. ASSUME NEW c \in SkillCallers, NEW n \in Names, NEW s \in Scripts,
               Create(c, n, s) \/ Edit(c, n, s)
        PROVE  Ready(d)'
    <2>1. Begin(c, [at |-> "truncate", name |-> n, source |-> s])
      BY <1>1 DEF Create, Edit
    <2>2. CASE d = c
      BY <1>0, <2>1, <2>2, ChildRecords DEF Begin, Ready, SkillTypeOK, NoRun
    <2>3. CASE d # c
      BY <2>1, <2>3, OthersStayReady DEF Begin, SkillTypeOK
    <2> QED BY <2>2, <2>3
  <1>2. ASSUME NEW c \in SkillCallers, NEW n \in Names, RunSkill(c, n)
        PROVE  Ready(d)'
    <2>1. CASE d = c
      BY <1>0, <1>2, <2>1, ChildRecords DEF RunSkill, Begin, Ready, SkillTypeOK, NoRun
    <2>2. CASE d # c
      BY <1>2, <2>2, OthersStayReady DEF RunSkill, Begin, SkillTypeOK
    <2> QED BY <2>1, <2>2
  <1>3. ASSUME NEW c \in SkillCallers, NEW n \in Names, DeleteSkill(c, n)
        PROVE  Ready(d)'
    <2>1. child'[d] = child[d] /\ run'[d] = run[d] /\ lib' = lib
          /\ (d \in disturbed' <=> (d \in disturbed \/ Running(d)))
      BY <1>3 DEF DeleteSkill
    <2>2. CASE Running(d)
      BY <1>0, <2>1, <2>2 DEF Ready
    <2>3. CASE ~Running(d)
      <3>1. run[d].at \in {"idle", "truncate", "write"}
        BY <2>3 DEF Running
      <3>2. child[d].at = "none"
        BY <1>0, <3>1 DEF Ready
      <3> QED BY <2>1, <3>1, <3>2 DEF Ready
    <2> QED BY <2>2, <2>3
  <1>4. ASSUME NEW c \in SkillCallers, Truncate(c) \/ Write(c) PROVE Ready(d)'
    <2>1. run[c] \in Runs /\ run[c].at \in {"truncate", "write"}
      BY <1>4 DEF Truncate, Write, SkillTypeOK
    <2>2. run[c].name \in Names /\ run[c].source \in Scripts
      BY <2>1, RunRecords
    <2>3. \A n \in Names : skill[n] # Absent => skill'[n] # Absent
      BY <1>4, <2>2, Sources DEF Truncate, Write, SkillTypeOK
    <2>4. CASE d = c
      <3>1. run'[c].at \in {"write", "idle"}
        <4>1. [run[c] EXCEPT !.at = "write"].at = "write" /\ NoRun.at = "idle"
          BY <2>1, RunRecords DEF NoRun
        <4>2. run'[c] = [run[c] EXCEPT !.at = "write"] \/ run'[c] = NoRun
          BY <1>4 DEF Truncate, Write, SkillTypeOK
        <4> QED BY <4>1, <4>2
      <3>2. child'[c].at = "none"
        BY <1>0, <1>4, <2>1, <2>4 DEF Truncate, Write, Ready
      <3> QED BY <2>4, <3>1, <3>2 DEF Ready
    <2>5. CASE d # c
      BY <1>4, <2>3, <2>5, OthersStayReady DEF Truncate, Write, SkillTypeOK
    <2> QED BY <2>4, <2>5
  <1>5. ASSUME NEW c \in SkillCallers, LibTruncate(c) PROVE Ready(d)'
    <2>1. run[c] \in Runs /\ run[c].at = "lib"
      BY <1>5 DEF LibTruncate, SkillTypeOK
    <2>2. CASE d = c
      <3>1. run'[c].at = "libwrite" /\ run'[c].name = run[c].name
        BY <1>5, <2>1, RunRecords DEF LibTruncate, SkillTypeOK
      <3>2. child'[c].at = "none" /\ (c \notin disturbed' => c \notin disturbed)
        BY <1>0, <1>5, <2>1, <2>2 DEF LibTruncate, Ready
      <3> QED BY <1>0, <1>5, <2>1, <2>2, <3>1, <3>2 DEF Ready, LibTruncate
    <2>3. CASE d # c /\ Running(d)
      BY <1>0, <1>5, <2>3 DEF LibTruncate, Ready, SkillTypeOK
    <2>4. CASE d # c /\ ~Running(d)
      <3>1. run[d].at \in {"idle", "truncate", "write"}
        BY <2>4 DEF Running
      <3>2. child[d].at = "none"
        BY <1>0, <3>1 DEF Ready
      <3>3. run'[d] = run[d] /\ child'[d] = child[d]
        BY <1>5, <2>4 DEF LibTruncate, SkillTypeOK
      <3> QED BY <3>1, <3>2, <3>3 DEF Ready
    <2> QED BY <2>2, <2>3, <2>4
  <1>6. ASSUME NEW c \in SkillCallers, LibWrite(c) PROVE Ready(d)'
    <2>1. run[c] \in Runs /\ run[c].at = "libwrite"
      BY <1>6 DEF LibWrite, SkillTypeOK
    <2>2. CASE d = c
      <3>1. run'[c].at = "spawn" /\ run'[c].name = run[c].name
        BY <1>6, <2>1, RunRecords DEF LibWrite, SkillTypeOK
      <3>2. child'[c].at = "none" /\ lib' = "whole"
        BY <1>0, <1>6, <2>1, <2>2 DEF LibWrite, Ready
      <3> QED BY <1>0, <1>6, <2>1, <2>2, <3>1, <3>2 DEF Ready, LibWrite
    <2>3. CASE d # c
      BY <1>6, <2>3, OthersStayReady DEF LibWrite, SkillTypeOK
    <2> QED BY <2>2, <2>3
  <1>7. ASSUME NEW c \in SkillCallers, Spawn(c) PROVE Ready(d)'
    <2>1. CASE d = c
      <3>1. run'[c] = [at |-> "read"] /\ child'[c] = [at |-> "start", name |-> run[c].name]
        BY <1>7 DEF Spawn, SkillTypeOK
      <3> QED BY <1>0, <1>7, <2>1, <3>1 DEF Spawn, Ready
    <2>2. CASE d # c
      BY <1>7, <2>2, OthersStayReady DEF Spawn, SkillTypeOK
    <2> QED BY <2>1, <2>2
  <1>8. ASSUME NEW c \in SkillCallers, IoFails(c) PROVE Ready(d)'
    <2>1. CASE d = c
      BY <1>0, <1>8, <2>1, ChildRecords DEF IoFails, Ready, SkillTypeOK, NoRun
    <2>2. CASE d # c
      BY <1>8, <2>2, OthersStayReady DEF IoFails, SkillTypeOK
    <2> QED BY <2>1, <2>2
  <1>9. ASSUME NEW c \in SkillCallers, ChildStart(c) PROVE Ready(d)'
    <2>1. CASE d = c
      <3>1. run' = run /\ skill' = skill /\ lib' = lib /\ disturbed' = disturbed
        BY <1>9 DEF ChildStart
      <3>2. child[c].at = "start"
        BY <1>9 DEF ChildStart
      <3>3. c \notin disturbed => child'[c].at = "up"
        BY <1>0, <1>9, <2>1, <3>2 DEF ChildStart, Ready, SkillTypeOK
      <3> QED BY <1>0, <2>1, <3>1, <3>2, <3>3 DEF Ready
    <2>2. CASE d # c
      BY <1>9, <2>2, OthersStayReady DEF ChildStart, SkillTypeOK
    <2> QED BY <2>1, <2>2
  <1>10. ASSUME NEW c \in SkillCallers,
                ChildWrite(c) \/ ChildRead(c) \/ ChildFork(c) \/ ChildExit(c)
         PROVE  Ready(d)'
    <2>1. run' = run /\ skill' = skill /\ lib' = lib /\ disturbed' = disturbed
      BY <1>10 DEF ChildWrite, ChildRead, ChildFork, ChildExit
    <2>2. CASE d = c
      <3>1. child[c].at = "up"
        BY <1>10 DEF ChildWrite, ChildRead, ChildFork, ChildExit
      <3>2. \/ child'[c].at = "up"
            \/ /\ child'[c].at = "exited"
               /\ child'[c].why \in {"raised", "eof", "done"}
        <4>1. child[c] \in [at: {"up"}, todo: Seq(Actions), sent: Nat, left: BOOLEAN]
          BY <3>1, ChildRecords DEF SkillTypeOK
        <4>2. CASE ChildWrite(c) \/ ChildFork(c)
          BY <4>1, <4>2 DEF ChildWrite, ChildFork, SkillTypeOK
        <4>3. CASE ChildRead(c) \/ ChildExit(c)
          <5>1. \/ child'[c] = [child[c] EXCEPT !.todo = Tail(@)]
                \/ child'[c] = Exited("raised", child[c].left)
                \/ child'[c] = Exited("eof", child[c].left)
                \/ child'[c] = Exited("done", child[c].left)
            BY <4>3 DEF ChildRead, ChildExit, SkillTypeOK
          <5> QED BY <4>1, <5>1 DEF Exited
        <4> QED BY <1>10, <4>2, <4>3
      <3> QED BY <1>0, <2>1, <2>2, <3>1, <3>2 DEF Ready, Exited
    <2>3. CASE d # c
      <3>1. child'[d] = child[d]
        BY <1>10, <2>3 DEF ChildWrite, ChildRead, ChildFork, ChildExit, SkillTypeOK
      <3> QED BY <2>1, <2>3, <3>1, OthersStayReady
    <2> QED BY <2>2, <2>3
  <1>11. ASSUME NEW c \in SkillCallers,
                ReadLine(c) \/ ReadEof(c) \/ Invoked(c) \/ Reply(c)
         PROVE  Ready(d)'
    <2>1. child' = child /\ skill' = skill /\ lib' = lib /\ disturbed' = disturbed
      BY <1>11 DEF ReadLine, ReadEof, Invoked, Reply
    <2>2. CASE d = c
      <3>1. run'[c].at \in {"read", "invoke", "reply", "reap"}
        <4>1. CASE ReadLine(c)
          <5>1. Head(out[c]) \in Lines
            BY <4>1 DEF ReadLine, SkillTypeOK
          <5>2. Head(out[c]).type \in {"invoke", "return", "blank", "print"}
            BY <5>1 DEF Lines, Writes
          <5>3. \/ run' = [run EXCEPT ![c] = [at |-> "invoke", id |-> Head(out[c]).id]]
                \/ run' = [run EXCEPT ![c] = [at |-> "read"]]
                \/ \E w : run' = [run EXCEPT ![c] = [at |-> "reap", result |-> w]]
            BY <4>1, <5>2 DEF ReadLine
          <5> QED BY <5>3 DEF SkillTypeOK
        <4>2. CASE Invoked(c)
          <5>1. run[c] \in [at: {"invoke", "reply"}, id: Nat]
            BY <4>2, RunRecords DEF Invoked, SkillTypeOK
          <5> QED BY <4>2, <5>1 DEF Invoked, SkillTypeOK
        <4>3. CASE ReadEof(c) \/ Reply(c)
          BY <4>3 DEF ReadEof, Reply, SkillTypeOK
        <4> QED BY <1>11, <4>1, <4>2, <4>3
      <3>2. run[c].at \in {"read", "invoke", "reply"}
        BY <1>11 DEF ReadLine, ReadEof, Invoked, Reply
      <3> QED BY <1>0, <2>1, <2>2, <3>1, <3>2 DEF Ready
    <2>3. CASE d # c
      <3>1. run'[d] = run[d]
        BY <1>11, <2>3 DEF ReadLine, ReadEof, Invoked, Reply, SkillTypeOK
      <3> QED BY <2>1, <2>3, <3>1, OthersStayReady
    <2> QED BY <2>2, <2>3
  <1>12. ASSUME NEW c \in SkillCallers, Reap(c) \/ DropRun(c) PROVE Ready(d)'
    <2>1. Gone(c)
      BY <1>12 DEF Reap, DropRun
    <2>2. CASE d = c
      BY <2>1, <2>2 DEF Gone, Ready, NoRun, NoChild, SkillTypeOK
    <2>3. CASE d # c
      BY <2>1, <2>3, OthersStayReady DEF Gone, SkillTypeOK
    <2> QED BY <2>2, <2>3
  <1>13. ASSUME UNCHANGED skillVars PROVE Ready(d)'
    BY <1>0, <1>13 DEF skillVars, Ready
  <1> QED BY <1>1, <1>2, <1>3, <1>4, <1>5, <1>6, <1>7, <1>8, <1>9, <1>10, <1>11, <1>12,
             <1>13 DEF SkillNext, Step, ChildStep

\* A run that nobody disturbed starts: the child that cannot find its skill or
\* import pan.py is one whose file another call rewrote or deleted.
THEOREM UndisturbedStarts == SkillSpec => []UndisturbedRunsStart
  <1>1. SkillInit => RunsAreReady
    BY DEF SkillInit, RunsAreReady, Ready, NoRun, NoChild
  <1>2. RunsAreReady => UndisturbedRunsStart
    BY DEF RunsAreReady, Ready, UndisturbedRunsStart
  <1> QED BY <1>1, <1>2, ReadinessKeeps, SkillTypes, PTL DEF SkillSpec
=============================================================================
