------------------------------ MODULE Plugins ------------------------------
(* PluginManager (pan-core/src/plugind.rs) over the five-phase Lifecycle of  *)
(* registry.rs: discovery, start, reload, shutdown and the published         *)
(* PluginSet.  A host calls the manager one operation at a time (&mut self); *)
(* inside an operation every call into a plugin is a step of its own,        *)
(* because any of them may fail.  The plugin directories change between      *)
(* calls.                                                                    *)
EXTENDS Naturals, Sequences, FiniteSets

CONSTANTS
    Disks,      \* the contents the plugin directories may have
    Natives,    \* the in-process plugins a host may register: a sequence of ids
    MaxLoads    \* bound on the number of reloads attempted

ASSUME PluginConstants ==
    /\ MaxLoads \in Nat
    /\ Natives \in Seq(STRING)

VARIABLES
    disk,       \* what discover_all would find now
    owner,      \* who drives the lifecycle: nobody, a manager or a bare host
    lifecycle,  \* the registered plugins, in registration order
    set,        \* the published PluginSet: its entries and capability index
    reloading,  \* the manager's flag
    call,       \* the operation in progress
    phase, at,  \* where in the operation, and at which plugin
    result,     \* what the last operation returned
    loads,      \* reloads attempted so far
    leaked      \* history: plugins dropped while they were still up

vars == <<disk, owner, lifecycle, set, reloading, call, phase, at, result,
          loads, leaked>>

Errors == {"DiscoveryIo", "ManifestIo", "ManifestParse", "ManifestValidation",
           "WasmLoad", "Conflict", "Plugin", "ReloadInProgress"}

(* A plugin as the lifecycle owns it: `up` from a successful provision to    *)
(* the cleanup, `running` from a successful run.  A native plugin's          *)
(* provision closure is taken by the first call.                             *)
Instance(kind, id, provides) ==
    [kind |-> kind, id |-> id, provides |-> provides,
     up |-> FALSE, running |-> FALSE, taken |-> FALSE]

EmptySet == [entries |-> <<>>, index |-> [c \in {} |-> ""]]

Init ==
    /\ disk \in Disks
    /\ owner = "nobody" /\ lifecycle = <<>> /\ set = EmptySet
    /\ reloading = FALSE /\ call = "none" /\ phase = "idle" /\ at = 0
    /\ result = "none" /\ loads = 0 /\ leaked = {}

-----------------------------------------------------------------------------
(* Discovery.  A disk is a sequence of directories, each missing,            *)
(* unreadable or a sequence of files in directory order.  A file carries     *)
(* what loading it comes to: its stem, its manifest if it has one, and the   *)
(* error that loading it raises, if any.                                     *)

Files(d) ==
    LET readable(dir) == dir.state = "present"
        files[n \in 0 .. Len(d)] ==
            IF n = 0 THEN <<>>
            ELSE files[n - 1] \o (IF readable(d[n]) THEN d[n].files ELSE <<>>)
    IN  SelectSeq(files[Len(d)], LAMBDA f : f.wasm)

PluginFile ==
    [wasm: BOOLEAN, stem: STRING, error: STRING,
     manifest: [present: BOOLEAN, name: STRING, provides: SUBSET STRING]]

ASSUME DiskAssumption == \A d \in Disks : Files(d) \in Seq(PluginFile)

\* The manifest beside the module, or the identity derived from its name.
ManifestOf(f) ==
    IF f.manifest.present THEN [name |-> f.manifest.name, provides |-> f.manifest.provides]
    ELSE [name |-> f.stem, provides |-> {}]

\* What makes discovery fail: a directory that cannot be read, or a file with
\* a bad manifest or module.  Which of several is met first is the file
\* system's choice.
DiscoveryErrors(d) ==
    {"DiscoveryIo" : i \in {i \in 1 .. Len(d) : d[i].state = "unreadable"}}
        \cup {Files(d)[i].error : i \in {i \in 1 .. Len(Files(d)) : Files(d)[i].error # "none"}}

LoadedPlugins(d) ==
    [i \in 1 .. Len(Files(d)) |->
        LET m == ManifestOf(Files(d)[i]) IN Instance("wasm", m.name, m.provides)]

\* Capability id to plugin id; of several plugins the last one found wins.
CapabilityIndex(d) ==
    LET fs == Files(d)
        provided(i) == ManifestOf(fs[i]).provides
        last(c) == CHOOSE i \in 1 .. Len(fs) :
                      c \in provided(i) /\ \A j \in i + 1 .. Len(fs) : c \notin provided(j)
    IN  [c \in UNION {provided(i) : i \in 1 .. Len(fs)} |-> ManifestOf(fs[last(c)]).name]

\* The ids of a sequence of plugins, entries or probes.
Ids(ps) == [i \in DOMAIN ps |-> ps[i].id]

PluginSetOf(d) == [entries |-> Ids(LoadedPlugins(d)), index |-> CapabilityIndex(d)]

\* health reports every entry of the published set alive, whatever its state.
Health == [i \in DOMAIN set.entries |-> [id |-> set.entries[i], alive |-> TRUE]]

-----------------------------------------------------------------------------
(* The operations a host calls.                                              *)

Edit ==
    /\ phase = "idle"
    /\ disk' \in Disks \ {disk}
    /\ UNCHANGED <<owner, lifecycle, set, reloading, call, phase, at, result,
                   loads, leaked>>

New ==
    /\ phase = "idle" /\ owner = "nobody"
    /\ \/ /\ DiscoveryErrors(disk) # {}
          /\ result' \in DiscoveryErrors(disk)
          /\ UNCHANGED <<owner, lifecycle, set>>
       \/ /\ DiscoveryErrors(disk) = {}
          /\ owner' = "manager" /\ result' = "ok"
          /\ lifecycle' = LoadedPlugins(disk) /\ set' = PluginSetOf(disk)
    /\ UNCHANGED <<disk, reloading, call, phase, at, loads, leaked>>

\* A host registers NativePlugins in a Lifecycle of its own.
RegisterNatives ==
    /\ phase = "idle" /\ owner = "nobody"
    /\ owner' = "host" /\ result' = "ok"
    /\ lifecycle' = [i \in 1 .. Len(Natives) |-> Instance("native", Natives[i], {})]
    /\ UNCHANGED <<disk, set, reloading, call, phase, at, loads, leaked>>

Start ==
    /\ phase = "idle" /\ owner # "nobody"
    /\ call' = "start" /\ phase' = "check" /\ at' = 1
    /\ UNCHANGED <<disk, owner, lifecycle, set, reloading, result, loads, leaked>>

Shutdown ==
    /\ phase = "idle" /\ owner # "nobody"
    /\ call' = "shutdown" /\ phase' = "cleanup" /\ at' = Len(lifecycle) /\ result' = "ok"
    /\ UNCHANGED <<disk, owner, lifecycle, set, reloading, loads, leaked>>

\* Mutant: the old plugins are not drained before the new ones are loaded.
ReloadUndrained ==
    /\ phase = "idle" /\ owner = "manager" /\ loads < MaxLoads
    /\ loads' = loads + 1
    /\ reloading' = TRUE
    /\ call' = "reload" /\ phase' = "cleanup" /\ at' = 0 /\ result' = "ok"
    /\ UNCHANGED <<disk, owner, lifecycle, set, leaked>>

Reload ==
    /\ phase = "idle" /\ owner = "manager" /\ loads < MaxLoads
    /\ loads' = loads + 1
    /\ IF reloading
       THEN /\ result' = "ReloadInProgress"
            /\ UNCHANGED <<reloading, call, phase, at>>
       ELSE /\ reloading' = TRUE
            /\ call' = "reload" /\ phase' = "cleanup" /\ at' = Len(lifecycle)
            /\ result' = "ok"
    /\ UNCHANGED <<disk, owner, lifecycle, set, leaked>>

-----------------------------------------------------------------------------
(* The steps of an operation.                                                *)

\* The operation returns r.  Only a reload that succeeds clears the flag.
Return(r) ==
    /\ phase' = "idle" /\ call' = "none" /\ at' = 0 /\ result' = r
    /\ reloading' = (reloading /\ ~(call = "reload" /\ r = "ok"))

\* An error inside Lifecycle::start cleans up all plugins, then returns.
Fail(e) ==
    /\ phase' = "cleanup" /\ at' = Len(lifecycle) /\ result' = e
    /\ UNCHANGED <<call, reloading>>

\* Two plugins of one id are an error before any plugin is provisioned.
CheckIds ==
    /\ phase = "check"
    /\ IF Cardinality({lifecycle[i].id : i \in DOMAIN lifecycle}) < Len(lifecycle)
       THEN Fail("Conflict")
       ELSE /\ phase' = "provision" /\ at' = 1
            /\ UNCHANGED <<call, result, reloading>>
    /\ UNCHANGED <<disk, owner, lifecycle, set, loads, leaked>>

\* A wasm plugin fails when an export is missing or traps, and is not asked to
\* validate; a native one when its closure says so, and a second provision has
\* no closure left to run.
WasmMayFail(ph) == ph \in {"provision", "run"}
NativeMayFail(p, ph) == ~(ph = "provision" /\ p.taken)
MayFail(p, ph) == IF p.kind = "wasm" THEN WasmMayFail(ph) ELSE NativeMayFail(p, ph)

ProvisionOne ==
    /\ phase = "provision" /\ at <= Len(lifecycle)
    /\ \/ /\ lifecycle' = [lifecycle EXCEPT ![at].up = TRUE, ![at].taken = TRUE]
          /\ at' = at + 1
          /\ UNCHANGED <<phase, call, result, reloading>>
       \/ /\ MayFail(lifecycle[at], "provision")
          /\ lifecycle' = [lifecycle EXCEPT ![at].taken = TRUE]
          /\ Fail("Plugin")
    /\ UNCHANGED <<disk, owner, set, loads, leaked>>

ValidateOne ==
    /\ phase = "validate" /\ at <= Len(lifecycle)
    /\ \/ at' = at + 1 /\ UNCHANGED <<phase, call, result, reloading>>
       \/ MayFail(lifecycle[at], "validate") /\ Fail("Plugin")
    /\ UNCHANGED <<disk, owner, lifecycle, set, loads, leaked>>

RunOne ==
    /\ phase = "run" /\ at <= Len(lifecycle)
    /\ \/ /\ lifecycle' = [lifecycle EXCEPT ![at].running = TRUE]
          /\ at' = at + 1
          /\ UNCHANGED <<phase, call, result, reloading>>
       \/ MayFail(lifecycle[at], "run") /\ Fail("Plugin") /\ UNCHANGED lifecycle
    /\ UNCHANGED <<disk, owner, set, loads, leaked>>

NextPhase == [provision |-> "validate", validate |-> "run"]

\* All plugins are through a phase; after the last one start returns.
PhaseDone ==
    /\ phase \in {"provision", "validate", "run"} /\ at > Len(lifecycle)
    /\ IF phase = "run" THEN Return("ok")
       ELSE /\ phase' = NextPhase[phase] /\ at' = 1
            /\ UNCHANGED <<call, result, reloading>>
    /\ UNCHANGED <<disk, owner, lifecycle, set, loads, leaked>>

\* Mutant: cleanup runs in registration order.
CleanupForwards ==
    /\ phase = "cleanup" /\ at > 0
    /\ lifecycle' = [lifecycle EXCEPT ![Len(lifecycle) + 1 - at].up = FALSE,
                                      ![Len(lifecycle) + 1 - at].running = FALSE]
    /\ at' = at - 1
    /\ UNCHANGED <<disk, owner, set, reloading, call, phase, result, loads, leaked>>

\* Lifecycle::cleanup, in reverse order; an error of a plugin is ignored.
CleanupOne ==
    /\ phase = "cleanup" /\ at > 0
    /\ lifecycle' = [lifecycle EXCEPT ![at].up = FALSE, ![at].running = FALSE]
    /\ at' = at - 1
    /\ UNCHANGED <<disk, owner, set, reloading, call, phase, result, loads, leaked>>

\* Cleanup ends a shutdown, and a start or the resume of a reload that failed.
CleanedUp ==
    /\ phase = "cleanup" /\ at = 0
    /\ call # "reload" \/ result # "ok"
    /\ Return(result)
    /\ UNCHANGED <<disk, owner, lifecycle, set, loads, leaked>>

\* Mutant: the lifecycle is replaced but the old set stays published.
RebuildOldSet ==
    /\ phase = "cleanup" /\ at = 0 /\ call = "reload" /\ result = "ok"
    /\ IF DiscoveryErrors(disk) # {}
       THEN Return("DiscoveryIo") /\ UNCHANGED lifecycle
       ELSE /\ lifecycle' = LoadedPlugins(disk) /\ phase' = "check" /\ at' = 1
            /\ UNCHANGED <<call, result, reloading>>
    /\ UNCHANGED <<disk, owner, loads, set, leaked>>

\* Drained: discover again and swap set and lifecycle.  A discovery that fails
\* returns here, with the flag set and the old set still published.
Rebuild ==
    /\ phase = "cleanup" /\ at = 0 /\ call = "reload" /\ result = "ok"
    /\ \/ /\ DiscoveryErrors(disk) # {}
          /\ \E e \in DiscoveryErrors(disk) : Return(e)
          /\ UNCHANGED <<lifecycle, set, leaked>>
       \/ /\ DiscoveryErrors(disk) = {}
          /\ leaked' = leaked \cup {i \in DOMAIN lifecycle : lifecycle[i].up}
          /\ lifecycle' = LoadedPlugins(disk) /\ set' = PluginSetOf(disk)
          /\ phase' = "check" /\ at' = 1
          /\ UNCHANGED <<call, result, reloading>>
    /\ UNCHANGED <<disk, owner, loads>>

Step == CheckIds \/ ProvisionOne \/ ValidateOne \/ RunOne \/ PhaseDone
        \/ CleanupOne \/ CleanedUp \/ Rebuild

Next == Edit \/ New \/ RegisterNatives \/ Start \/ Shutdown \/ Reload \/ Step

Spec == Init /\ [][Next]_vars

-----------------------------------------------------------------------------
Phases == {"idle", "check", "provision", "validate", "run", "cleanup"}

PluginInstance ==
    [kind: {"wasm", "native"}, id: STRING, provides: SUBSET STRING,
     up: BOOLEAN, running: BOOLEAN, taken: BOOLEAN]

\* Type invariant.
TypeOK ==
    /\ disk \in Disks /\ owner \in {"nobody", "manager", "host"}
    /\ lifecycle \in Seq(PluginInstance)
    /\ reloading \in BOOLEAN
    /\ call \in {"none", "start", "reload", "shutdown"}
    /\ phase \in Phases /\ at \in 0 .. Len(lifecycle) + 1
    /\ result \in Errors \cup {"none", "ok"}
    /\ loads \in 0 .. MaxLoads /\ leaked \subseteq Nat

(* A plugin is up only while every plugin registered before it is, through   *)
(* start, a start that fails half-way, a second start, shutdown and reload   *)
(* (Lifecycle provisions and runs in order and cleans up in reverse); and    *)
(* outside a cleanup nothing runs before all are provisioned.                *)
PhasesInOrder ==
    \A i, j \in DOMAIN lifecycle :
        /\ i < j /\ lifecycle[j].up => lifecycle[i].up
        /\ i < j /\ lifecycle[j].running => lifecycle[i].running
        /\ lifecycle[i].running => lifecycle[i].up
        /\ lifecycle[i].running /\ phase # "cleanup" => lifecycle[j].up

(* No reload drops a plugin that is still up: whatever happened before, all  *)
(* plugins of the old lifecycle are cleaned up before it is replaced; and an *)
(* operation that returned an error, a reload whose discovery failed or a    *)
(* start that failed half-way, has left none up.                             *)
ReplacedAreDown ==
    /\ leaked = {}
    /\ phase = "idle" /\ result \in Errors \ {"ReloadInProgress"} =>
          \A i \in DOMAIN lifecycle : ~lifecycle[i].up

(* The set the pipeline reads, and health reports, names exactly the plugins *)
(* the lifecycle drives, position by position, also after every failure;     *)
(* provider_for answers a capability with one of them that declares it, also *)
(* when several claim it; and plugins that run have different ids.           *)
PublishedIsDriven ==
    /\ owner = "manager" => Ids(Health) = Ids(lifecycle)
    /\ \A c \in DOMAIN set.index :
          \E i \in DOMAIN lifecycle :
              set.entries[i] = set.index[c] /\ c \in lifecycle[i].provides
    /\ phase # "cleanup" =>
          \A i, j \in DOMAIN lifecycle :
              lifecycle[i].running /\ lifecycle[i].id = lifecycle[j].id => i = j

=============================================================================
