---------------------------- MODULE PluginsProofs ----------------------------
(***************************************************************************)
(* Proofs about module Plugins, for any plugins, any contents of the       *)
(* plugin directories and any number of starts, reloads and shutdowns.     *)
(*                                                                         *)
(* PhasesInOrder is not inductive: how far a phase has got says which      *)
(* plugins are up.  While provision is at a plugin, those before it are up *)
(* and the others may be so from an earlier start; while cleanup is at a   *)
(* plugin, those behind it are down.  LifeInv adds this.                   *)
(*                                                                         *)
(* PublishedIsDriven needs two more facts: a manager's published set and   *)
(* its lifecycle come from one discovery and no step changes the identity  *)
(* of a plugin (PublishInv); and the check for conflicts, a comparison of  *)
(* two numbers, does make the ids distinct (ChecksAreDistinct).            *)
(***************************************************************************)
EXTENDS Plugins, TLAPS, FiniteSetTheorems, WellFoundedInduction

Up(i) == lifecycle[i].up
Runs(i) == lifecycle[i].running
AllDown == \A i \in DOMAIN lifecycle : ~Up(i) /\ ~Runs(i)
AllUp == \A i \in DOMAIN lifecycle : Up(i)

\* The part of the types that the argument needs.
ShapeInv ==
    /\ disk \in Disks /\ lifecycle \in Seq(PluginInstance) /\ at \in Nat
    /\ phase \in Phases

OrderInv ==
    /\ \A i, j \in DOMAIN lifecycle : i < j /\ Up(j) => Up(i)
    /\ \A i, j \in DOMAIN lifecycle : i < j /\ Runs(j) => Runs(i)
    /\ \A i \in DOMAIN lifecycle : Runs(i) => Up(i)
    /\ phase # "cleanup" /\ (\E i \in DOMAIN lifecycle : Runs(i)) => AllUp

\* How far the phase has got.
ProgressInv ==
    /\ phase = "provision" => at >= 1 /\ \A i \in DOMAIN lifecycle : i < at => Up(i)
    /\ phase = "validate" => at >= 1 /\ AllUp
    /\ phase = "run" => at >= 1 /\ AllUp /\ \A i \in DOMAIN lifecycle : i < at => Runs(i)
    /\ phase = "cleanup" =>
          at <= Len(lifecycle) /\ \A i \in DOMAIN lifecycle : i > at => ~Up(i) /\ ~Runs(i)

DownInv ==
    /\ leaked = {}
    /\ owner = "nobody" => phase = "idle" /\ lifecycle = <<>>
    /\ phase = "idle" /\ result \in Errors \ {"ReloadInProgress"} => AllDown

LifeInv == ShapeInv /\ OrderInv /\ ProgressInv /\ DownInv

-----------------------------------------------------------------------------
LEMMA InstanceTyped ==
    ASSUME NEW kind \in {"wasm", "native"}, NEW id \in STRING, NEW provides \in SUBSET STRING
    PROVE  /\ Instance(kind, id, provides) \in PluginInstance
           /\ ~Instance(kind, id, provides).up /\ ~Instance(kind, id, provides).running
  BY DEF Instance, PluginInstance

LEMMA LoadedAreDown ==
    ASSUME NEW d \in Disks
    PROVE  /\ LoadedPlugins(d) \in Seq(PluginInstance)
           /\ \A i \in DOMAIN LoadedPlugins(d) :
                 ~LoadedPlugins(d)[i].up /\ ~LoadedPlugins(d)[i].running
  <1>1. Files(d) \in Seq(PluginFile)
    BY DiskAssumption
  <1>2. \A f \in PluginFile : ManifestOf(f).name \in STRING /\ ManifestOf(f).provides \in SUBSET STRING
    BY DEF PluginFile, ManifestOf
  <1> DEFINE n == Len(Files(d))
             new(i) == Instance("wasm", ManifestOf(Files(d)[i]).name, ManifestOf(Files(d)[i]).provides)
  <1>3. n \in Nat /\ \A i \in 1 .. n : Files(d)[i] \in PluginFile
    BY <1>1
  <1>4. \A i \in 1 .. n : new(i) \in PluginInstance /\ ~new(i).up /\ ~new(i).running
    BY <1>2, <1>3, InstanceTyped
  <1>5. LoadedPlugins(d) = [i \in 1 .. n |-> new(i)]
    BY DEF LoadedPlugins
  <1> HIDE DEF n, new
  <1> QED BY <1>3, <1>4, <1>5

LEMMA NativesAreDown ==
    LET ps == [i \in 1 .. Len(Natives) |-> Instance("native", Natives[i], {})] IN
    /\ ps \in Seq(PluginInstance)
    /\ \A i \in DOMAIN ps : ~ps[i].up /\ ~ps[i].running
  <1> DEFINE new(i) == Instance("native", Natives[i], {})
             n == Len(Natives)
  <1>1. n \in Nat /\ \A i \in 1 .. n : Natives[i] \in STRING
    BY PluginConstants
  <1>2. {} \in SUBSET STRING
    OBVIOUS
  <1>3. \A i \in 1 .. n : new(i) \in PluginInstance /\ ~new(i).up /\ ~new(i).running
    BY <1>1, <1>2, InstanceTyped
  <1> HIDE DEF new, n
  <1>4. [i \in 1 .. n |-> new(i)] \in Seq(PluginInstance)
    BY <1>1, <1>3
  <1>5. \A i \in DOMAIN [k \in 1 .. n |-> new(k)] :
           ~[k \in 1 .. n |-> new(k)][i].up /\ ~[k \in 1 .. n |-> new(k)][i].running
    BY <1>3
  <1> QED BY <1>4, <1>5 DEF new, n

\* One plugin is replaced by another form of it.
LEMMA PluginUpdated ==
    ASSUME lifecycle \in Seq(PluginInstance), NEW k \in DOMAIN lifecycle,
           NEW p \in PluginInstance, lifecycle' = [lifecycle EXCEPT ![k] = p]
    PROVE  /\ lifecycle' \in Seq(PluginInstance) /\ DOMAIN lifecycle' = DOMAIN lifecycle
           /\ Len(lifecycle') = Len(lifecycle) /\ lifecycle'[k] = p
           /\ \A i \in DOMAIN lifecycle : i # k => lifecycle'[i] = lifecycle[i]
  OBVIOUS

LEMMA Positions ==
    ASSUME lifecycle \in Seq(PluginInstance)
    PROVE  /\ DOMAIN lifecycle = 1 .. Len(lifecycle) /\ Len(lifecycle) \in Nat
           /\ \A i \in DOMAIN lifecycle : i \in Nat /\ lifecycle[i] \in PluginInstance
  OBVIOUS

\* A lifecycle of plugins that are down keeps every promise.
LEMMA FreshKeeps ==
    ASSUME lifecycle' \in Seq(PluginInstance), disk' \in Disks, at' \in Nat,
           AllDown', phase' \in {"idle", "check"}, owner' # "nobody", leaked' = {}
    PROVE  LifeInv'
  BY DEF LifeInv, ShapeInv, OrderInv, ProgressInv, DownInv, AllDown, Phases

LEMMA LifeInit == Init => LifeInv
  <1> SUFFICES ASSUME Init PROVE LifeInv
    OBVIOUS
  <1>1. lifecycle = <<>> /\ disk \in Disks /\ at = 0 /\ phase = "idle" /\ leaked = {}
    BY DEF Init
  <1>2. lifecycle \in Seq(PluginInstance) /\ DOMAIN lifecycle = {}
    BY <1>1
  <1> QED BY <1>1, <1>2 DEF LifeInv, ShapeInv, OrderInv, ProgressInv, DownInv, AllDown, AllUp, Phases

-----------------------------------------------------------------------------
(* The operations.                                                         *)

\* A step that leaves the plugins alone.
LEMMA SamePlugins ==
    ASSUME lifecycle' = lifecycle
    PROVE  /\ \A i : Up(i)' = Up(i) /\ Runs(i)' = Runs(i)
           /\ AllUp' = AllUp /\ AllDown' = AllDown
  BY DEF Up, Runs, AllUp, AllDown

LEMMA OperationKeeps ==
    ASSUME LifeInv, Edit \/ New \/ RegisterNatives \/ Start \/ Shutdown \/ Reload
    PROVE  LifeInv'
  <1> USE DEF LifeInv
  <1>1. DOMAIN lifecycle = 1 .. Len(lifecycle) /\ Len(lifecycle) \in Nat
    BY Positions DEF ShapeInv
  <1>2. CASE New
    <2>1. CASE DiscoveryErrors(disk) = {}
      <3>1. /\ lifecycle' = LoadedPlugins(disk) /\ owner' = "manager"
            /\ phase' = "idle" /\ UNCHANGED <<disk, at, leaked>>
        BY <1>2, <2>1 DEF New
      <3>2. lifecycle' \in Seq(PluginInstance) /\ AllDown'
        BY <3>1, LoadedAreDown DEF ShapeInv, AllDown, Up, Runs
      <3> QED BY <3>1, <3>2, FreshKeeps DEF ShapeInv, DownInv
    <2>2. CASE DiscoveryErrors(disk) # {}
      <3>1. /\ owner = "nobody" /\ phase = "idle"
            /\ UNCHANGED <<disk, owner, lifecycle, phase, at, leaked>>
        BY <1>2, <2>2 DEF New
      <3>2. lifecycle = <<>> /\ DOMAIN lifecycle = {}
        BY <3>1 DEF DownInv
      <3> QED BY <3>1, <3>2, SamePlugins DEF ShapeInv, OrderInv, ProgressInv, DownInv, AllDown, AllUp
    <2> QED BY <2>1, <2>2
  <1>3. CASE RegisterNatives
    <2>1. /\ lifecycle' = [i \in 1 .. Len(Natives) |-> Instance("native", Natives[i], {})]
          /\ owner' = "host" /\ phase' = "idle" /\ UNCHANGED <<disk, at, leaked>>
      BY <1>3 DEF RegisterNatives
    <2>2. lifecycle' \in Seq(PluginInstance) /\ AllDown'
      BY <2>1, NativesAreDown DEF AllDown, Up, Runs
    <2> QED BY <2>1, <2>2, FreshKeeps DEF ShapeInv, DownInv
  <1>4. CASE /\ UNCHANGED <<owner, lifecycle, phase, at, leaked>> /\ phase = "idle" /\ disk' \in Disks
             /\ result' = result \/ result' = "ReloadInProgress"
    BY <1>4, SamePlugins DEF ShapeInv, OrderInv, ProgressInv, DownInv
  <1>5. CASE /\ UNCHANGED <<disk, owner, lifecycle, leaked>> /\ phase = "idle" /\ owner # "nobody"
             /\ \/ phase' = "check" /\ at' = 1
                \/ phase' = "cleanup" /\ at' = Len(lifecycle)
    <2>1. \A i \in DOMAIN lifecycle : ~(i > Len(lifecycle))
      BY <1>1
    <2> QED BY <1>1, <1>5, <2>1, SamePlugins DEF ShapeInv, OrderInv, ProgressInv, DownInv, Phases
  <1>6. CASE Edit
    BY <1>4, <1>6 DEF Edit
  <1>7. CASE Start \/ Shutdown
    BY <1>5, <1>7 DEF Start, Shutdown
  <1>8. CASE Reload
    BY <1>4, <1>5, <1>8 DEF Reload, ShapeInv
  <1> QED BY <1>2, <1>3, <1>6, <1>7, <1>8

\* A phase moves on, or fails and hands over to cleanup.
LEMMA PhaseKeeps ==
    ASSUME LifeInv, lifecycle' = lifecycle, UNCHANGED <<disk, owner, leaked>>,
           \/ phase' = "cleanup" /\ at' = Len(lifecycle) /\ phase # "idle"
           \/ phase' = "provision" /\ at' = 1 /\ phase = "check"
           \/ phase' = "validate" /\ at' = 1 /\ phase = "provision" /\ at > Len(lifecycle)
           \/ phase' = "run" /\ at' = 1 /\ phase = "validate"
           \/ phase' = "idle" /\ result' = "ok" /\ at' = 0 /\ phase = "run"
           \/ phase' = phase /\ phase = "validate" /\ at' = at + 1
    PROVE  LifeInv'
  <1> USE DEF LifeInv
  <1>1. DOMAIN lifecycle = 1 .. Len(lifecycle) /\ Len(lifecycle) \in Nat /\ at \in Nat
    BY Positions DEF ShapeInv
  <1>2. ShapeInv'
    BY <1>1 DEF ShapeInv, Phases
  <1>3. /\ \A i \in DOMAIN lifecycle : ~(i > Len(lifecycle)) /\ ~(i < 1)
        /\ at > Len(lifecycle) => \A i \in DOMAIN lifecycle : i < at
    BY <1>1
  <1>4. OrderInv'
    BY SamePlugins DEF OrderInv
  <1>5. ProgressInv'
    BY <1>1, <1>3, SamePlugins DEF ProgressInv, AllUp
  <1>6. DownInv'
    BY SamePlugins DEF DownInv, Errors
  <1> QED BY <1>2, <1>4, <1>5, <1>6

LEMMA ProvisionKeeps == LifeInv /\ ProvisionOne => LifeInv'
  <1> SUFFICES ASSUME LifeInv, ProvisionOne PROVE LifeInv'
    OBVIOUS
  <1> USE DEF LifeInv
  <1>1. /\ phase = "provision" /\ at <= Len(lifecycle) /\ UNCHANGED <<disk, owner, leaked>>
        /\ at >= 1 /\ at \in Nat /\ \A i \in DOMAIN lifecycle : i < at => Up(i)
    BY DEF ProvisionOne, ProgressInv, ShapeInv
  <1>2. DOMAIN lifecycle = 1 .. Len(lifecycle) /\ Len(lifecycle) \in Nat
        /\ \A i \in DOMAIN lifecycle : i \in Nat
    BY Positions DEF ShapeInv
  <1>3. at \in DOMAIN lifecycle /\ lifecycle[at] \in PluginInstance
    BY <1>1, <1>2, Positions DEF ShapeInv
  <1>4. PICK p \in PluginInstance :
           /\ lifecycle' = [lifecycle EXCEPT ![at] = p]
           /\ p.running = Runs(at) /\ (Up(at) => p.up)
           /\ \/ p.up /\ phase' = "provision" /\ at' = at + 1
              \/ p.up = Up(at) /\ phase' = "cleanup" /\ at' = Len(lifecycle)
    <2> DEFINE q == [lifecycle[at] EXCEPT !.up = TRUE, !.taken = TRUE]
               r == [lifecycle[at] EXCEPT !.taken = TRUE]
    <2>1. /\ q \in PluginInstance /\ r \in PluginInstance /\ q.up /\ q.running = Runs(at)
          /\ r.up = Up(at) /\ r.running = Runs(at)
      BY <1>3 DEF PluginInstance, Up, Runs
    <2>2. \/ lifecycle' = [lifecycle EXCEPT ![at] = q] /\ phase' = "provision" /\ at' = at + 1
          \/ lifecycle' = [lifecycle EXCEPT ![at] = r] /\ phase' = "cleanup" /\ at' = Len(lifecycle)
      BY <1>1, <1>3 DEF ProvisionOne, Fail
    <2> HIDE DEF q, r
    <2> QED BY <2>1, <2>2
  <1>5. /\ lifecycle' \in Seq(PluginInstance) /\ DOMAIN lifecycle' = DOMAIN lifecycle
        /\ Len(lifecycle') = Len(lifecycle) /\ lifecycle'[at] = p
        /\ \A i \in DOMAIN lifecycle : i # at => lifecycle'[i] = lifecycle[i]
    BY <1>3, <1>4, PluginUpdated DEF ShapeInv
  <1>6. \A i \in DOMAIN lifecycle : /\ lifecycle'[i].running = Runs(i)
                                    /\ Up(i) => lifecycle'[i].up
                                    /\ i # at => lifecycle'[i].up = Up(i)
    BY <1>4, <1>5 DEF Up, Runs
  <1>7. ShapeInv'
    BY <1>1, <1>2, <1>4, <1>5 DEF ShapeInv, Phases
  <1>8. OrderInv'
    <2>1. ASSUME NEW i \in DOMAIN lifecycle, NEW j \in DOMAIN lifecycle, i < j, lifecycle'[j].up
          PROVE  lifecycle'[i].up
      <3>1. CASE j = at
        BY <1>1, <1>6, <2>1, <3>1
      <3>2. CASE j # at
        BY <1>6, <2>1, <3>2 DEF OrderInv
      <3> QED BY <3>1, <3>2
    <2>2. (\E i \in DOMAIN lifecycle : Runs(i)) => \A i \in DOMAIN lifecycle : lifecycle'[i].up
      BY <1>1, <1>6 DEF OrderInv, AllUp
    <2>3. \A i, j \in DOMAIN lifecycle : i < j /\ lifecycle'[j].running => lifecycle'[i].running
      BY <1>6 DEF OrderInv
    <2>4. \A i \in DOMAIN lifecycle : lifecycle'[i].running => lifecycle'[i].up
      BY <1>6 DEF OrderInv
    <2> QED BY <1>5, <1>6, <2>1, <2>2, <2>3, <2>4 DEF OrderInv, AllUp, Up, Runs
  <1>9. ProgressInv'
    <2>1. CASE p.up /\ phase' = "provision" /\ at' = at + 1
      <3>1. \A i \in DOMAIN lifecycle : i < at + 1 => i = at \/ i < at
        BY <1>1, <1>2
      <3>2. \A i \in DOMAIN lifecycle : i < at + 1 => lifecycle'[i].up
        BY <1>1, <1>5, <1>6, <2>1, <3>1
      <3>3. at + 1 >= 1
        BY <1>1
      <3> QED BY <1>5, <2>1, <3>2, <3>3 DEF ProgressInv, Up
    <2>2. CASE phase' = "cleanup" /\ at' = Len(lifecycle)
      <3>1. \A i \in DOMAIN lifecycle : ~(i > Len(lifecycle))
        BY <1>2
      <3> QED BY <1>2, <1>5, <2>2, <3>1 DEF ProgressInv
    <2> QED BY <1>4, <2>1, <2>2
  <1>10. DownInv'
    <2>1. lifecycle # <<>>
      BY <1>2, <1>3
    <2> QED BY <1>1, <1>4, <2>1 DEF DownInv
  <1> QED BY <1>7, <1>8, <1>9, <1>10

LEMMA RunKeeps == LifeInv /\ RunOne => LifeInv'
  <1> SUFFICES ASSUME LifeInv, RunOne PROVE LifeInv'
    OBVIOUS
  <1> USE DEF LifeInv
  <1>1. /\ phase = "run" /\ at <= Len(lifecycle) /\ UNCHANGED <<disk, owner, leaked>>
        /\ at >= 1 /\ at \in Nat /\ AllUp /\ \A i \in DOMAIN lifecycle : i < at => Runs(i)
    BY DEF RunOne, ProgressInv, ShapeInv
  <1>2. DOMAIN lifecycle = 1 .. Len(lifecycle) /\ Len(lifecycle) \in Nat
        /\ \A i \in DOMAIN lifecycle : i \in Nat
    BY Positions DEF ShapeInv
  <1>3. at \in DOMAIN lifecycle /\ lifecycle[at] \in PluginInstance
    BY <1>1, <1>2, Positions DEF ShapeInv
  <1>4. CASE lifecycle' = lifecycle /\ Fail("Plugin")
    BY <1>1, <1>4, PhaseKeeps DEF Fail
  <1>5. CASE /\ lifecycle' = [lifecycle EXCEPT ![at].running = TRUE]
             /\ at' = at + 1 /\ phase' = "run"
    <2> DEFINE p == [lifecycle[at] EXCEPT !.running = TRUE]
    <2>1. p \in PluginInstance /\ p.running /\ p.up = Up(at)
      BY <1>3 DEF PluginInstance, Up
    <2>2. lifecycle' = [lifecycle EXCEPT ![at] = p]
      BY <1>5
    <2> HIDE DEF p
    <2>3. /\ lifecycle' \in Seq(PluginInstance) /\ DOMAIN lifecycle' = DOMAIN lifecycle
          /\ Len(lifecycle') = Len(lifecycle) /\ lifecycle'[at] = p
          /\ \A i \in DOMAIN lifecycle : i # at => lifecycle'[i] = lifecycle[i]
      BY <1>3, <2>1, <2>2, PluginUpdated DEF ShapeInv
    <2>4. \A i \in DOMAIN lifecycle : /\ lifecycle'[i].up
                                      /\ i # at => lifecycle'[i].running = Runs(i)
                                      /\ Runs(i) => lifecycle'[i].running
      BY <1>1, <2>1, <2>3 DEF AllUp, Up, Runs
    <2>5. \A i \in DOMAIN lifecycle : i < at + 1 => lifecycle'[i].running
      <3>1. \A i \in DOMAIN lifecycle : i < at + 1 => i = at \/ i < at
        BY <1>1, <1>2
      <3> QED BY <1>1, <2>1, <2>3, <2>4, <3>1
    <2>6. \A i, j \in DOMAIN lifecycle : i < j /\ lifecycle'[j].running => lifecycle'[i].running
      <3> SUFFICES ASSUME NEW i \in DOMAIN lifecycle, NEW j \in DOMAIN lifecycle,
                          i < j, lifecycle'[j].running
                   PROVE  lifecycle'[i].running
        OBVIOUS
      <3>1. CASE j = at
        BY <1>1, <2>4, <3>1
      <3>2. CASE j # at
        BY <2>4, <3>2 DEF OrderInv
      <3> QED BY <3>1, <3>2
    <2>7. ShapeInv'
      BY <1>1, <1>5, <2>3 DEF ShapeInv, Phases
    <2>8. OrderInv'
      BY <2>3, <2>4, <2>6 DEF OrderInv, AllUp, Up, Runs
    <2>9. ProgressInv'
      <3>1. at + 1 >= 1
        BY <1>1
      <3> QED BY <1>5, <2>3, <2>4, <2>5, <3>1 DEF ProgressInv, AllUp, Up, Runs
    <2>10. DownInv'
      <3>1. lifecycle # <<>>
        BY <1>2, <1>3
      <3> QED BY <1>1, <1>5, <3>1 DEF DownInv
    <2> QED BY <2>7, <2>8, <2>9, <2>10
  <1> QED BY <1>1, <1>4, <1>5 DEF RunOne

LEMMA CleanupKeeps == LifeInv /\ CleanupOne => LifeInv'
  <1> SUFFICES ASSUME LifeInv, CleanupOne PROVE LifeInv'
    OBVIOUS
  <1> USE DEF LifeInv
  <1>1. /\ phase = "cleanup" /\ phase' = "cleanup" /\ UNCHANGED <<disk, owner, leaked>>
        /\ at \in Nat /\ at > 0 /\ at <= Len(lifecycle) /\ at' = at - 1
        /\ \A i \in DOMAIN lifecycle : i > at => ~Up(i) /\ ~Runs(i)
    BY DEF CleanupOne, ProgressInv, ShapeInv
  <1>2. DOMAIN lifecycle = 1 .. Len(lifecycle) /\ Len(lifecycle) \in Nat
        /\ \A i \in DOMAIN lifecycle : i \in Nat
    BY Positions DEF ShapeInv
  <1>3. at \in DOMAIN lifecycle /\ lifecycle[at] \in PluginInstance
    BY <1>1, <1>2, Positions DEF ShapeInv
  <1> DEFINE p == [lifecycle[at] EXCEPT !.up = FALSE, !.running = FALSE]
  <1>4. p \in PluginInstance /\ ~p.running /\ ~p.up
    BY <1>3 DEF PluginInstance
  <1>5. lifecycle' = [lifecycle EXCEPT ![at] = p]
    BY DEF CleanupOne
  <1> HIDE DEF p
  <1>6. /\ lifecycle' \in Seq(PluginInstance) /\ DOMAIN lifecycle' = DOMAIN lifecycle
        /\ Len(lifecycle') = Len(lifecycle) /\ lifecycle'[at] = p
        /\ \A i \in DOMAIN lifecycle : i # at => lifecycle'[i] = lifecycle[i]
    BY <1>3, <1>4, <1>5, PluginUpdated DEF ShapeInv
  <1>7. \A i \in DOMAIN lifecycle :
           IF i >= at THEN ~lifecycle'[i].up /\ ~lifecycle'[i].running
           ELSE lifecycle'[i].up = Up(i) /\ lifecycle'[i].running = Runs(i)
    <2> TAKE i \in DOMAIN lifecycle
    <2>1. i = at \/ (i > at /\ i # at) \/ (i < at /\ i # at)
      BY <1>1, <1>2
    <2> QED BY <1>1, <1>2, <1>4, <1>6, <2>1 DEF Up, Runs
  <1>8. ShapeInv'
    <2>1. at - 1 \in Nat
      BY <1>1
    <2> QED BY <1>1, <1>6, <2>1 DEF ShapeInv
  <1>9. OrderInv'
    <2>1. ASSUME NEW i \in DOMAIN lifecycle, NEW j \in DOMAIN lifecycle, i < j
          PROVE  /\ lifecycle'[j].up => lifecycle'[i].up
                 /\ lifecycle'[j].running => lifecycle'[i].running
      <3>1. CASE j >= at
        BY <1>7, <3>1
      <3>2. CASE ~(j >= at)
        <4>1. ~(i >= at)
          BY <1>1, <1>2, <2>1, <3>2
        <4> QED BY <1>7, <2>1, <3>2, <4>1 DEF OrderInv
      <3> QED BY <3>1, <3>2
    <2>2. \A i \in DOMAIN lifecycle : lifecycle'[i].running => lifecycle'[i].up
      BY <1>7 DEF OrderInv
    <2> QED BY <1>1, <1>6, <2>1, <2>2 DEF OrderInv, Up, Runs
  <1>10. ProgressInv'
    <2>1. \A i \in DOMAIN lifecycle : i > at - 1 => i >= at
      BY <1>1, <1>2
    <2>2. at - 1 <= Len(lifecycle)
      BY <1>1, <1>2
    <2> QED BY <1>1, <1>6, <1>7, <2>1, <2>2 DEF ProgressInv, Up, Runs
  <1>11. DownInv'
    <2>1. lifecycle # <<>>
      BY <1>2, <1>3
    <2> QED BY <1>1, <2>1 DEF DownInv
  <1> QED BY <1>8, <1>9, <1>10, <1>11

\* Once cleanup is through, nothing is up.
LEMMA CleanIsDown ==
    ASSUME LifeInv, phase = "cleanup", at = 0
    PROVE  AllDown
  <1>1. \A i \in DOMAIN lifecycle : i > 0
    BY Positions DEF LifeInv, ShapeInv
  <1> QED BY <1>1 DEF LifeInv, ProgressInv, AllDown

LEMMA AfterCleanupKeeps == LifeInv /\ (CleanedUp \/ Rebuild) => LifeInv'
  <1> SUFFICES ASSUME LifeInv, CleanedUp \/ Rebuild PROVE LifeInv'
    OBVIOUS
  <1> USE DEF LifeInv
  <1>1. phase = "cleanup" /\ at = 0 /\ AllDown /\ UNCHANGED <<disk, owner>>
    BY CleanIsDown DEF CleanedUp, Rebuild
  <1>2. CASE phase' = "idle" /\ at' = 0 /\ UNCHANGED <<lifecycle, leaked>>
    BY <1>1, <1>2, SamePlugins
       DEF ShapeInv, OrderInv, ProgressInv, DownInv, AllDown, Phases
  <1>3. CASE /\ lifecycle' = LoadedPlugins(disk) /\ phase' = "check" /\ at' = 1
             /\ leaked' = leaked \cup {i \in DOMAIN lifecycle : lifecycle[i].up}
    <2>1. leaked' = {}
      BY <1>1, <1>3 DEF DownInv, AllDown, Up
    <2>2. lifecycle' \in Seq(PluginInstance) /\ AllDown'
      BY <1>3, LoadedAreDown DEF ShapeInv, AllDown, Up, Runs
    <2>3. owner # "nobody"
      BY <1>1 DEF DownInv
    <2> QED BY <1>1, <1>3, <2>1, <2>2, <2>3, FreshKeeps DEF ShapeInv
  <1> QED BY <1>2, <1>3 DEF CleanedUp, Rebuild, Return

LEMMA LifeStep == LifeInv /\ [Next]_vars => LifeInv'
  <1> SUFFICES ASSUME LifeInv, [Next]_vars PROVE LifeInv'
    OBVIOUS
  <1>1. CASE CheckIds
    <2>1. UNCHANGED <<disk, owner, lifecycle, leaked>> /\ phase = "check"
      BY <1>1 DEF CheckIds
    <2>2. \/ phase' = "cleanup" /\ at' = Len(lifecycle)
          \/ phase' = "provision" /\ at' = 1
      BY <1>1 DEF CheckIds, Fail
    <2> QED BY <2>1, <2>2, PhaseKeeps
  <1>2. CASE ValidateOne
    <2>1. UNCHANGED <<disk, owner, lifecycle, leaked>> /\ phase = "validate"
      BY <1>2 DEF ValidateOne
    <2>2. \/ phase' = "cleanup" /\ at' = Len(lifecycle)
          \/ phase' = phase /\ at' = at + 1
      BY <1>2 DEF ValidateOne, Fail
    <2> QED BY <2>1, <2>2, PhaseKeeps
  <1>3. CASE PhaseDone
    <2>1. UNCHANGED <<disk, owner, lifecycle, leaked>> /\ at > Len(lifecycle)
      BY <1>3 DEF PhaseDone
    <2>2. CASE phase = "run"
      <3>1. phase' = "idle" /\ result' = "ok" /\ at' = 0
        BY <1>3, <2>2 DEF PhaseDone, Return
      <3> QED BY <2>1, <2>2, <3>1, PhaseKeeps
    <2>3. CASE phase \in {"provision", "validate"}
      <3>1. NextPhase["provision"] = "validate" /\ NextPhase["validate"] = "run"
        BY DEF NextPhase
      <3>2. phase' = NextPhase[phase] /\ at' = 1
        BY <1>3, <2>3 DEF PhaseDone
      <3> QED BY <2>1, <2>3, <3>1, <3>2, PhaseKeeps
    <2> QED BY <1>3, <2>2, <2>3 DEF PhaseDone
  <1>4. CASE UNCHANGED vars
    <2>1. UNCHANGED <<disk, owner, lifecycle, phase, at, result, leaked>>
      BY <1>4 DEF vars
    <2> QED BY <2>1, SamePlugins DEF LifeInv, ShapeInv, OrderInv, ProgressInv, DownInv
  <1> QED
    BY <1>1, <1>2, <1>3, <1>4, OperationKeeps, ProvisionKeeps, RunKeeps, CleanupKeeps,
       AfterCleanupKeeps DEF Next, Step

(* Through every start, failed start, second start, reload and shutdown the  *)
(* plugins are up and running in registration order, and outside a cleanup   *)
(* none runs before all are provisioned (Lifecycle::start and cleanup).      *)
THEOREM LifecycleKeepsOrder == Spec => []PhasesInOrder
  <1>1. LifeInv => PhasesInOrder
    <2> SUFFICES ASSUME LifeInv PROVE PhasesInOrder
      OBVIOUS
    <2> QED BY DEF LifeInv, OrderInv, AllUp, Up, Runs, PhasesInOrder
  <1> QED BY <1>1, LifeInit, LifeStep, PTL DEF Spec

(* A reload never drops a plugin that is still up, and an operation that     *)
(* returned an error has left none up (PluginManager::reload, start).        *)
THEOREM ReloadLeaksNothing == Spec => []ReplacedAreDown
  <1>1. LifeInv => ReplacedAreDown
    BY DEF LifeInv, DownInv, AllDown, Up, ReplacedAreDown
  <1> QED BY <1>1, LifeInit, LifeStep, PTL DEF Spec
-----------------------------------------------------------------------------
(* The published set.                                                      *)

\* Every set of naturals that has an element has a least one.
LEMMA LeastElement ==
    ASSUME NEW T \in SUBSET Nat, T # {}
    PROVE  \E x \in T : \A y \in T : x <= y
  <1> DEFINE R == OpToRel(<, Nat)
  <1>1. IsWellFoundedOn(R, Nat)
    BY NatLessThanWellFounded
  <1>2. \A x, y \in Nat : <<y, x>> \in R <=> y < x
    BY DEF OpToRel
  <1> HIDE DEF R
  <1>3. PICK x \in T : \A y \in T : ~(<<y, x>> \in R)
    BY <1>1, WFMin
  <1>4. \A y \in T : ~(y < x)
    BY <1>2, <1>3
  <1> QED BY <1>4

\* So has one that is bounded a greatest one.
LEMMA LastElement ==
    ASSUME NEW n \in Nat, NEW T \in SUBSET (1 .. n), T # {}
    PROVE  \E x \in T : \A y \in T : y <= x
  <1> DEFINE U == {b \in Nat : \A y \in T : y <= b}
  <1>1. n \in U
    OBVIOUS
  <1>2. PICK b \in U : \A c \in U : b <= c
    BY <1>1, LeastElement
  <1>3. b \in T
    <2> SUFFICES ASSUME b \notin T PROVE FALSE
      OBVIOUS
    <2>1. b \in Nat /\ \A y \in T : y \in Nat /\ y <= b /\ y # b /\ y >= 1
      BY <1>2
    <2>2. PICK y \in T : TRUE
      OBVIOUS
    <2>3. b - 1 \in Nat /\ \A z \in T : z <= b - 1
      BY <2>1, <2>2
    <2>4. b - 1 \in U
      BY <2>3
    <2> QED BY <1>2, <2>1, <2>4
  <1> QED BY <1>2, <1>3

DistinctIds == \A i, j \in DOMAIN lifecycle : lifecycle[i].id = lifecycle[j].id => i = j

\* What lifecycle and set agree on.
Agree ==
    /\ set.entries = Ids(lifecycle)
    /\ \A c \in DOMAIN set.index :
          \E i \in DOMAIN lifecycle :
              lifecycle[i].id = set.index[c] /\ c \in lifecycle[i].provides

PublishInv ==
    /\ owner = "manager" => Agree
    /\ owner # "manager" => set = EmptySet /\ call # "reload"
    /\ phase \in {"provision", "validate", "run"} => DistinctIds
    /\ (\E i \in DOMAIN lifecycle : Runs(i)) => DistinctIds

\* A plugin's id and what it provides.
SameIdentities ==
    /\ DOMAIN lifecycle' = DOMAIN lifecycle
    /\ \A i \in DOMAIN lifecycle :
          lifecycle'[i].id = lifecycle[i].id /\ lifecycle'[i].provides = lifecycle[i].provides

\* A capability that some module declares is in the index under the id of a
\* module that declares it, although several may.
LEMMA IndexNamesAProvider ==
    ASSUME NEW d \in Disks, NEW c \in DOMAIN CapabilityIndex(d)
    PROVE  \E i \in DOMAIN LoadedPlugins(d) :
              /\ LoadedPlugins(d)[i].id = CapabilityIndex(d)[c]
              /\ c \in LoadedPlugins(d)[i].provides
  <1> DEFINE fs == Files(d)
             n == Len(fs)
             provided(i) == ManifestOf(fs[i]).provides
             last == CHOOSE i \in 1 .. n : c \in provided(i) /\ \A j \in i + 1 .. n : c \notin provided(j)
  <1>1. n \in Nat
    BY DiskAssumption
  <1>2. \E i \in 1 .. n : c \in provided(i)
    BY DEF CapabilityIndex
  <1>3. CapabilityIndex(d)[c] = ManifestOf(fs[last]).name
    BY DEF CapabilityIndex
  <1>4. \E i \in 1 .. n : c \in provided(i) /\ \A j \in i + 1 .. n : c \notin provided(j)
    <2> DEFINE T == {i \in 1 .. n : c \in provided(i)}
    <2>1. T # {} /\ T \subseteq 1 .. n
      BY <1>2
    <2>2. PICK x \in T : \A y \in T : y <= x
      BY <1>1, <2>1, LastElement
    <2>3. x \in 1 .. n /\ c \in provided(x)
      BY <2>2
    <2>4. \A j \in x + 1 .. n : j \in 1 .. n /\ ~(j <= x)
      BY <1>1, <2>3
    <2>5. \A j \in x + 1 .. n : c \notin provided(j)
      BY <2>2, <2>4
    <2> QED BY <2>3, <2>5
  <1>5. last \in 1 .. n /\ c \in provided(last)
    BY <1>4
  <1>6. DOMAIN LoadedPlugins(d) = 1 .. n
    BY DEF LoadedPlugins
  <1>7. /\ LoadedPlugins(d)[last].id = ManifestOf(fs[last]).name
        /\ LoadedPlugins(d)[last].provides = provided(last)
    BY <1>5 DEF LoadedPlugins, Instance
  <1> QED BY <1>3, <1>5, <1>6, <1>7

\* What one discovery publishes and registers agree.
LEMMA DiscoveryAgrees ==
    ASSUME NEW d \in Disks, lifecycle' = LoadedPlugins(d), set' = PluginSetOf(d)
    PROVE  Agree'
  <1>1. set'.entries = Ids(lifecycle')
    BY DEF PluginSetOf
  <1>2. set'.index = CapabilityIndex(d)
    BY DEF PluginSetOf
  <1> QED BY <1>1, <1>2, IndexNamesAProvider DEF Agree, Ids

\* Fewer ids than plugins is the only way that two plugins share one.
LEMMA ChecksAreDistinct ==
    ASSUME lifecycle \in Seq(PluginInstance),
           ~(Cardinality({lifecycle[i].id : i \in DOMAIN lifecycle}) < Len(lifecycle))
    PROVE  DistinctIds
  <1> DEFINE S == DOMAIN lifecycle
             T == {lifecycle[i].id : i \in S}
             f == [i \in S |-> lifecycle[i].id]
  <1>1. S = 1 .. Len(lifecycle) /\ Len(lifecycle) \in Nat
    OBVIOUS
  <1>2. IsFiniteSet(S) /\ Cardinality(S) = Len(lifecycle)
    BY <1>1, FS_Interval, SMTT(30)
  <1>3. f \in Surjection(S, T)
    BY DEF Surjection
  <1>4. /\ IsFiniteSet(T) /\ Cardinality(T) <= Cardinality(S)
        /\ Cardinality(T) = Cardinality(S) <=> f \in Injection(S, T)
    BY <1>2, <1>3, FS_Surjection
  <1>5. Cardinality(T) \in Nat
    BY <1>4, FS_CardinalityType
  <1>6. Cardinality(T) = Cardinality(S)
    BY <1>1, <1>2, <1>4, <1>5
  <1>7. \A i, j \in S : f[i] = f[j] => i = j
    BY <1>4, <1>6 DEF Injection, IsInjective
  <1> QED BY <1>7 DEF DistinctIds

\* A step that replaces no plugin.
LEMMA IdentitiesKeep ==
    ASSUME PublishInv, SameIdentities, UNCHANGED <<owner, set>>,
           call' = "reload" => call = "reload" \/ owner = "manager",
           phase' \in {"provision", "validate", "run"} => DistinctIds,
           \A i \in DOMAIN lifecycle : lifecycle'[i].running => Runs(i) \/ DistinctIds
    PROVE  PublishInv'
  <1>1. DistinctIds' = DistinctIds
    BY DEF SameIdentities, DistinctIds
  <1>2. Ids(lifecycle') = Ids(lifecycle)
    BY DEF SameIdentities, Ids
  <1>3. Agree => Agree'
    BY <1>2 DEF SameIdentities, Agree
  <1> QED BY <1>1, <1>3 DEF PublishInv, SameIdentities, Runs

LEMMA PublishInit == Init => PublishInv
  <1> SUFFICES ASSUME Init PROVE PublishInv
    OBVIOUS
  <1>1. /\ lifecycle = <<>> /\ owner = "nobody" /\ set = EmptySet /\ phase = "idle"
        /\ call = "none"
    BY DEF Init
  <1> QED BY <1>1 DEF PublishInv, DistinctIds

LEMMA PublishStep == LifeInv /\ PublishInv /\ [Next]_vars => PublishInv'
  <1> SUFFICES ASSUME LifeInv, PublishInv, [Next]_vars PROVE PublishInv'
    OBVIOUS
  <1> USE DEF LifeInv
  <1>1. ASSUME lifecycle' = LoadedPlugins(disk), set' = PluginSetOf(disk), owner' = "manager",
               phase' \in {"idle", "check"}
        PROVE  PublishInv'
    <2>1. Agree'
      BY <1>1, DiscoveryAgrees DEF ShapeInv
    <2>2. \A i \in DOMAIN lifecycle' : ~lifecycle'[i].running
      BY <1>1, LoadedAreDown DEF ShapeInv
    <2> QED BY <1>1, <2>1, <2>2 DEF PublishInv, Runs
  <1>2. ASSUME lifecycle' = lifecycle, UNCHANGED <<owner, set>>,
               call' = "reload" => call = "reload" \/ owner = "manager",
               phase' \in {"provision", "validate", "run"} => DistinctIds
        PROVE  PublishInv'
    BY <1>2, IdentitiesKeep DEF SameIdentities, Runs
  <1>3. CASE New
    <2>1. CASE DiscoveryErrors(disk) = {}
      BY <1>1, <1>3, <2>1 DEF New
    <2>2. CASE DiscoveryErrors(disk) # {}
      BY <1>2, <1>3, <2>2 DEF New
    <2> QED BY <2>1, <2>2
  <1>4. CASE RegisterNatives
    <2>1. /\ lifecycle' = [i \in 1 .. Len(Natives) |-> Instance("native", Natives[i], {})]
          /\ owner' = "host" /\ owner = "nobody" /\ phase' = "idle" /\ UNCHANGED <<set, call>>
      BY <1>4 DEF RegisterNatives
    <2>2. \A i \in DOMAIN lifecycle' : ~lifecycle'[i].running
      BY <2>1, NativesAreDown
    <2> QED BY <2>1, <2>2 DEF PublishInv, Runs
  <1>5. CASE Edit \/ Start \/ Shutdown \/ Reload
    BY <1>2, <1>5 DEF Edit, Start, Shutdown, Reload
  <1>6. CASE CheckIds
    <2>1. CASE Cardinality({lifecycle[i].id : i \in DOMAIN lifecycle}) < Len(lifecycle)
      BY <1>2, <1>6, <2>1 DEF CheckIds, Fail
    <2>2. CASE ~(Cardinality({lifecycle[i].id : i \in DOMAIN lifecycle}) < Len(lifecycle))
      BY <1>2, <1>6, <2>2, ChecksAreDistinct DEF CheckIds, ShapeInv
    <2> QED BY <2>1, <2>2
  <1>7. CASE ProvisionOne
    <2>1. phase = "provision" /\ DistinctIds /\ UNCHANGED <<owner, set, call>>
      BY <1>7 DEF ProvisionOne, PublishInv, Fail
    <2>2. SameIdentities
      BY <1>7, Positions DEF ProvisionOne, SameIdentities, ShapeInv, PluginInstance
    <2> QED BY <2>1, <2>2, IdentitiesKeep
  <1>8. CASE ValidateOne
    BY <1>2, <1>8 DEF ValidateOne, PublishInv, Fail
  <1>9. CASE RunOne
    <2>1. phase = "run" /\ DistinctIds /\ UNCHANGED <<owner, set, call>>
      BY <1>9 DEF RunOne, PublishInv, Fail
    <2>2. SameIdentities
      BY <1>9, Positions, SMTT(30) DEF RunOne, SameIdentities, ShapeInv, PluginInstance
    <2> QED BY <2>1, <2>2, IdentitiesKeep
  <1>10. CASE PhaseDone
    BY <1>2, <1>10 DEF PhaseDone, PublishInv, Return
  <1>11. CASE CleanupOne
    <2>1. phase' = "cleanup" /\ UNCHANGED <<owner, set, call>>
      BY <1>11 DEF CleanupOne
    <2>2. SameIdentities /\ \A i \in DOMAIN lifecycle : lifecycle'[i].running => Runs(i)
      BY <1>11, Positions DEF CleanupOne, SameIdentities, ShapeInv, PluginInstance, Runs
    <2> QED BY <2>1, <2>2, IdentitiesKeep
  <1>12. CASE CleanedUp
    BY <1>2, <1>12 DEF CleanedUp, Return
  <1>13. CASE Rebuild
    <2>1. CASE DiscoveryErrors(disk) # {}
      BY <1>2, <1>13, <2>1 DEF Rebuild, Return
    <2>2. CASE DiscoveryErrors(disk) = {}
      <3>1. owner = "manager"
        BY <1>13 DEF Rebuild, PublishInv
      <3> QED BY <1>1, <1>13, <2>2, <3>1 DEF Rebuild
    <2> QED BY <2>1, <2>2
  <1>14. CASE UNCHANGED vars
    BY <1>2, <1>14 DEF vars, PublishInv
  <1> QED BY <1>3, <1>4, <1>5, <1>6, <1>7, <1>8, <1>9, <1>10, <1>11, <1>12, <1>13, <1>14 DEF Next, Step

(* The set the pipeline reads names, position by position, the plugins that  *)
(* the lifecycle drives, also after a reload or a start that failed; a       *)
(* capability is routed to one of them that declares it; and plugins that    *)
(* run have different ids (PluginManager::reload, provider_for, health).     *)
THEOREM PublishedSetIsTrue == Spec => []PublishedIsDriven
  <1>1. LifeInv /\ PublishInv => PublishedIsDriven
    <2> SUFFICES ASSUME LifeInv, PublishInv PROVE PublishedIsDriven
      OBVIOUS
    <2>1. owner = "manager" => Ids(Health) = Ids(lifecycle)
      BY DEF PublishInv, Agree, Health, Ids
    <2>2. ASSUME NEW c \in DOMAIN set.index
          PROVE  \E i \in DOMAIN lifecycle :
                    set.entries[i] = set.index[c] /\ c \in lifecycle[i].provides
      <3>1. Agree
        BY <2>2 DEF PublishInv, EmptySet
      <3> QED BY <2>2, <3>1 DEF Agree, Ids
    <2>3. \A i, j \in DOMAIN lifecycle :
             lifecycle[i].running /\ lifecycle[i].id = lifecycle[j].id => i = j
      BY DEF PublishInv, DistinctIds, Runs
    <2> QED BY <2>1, <2>2, <2>3 DEF PublishedIsDriven
  <1> QED BY <1>1, LifeInit, LifeStep, PublishInit, PublishStep, PTL DEF Spec
=============================================================================
