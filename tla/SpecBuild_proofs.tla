-------------------------- MODULE SpecBuild_proofs --------------------------
(***************************************************************************)
(* Proofs about the build loop, for every list of forks and of targets,    *)
(* every relation of a fork to the one before, and any number of edits,    *)
(* failed runs and killed runs.  The inductive invariant says which files  *)
(* a running process has written, what its caches hold, and, as long as    *)
(* nobody edits a source, that both agree with the sources.                *)
(***************************************************************************)
EXTENDS SpecBuild, TLAPS

Running == pc \notin {"off", "finished"}

(* What a process has in memory before it starts and between its steps. *)
MemoryInv ==
  /\ ~Running => at = 1 /\ tgt = 1 /\ cache = EmptyCaches
  /\ pc = "package" => tgt = Len(TargetOrder)
  /\ pc = "write" => unread = {}
  /\ \A kind \in Kinds, t \in Targets : input[kind][t] # 0
  /\ held.state = "whole"

(* A running process has written the files at the places before its own. *)
DoneInv ==
  Running =>
    \A i \in 1..Len(ForkOrder), j \in 1..Len(TargetOrder) :
      <<ForkOrder[i], TargetOrder[j]>> \in done <=>
        i < at \/ (i = at /\ (j < tgt \/ pc = "package"))

(* Every file written by a running process holds the cached versions, and so do the
   contents it is making, once they are loaded. *)
ConfigurationInv ==
  /\ Running => \A f \in Forks, t \in Targets : <<f, t>> \in done =>
       /\ cache["preset"][t] # 0 /\ file[f][t].preset = cache["preset"][t]
       /\ cache["config"][t] # 0 /\ file[f][t].config = cache["config"][t]
  /\ pc \in {"load_config", "read", "write"} =>
       cache["preset"][ThisTarget] # 0 /\ held.preset = cache["preset"][ThisTarget]
  /\ pc \in {"read", "write"} =>
       cache["config"][ThisTarget] # 0 /\ held.config = cache["config"][ThisTarget]

EmptyInv ==
  crashes = 0 => \A f \in Forks, t \in Targets :
    file[f][t].state = "empty" => pc = "write" /\ f = ThisFork /\ t = ThisTarget

(* In a run without an edit, caches, contents and files agree with the sources. *)
QuietInv ==
  quiet =>
    /\ pc # "off"
    /\ \A kind \in Kinds, t \in Targets : cache[kind][t] \in {0, input[kind][t]}
    /\ pc \in {"read", "write"} =>
         \A g \in Lineage(ThisFork) \ unread : held.docs[g] = docs[g]
    /\ \A f \in Forks, t \in Targets : <<f, t>> \in done => Current(f, t)

PackageInv ==
  /\ Running => \A i \in 1..Len(ForkOrder) : i < at => ForkOrder[i] \in package
  /\ pc = "finished" => package = Forks /\ \A f \in Forks, t \in Targets : <<f, t>> \in done

----------------------------------------------------------------------------
LEMMA PlacesExist ==
  /\ 1 \in 1..Len(ForkOrder) /\ 1 \in 1..Len(TargetOrder)
  /\ Len(ForkOrder) \in Nat /\ Len(TargetOrder) \in Nat
  /\ \A i \in 1..Len(ForkOrder) : ForkOrder[i] \in Forks
  /\ \A j \in 1..Len(TargetOrder) : TargetOrder[j] \in Targets
  /\ \A f \in Forks : \E i \in 1..Len(ForkOrder) : f = ForkOrder[i]
  /\ \A t \in Targets : \E j \in 1..Len(TargetOrder) : t = TargetOrder[j]
<1>1. DOMAIN ForkOrder = 1..Len(ForkOrder) /\ DOMAIN TargetOrder = 1..Len(TargetOrder)
  BY OrdersAssumption
<1>2. Len(ForkOrder) \in Nat /\ Len(TargetOrder) \in Nat
  BY OrdersAssumption
<1>. QED  BY <1>1, <1>2, OrdersAssumption DEF Forks, Targets

LEMMA BlankType ==
  /\ Blank("absent") \in Contents /\ Blank("empty") \in Contents /\ Blank("whole") \in Contents
  /\ EmptyCaches \in [Kinds -> [Targets -> Nat]]
BY DEF Blank, Contents, EmptyCaches

LEMMA TypeInit == Init => TypeOK
<1>. SUFFICES ASSUME Init PROVE TypeOK
  OBVIOUS
<1>1. docs \in [Forks -> Nat] /\ bad \subseteq Forks /\ input \in [Kinds -> [Targets -> Nat]]
  BY DEF Init
<1>2. file \in [Forks -> [Targets -> Contents]] /\ package \subseteq Forks
  BY BlankType DEF Init
<1>3. at \in 1..Len(ForkOrder) /\ tgt \in 1..Len(TargetOrder)
  BY PlacesExist DEF Init
<1>4. cache \in [Kinds -> [Targets -> Nat]] /\ held \in Contents /\ unread \subseteq Forks
  BY BlankType DEF Init
<1>. QED  BY <1>1, <1>2, <1>3, <1>4 DEF Init, TypeOK

LEMMA TypeStep == TypeOK /\ [Next]_vars => TypeOK'
<1>. SUFFICES ASSUME TypeOK, [Next]_vars PROVE TypeOK'
  OBVIOUS
<1>1. ThisFork \in Forks /\ ThisTarget \in Targets
  BY PlacesExist DEF TypeOK, ThisFork, ThisTarget, ForkAt
<1>2. ASSUME NEW kind \in Kinds, NEW next, Load(kind, next)
      PROVE  cache' \in [Kinds -> [Targets -> Nat]] /\ held' \in Contents
  <2>1. Loaded(kind, ThisTarget) \in Nat
    BY <1>1 DEF Loaded, TypeOK, CacheKey
  <2>2. cache' \in [Kinds -> [Targets -> Nat]]
    BY <1>2, <2>1 DEF Load, TypeOK, CacheKey
  <2>3. held' \in Contents
    BY <1>2, <2>1 DEF Load, TypeOK, Contents, Kinds
  <2>. QED  BY <2>2, <2>3
<1>3. ASSUME NEW how \in {"off", "finished"}, EndProcess(how)
      PROVE  /\ at' \in 1..Len(ForkOrder) /\ tgt' \in 1..Len(TargetOrder)
             /\ cache' \in [Kinds -> [Targets -> Nat]] /\ held' \in Contents
             /\ unread' \subseteq Forks /\ pc' = how
  <2>1. at' \in 1..Len(ForkOrder) /\ tgt' \in 1..Len(TargetOrder)
    BY <1>3, PlacesExist DEF EndProcess
  <2>. QED  BY <1>3, <2>1, BlankType DEF EndProcess
<1>4. CASE StartRun
  BY <1>4 DEF StartRun, TypeOK, sources, outputs
<1>5. CASE LoadPreset
  <2>1. cache' \in [Kinds -> [Targets -> Nat]] /\ held' \in Contents
    BY <1>2, <1>5 DEF LoadPreset, Kinds
  <2>. QED  BY <1>5, <2>1 DEF LoadPreset, Load, TypeOK, sources, outputs
<1>6. CASE LoadConfig
  <2>1. cache' \in [Kinds -> [Targets -> Nat]] /\ held' \in Contents
    BY <1>2, <1>6 DEF LoadConfig, Kinds
  <2>2. Lineage(ThisFork) \subseteq Forks
    BY DEF Lineage
  <2>. QED  BY <1>6, <2>1, <2>2 DEF LoadConfig, Load, TypeOK, sources, outputs
<1>7. ASSUME NEW f \in Forks, ReadDocuments(f) PROVE TypeOK'
  <2>1. CASE f \in bad
    <3>1. EndProcess("off")
      BY <1>7, <2>1 DEF ReadDocuments
    <3>. QED  BY <1>7, <2>1, <3>1, <1>3 DEF ReadDocuments, TypeOK, sources, outputs
  <2>2. CASE f \notin bad
    <3>1. held' \in Contents
      <4>1. [held.docs EXCEPT ![f] = docs[f]] \in [Forks -> Nat]
        BY DEF TypeOK, Contents
      <4>2. held' = [held EXCEPT !.docs = [held.docs EXCEPT ![f] = docs[f]]]
        BY <1>7, <2>2 DEF ReadDocuments
      <4>. QED  BY <4>1, <4>2 DEF TypeOK, Contents
    <3>. QED  BY <1>7, <2>2, <3>1 DEF ReadDocuments, TypeOK, sources, outputs
  <2>. QED  BY <2>1, <2>2
<1>8. CASE OpenFile
  BY <1>8, <1>1, BlankType DEF OpenFile, TypeOK, sources, outputs
<1>9. CASE WriteFile
  <2>1. file' \in [Forks -> [Targets -> Contents]] /\ done' \subseteq Forks \X Targets
    BY <1>9, <1>1 DEF WriteFile, TypeOK
  <2>2. tgt' \in 1..Len(TargetOrder) /\ pc' \in {"load_preset", "package"}
    BY <1>9, PlacesExist DEF WriteFile, TypeOK
  <2>3. held' \in Contents
    BY <1>9, BlankType DEF WriteFile
  <2>. QED  BY <1>9, <2>1, <2>2, <2>3 DEF WriteFile, TypeOK, sources
<1>10. CASE WritePackage
  <2>1. package' \subseteq Forks
    BY <1>10, <1>1 DEF WritePackage, TypeOK
  <2>2. CASE at < Len(ForkOrder)
    <3>1. at' \in 1..Len(ForkOrder) /\ tgt' \in 1..Len(TargetOrder)
      BY <1>10, <2>2, PlacesExist DEF WritePackage, TypeOK
    <3>. QED  BY <1>10, <2>1, <2>2, <3>1 DEF WritePackage, TypeOK, sources
  <2>3. CASE ~(at < Len(ForkOrder))
    <3>1. EndProcess("finished")
      BY <1>10, <2>3 DEF WritePackage
    <3>. QED  BY <1>10, <2>1, <3>1, <1>3 DEF WritePackage, TypeOK, sources
  <2>. QED  BY <2>2, <2>3
<1>11. CASE Crash
  <2>1. EndProcess("off")
    BY <1>11 DEF Crash
  <2>2. /\ at' \in 1..Len(ForkOrder) /\ tgt' \in 1..Len(TargetOrder)
        /\ cache' \in [Kinds -> [Targets -> Nat]] /\ held' \in Contents
        /\ unread' \subseteq Forks /\ pc' = "off"
    BY <2>1, <1>3
  <2>3. quiet' \in BOOLEAN /\ crashes' \in Nat /\ done' \subseteq Forks \X Targets
    <3>1. quiet' = FALSE /\ crashes' = crashes + 1 /\ done' = done
      BY <1>11 DEF Crash
    <3>2. crashes \in Nat /\ done \subseteq Forks \X Targets
      BY DEF TypeOK
    <3>3. quiet' \in BOOLEAN
      BY <3>1
    <3>4. crashes' \in Nat
      BY <3>1, <3>2
    <3>. QED  BY <3>1, <3>2, <3>3, <3>4
  <2>4. UNCHANGED <<docs, bad, input, edits, file, package>>
    BY <1>11 DEF Crash, sources, outputs
  <2>. QED  BY <2>2, <2>3, <2>4 DEF TypeOK
<1>12. ASSUME NEW f \in Forks, EditDocuments(f) PROVE TypeOK'
  <2>1. docs' \in [Forks -> Nat] /\ bad' \subseteq Forks /\ edits' \in Nat
    BY <1>12 DEF EditDocuments, TypeOK
  <2>. QED  BY <1>12, <2>1 DEF EditDocuments, TypeOK, outputs
<1>13. ASSUME NEW kind \in Kinds, NEW t \in Targets, EditInput(kind, t) PROVE TypeOK'
  <2>1. input' \in [Kinds -> [Targets -> Nat]] /\ edits' \in Nat
    BY <1>13 DEF EditInput, TypeOK
  <2>. QED  BY <1>13, <2>1 DEF EditInput, TypeOK, outputs
<1>14. CASE UNCHANGED vars
  BY <1>14 DEF vars, TypeOK
<1>. QED  BY <1>4, <1>5, <1>6, <1>7, <1>8, <1>9, <1>10, <1>11, <1>12, <1>13, <1>14
          DEF Next, Build

(* Type correctness of the build, for every list of forks and targets. *)
THEOREM TypeCorrect == Spec => []TypeOK
BY TypeInit, TypeStep, PTL DEF Spec
----------------------------------------------------------------------------
LEMMA HereIsAPlace ==
  ASSUME TypeOK
  PROVE  /\ ThisFork \in Forks /\ ThisTarget \in Targets
         /\ ThisFork = ForkOrder[at] /\ ThisTarget = TargetOrder[tgt]
         /\ at \in 1..Len(ForkOrder) /\ tgt \in 1..Len(TargetOrder)
         /\ at \in Nat /\ tgt \in Nat
BY PlacesExist DEF TypeOK, ThisFork, ThisTarget, ForkAt

LEMMA LoadedIsNotZero ==
  ASSUME TypeOK, MemoryInv, NEW kind \in Kinds
  PROVE  /\ Loaded(kind, ThisTarget) \in Nat \ {0}
         /\ cache[kind][ThisTarget] # 0 => Loaded(kind, ThisTarget) = cache[kind][ThisTarget]
         /\ cache[kind][ThisTarget] \in {0, input[kind][ThisTarget]} =>
              Loaded(kind, ThisTarget) = input[kind][ThisTarget]
BY HereIsAPlace DEF TypeOK, MemoryInv, Loaded, CacheKey

LEMMA LoadStep ==
  ASSUME TypeOK, NEW kind \in Kinds, NEW next, Load(kind, next)
  PROVE  /\ cache'[kind][ThisTarget] = Loaded(kind, ThisTarget)
         /\ \A k \in Kinds, t \in Targets :
              k # kind \/ t # ThisTarget => cache'[k][t] = cache[k][t]
         /\ held'.state = held.state /\ held'.docs = held.docs
         /\ kind = "preset" => held'.preset = Loaded(kind, ThisTarget) /\ held'.config = held.config
         /\ kind = "config" => held'.config = Loaded(kind, ThisTarget) /\ held'.preset = held.preset
         /\ pc' = next
<1>1. ThisTarget \in Targets
  BY HereIsAPlace
<1>2. cache' = [cache EXCEPT ![kind][ThisTarget] = Loaded(kind, ThisTarget)]
  BY DEF Load, CacheKey
<1>3. held' = [held EXCEPT ![kind] = Loaded(kind, ThisTarget)] /\ pc' = next
  BY DEF Load
<1>4. cache'[kind][ThisTarget] = Loaded(kind, ThisTarget)
      /\ \A k \in Kinds, t \in Targets :
           k # kind \/ t # ThisTarget => cache'[k][t] = cache[k][t]
  BY <1>1, <1>2 DEF TypeOK
<1>5. held \in Contents
  BY DEF TypeOK
<1>. QED  BY <1>3, <1>4, <1>5 DEF Contents, Kinds

LEMMA MemoryStep == TypeOK /\ MemoryInv /\ [Next]_vars => MemoryInv'
<1>. SUFFICES ASSUME TypeOK, MemoryInv, [Next]_vars PROVE MemoryInv'
  OBVIOUS
<1>1. ASSUME NEW how, EndProcess(how), UNCHANGED input, how \in {"off", "finished"} PROVE MemoryInv'
  <2>1. Blank("whole").state = "whole"
    BY DEF Blank
  <2>. QED  BY <1>1, <2>1 DEF EndProcess, MemoryInv, Running, EmptyCaches
<1>2. CASE StartRun
  BY <1>2 DEF StartRun, MemoryInv, Running, sources, outputs
<1>3. CASE LoadPreset
  <2>1. held'.state = held.state /\ pc' = "load_config"
    BY <1>3, LoadStep DEF LoadPreset, Kinds
  <2>. QED  BY <1>3, <2>1 DEF LoadPreset, MemoryInv, Running, sources
<1>4. CASE LoadConfig
  <2>1. held'.state = held.state /\ pc' = "read"
    BY <1>4, LoadStep DEF LoadConfig, Kinds
  <2>. QED  BY <1>4, <2>1 DEF LoadConfig, MemoryInv, Running, sources
<1>5. ASSUME NEW f \in Forks, ReadDocuments(f) PROVE MemoryInv'
  <2>1. CASE f \in bad
    BY <1>5, <1>1, <2>1 DEF ReadDocuments, sources
  <2>2. CASE f \notin bad
    <3>1. held'.state = held.state
      BY <1>5, <2>2 DEF ReadDocuments, TypeOK, Contents
    <3>. QED  BY <1>5, <2>2, <3>1 DEF ReadDocuments, MemoryInv, Running, sources
  <2>. QED  BY <2>1, <2>2
<1>6. CASE OpenFile
  BY <1>6 DEF OpenFile, MemoryInv, Running, sources
<1>7. CASE WriteFile
  <2>1. Blank("whole").state = "whole"
    BY DEF Blank
  <2>. QED  BY <1>7, <2>1, PlacesExist DEF WriteFile, MemoryInv, Running, sources, TypeOK
<1>8. CASE WritePackage
  <2>1. CASE at < Len(ForkOrder)
    BY <1>8, <2>1 DEF WritePackage, MemoryInv, Running, sources
  <2>2. CASE ~(at < Len(ForkOrder))
    BY <1>8, <1>1, <2>2 DEF WritePackage, sources
  <2>. QED  BY <2>1, <2>2
<1>9. CASE Crash
  BY <1>9, <1>1 DEF Crash, sources
<1>10. ASSUME NEW f \in Forks, EditDocuments(f) PROVE MemoryInv'
  BY <1>10 DEF EditDocuments, MemoryInv, Running, outputs
<1>11. ASSUME NEW kind \in Kinds, NEW t \in Targets, EditInput(kind, t) PROVE MemoryInv'
  <2>1. \A k \in Kinds, u \in Targets : input'[k][u] \in {input[k][u], input[k][u] + 1}
    BY <1>11 DEF EditInput, TypeOK
  <2>2. \A k \in Kinds, u \in Targets : input[k][u] \in Nat /\ input[k][u] # 0
    BY DEF TypeOK, MemoryInv
  <2>3. \A k \in Kinds, u \in Targets : input'[k][u] # 0
    BY <2>1, <2>2
  <2>. QED  BY <1>11, <2>3 DEF EditInput, MemoryInv, Running, outputs
<1>12. CASE UNCHANGED vars
  BY <1>12 DEF vars, MemoryInv, Running
<1>. QED  BY <1>2, <1>3, <1>4, <1>5, <1>6, <1>7, <1>8, <1>9, <1>10, <1>11, <1>12 DEF Next, Build

LEMMA DoneStep == TypeOK /\ MemoryInv /\ DoneInv /\ [Next]_vars => DoneInv'
<1>. SUFFICES ASSUME TypeOK, MemoryInv, DoneInv, [Next]_vars PROVE DoneInv'
  OBVIOUS
<1>1. CASE StartRun
  BY <1>1, PlacesExist DEF StartRun, DoneInv, MemoryInv, Running
<1>2. ASSUME UNCHANGED <<at, tgt, done>>, Running /\ pc # "package", pc' # "package" PROVE DoneInv'
  BY <1>2 DEF DoneInv, Running
<1>3. ASSUME NEW how, EndProcess(how), how \in {"off", "finished"} PROVE DoneInv'
  BY <1>3 DEF EndProcess, DoneInv, Running
<1>4. CASE LoadPreset
  BY <1>4, <1>2 DEF LoadPreset, Load, Running
<1>5. CASE LoadConfig
  BY <1>5, <1>2 DEF LoadConfig, Load, Running
<1>6. ASSUME NEW f \in Forks, ReadDocuments(f) PROVE DoneInv'
  <2>1. CASE f \in bad
    BY <1>6, <1>3, <2>1 DEF ReadDocuments
  <2>2. CASE f \notin bad
    BY <1>6, <1>2, <2>2 DEF ReadDocuments, Running
  <2>. QED  BY <2>1, <2>2
<1>7. CASE OpenFile
  BY <1>7, <1>2 DEF OpenFile, Running
<1>8. CASE WriteFile
  <2>. SUFFICES ASSUME NEW i \in 1..Len(ForkOrder), NEW j \in 1..Len(TargetOrder)
                PROVE  <<ForkOrder[i], TargetOrder[j]>> \in done' <=>
                         i < at' \/ (i = at' /\ (j < tgt' \/ pc' = "package"))
    BY DEF DoneInv
  <2>1. <<ForkOrder[i], TargetOrder[j]>> \in done <=> i < at \/ (i = at /\ j < tgt)
    BY <1>8 DEF WriteFile, DoneInv, Running
  <2>2. <<ForkOrder[i], TargetOrder[j]>> = <<ThisFork, ThisTarget>> <=> i = at /\ j = tgt
    BY HereIsAPlace, OrdersAssumption
  <2>3. <<ForkOrder[i], TargetOrder[j]>> \in done' <=> i < at \/ (i = at /\ j <= tgt)
    <3>1. <<ForkOrder[i], TargetOrder[j]>> \in done' <=>
            <<ForkOrder[i], TargetOrder[j]>> \in done \/ (i = at /\ j = tgt)
      BY <1>8, <2>2 DEF WriteFile
    <3>2. j <= tgt <=> j < tgt \/ j = tgt
      BY HereIsAPlace
    <3>. QED  BY <2>1, <3>1, <3>2
  <2>4. at' = at
    BY <1>8 DEF WriteFile
  <2>5. CASE tgt < Len(TargetOrder)
    <3>1. tgt' = tgt + 1 /\ pc' = "load_preset"
      BY <1>8, <2>5 DEF WriteFile
    <3>2. j <= tgt <=> j < tgt + 1
      BY HereIsAPlace
    <3>. QED  BY <2>3, <2>4, <3>1, <3>2
  <2>6. CASE ~(tgt < Len(TargetOrder))
    <3>1. pc' = "package"
      BY <1>8, <2>6 DEF WriteFile
    <3>2. j <= tgt
      BY <2>6, HereIsAPlace, PlacesExist
    <3>. QED  BY <2>3, <2>4, <3>1, <3>2
  <2>. QED  BY <2>5, <2>6
<1>9. CASE WritePackage
  <2>1. CASE at < Len(ForkOrder)
    <3>1. at' = at + 1 /\ tgt' = 1 /\ pc' = "load_preset" /\ done' = done
      BY <1>9, <2>1 DEF WritePackage
    <3>2. \A i \in 1..Len(ForkOrder), j \in 1..Len(TargetOrder) :
            <<ForkOrder[i], TargetOrder[j]>> \in done <=> i < at \/ i = at
      BY <1>9 DEF WritePackage, DoneInv, Running
    <3>3. \A i \in 1..Len(ForkOrder), j \in 1..Len(TargetOrder) :
            (i < at + 1 <=> i < at \/ i = at) /\ ~(j < 1)
      BY HereIsAPlace
    <3>. QED  BY <3>1, <3>2, <3>3 DEF DoneInv
  <2>2. CASE ~(at < Len(ForkOrder))
    BY <1>9, <1>3, <2>2 DEF WritePackage
  <2>. QED  BY <2>1, <2>2
<1>10. CASE Crash
  BY <1>10, <1>3 DEF Crash
<1>11. ASSUME NEW f \in Forks, EditDocuments(f) PROVE DoneInv'
  BY <1>11 DEF EditDocuments, DoneInv, Running
<1>12. ASSUME NEW kind \in Kinds, NEW t \in Targets, EditInput(kind, t) PROVE DoneInv'
  BY <1>12 DEF EditInput, DoneInv, Running
<1>13. CASE UNCHANGED vars
  BY <1>13 DEF vars, DoneInv, Running
<1>. QED  BY <1>1, <1>4, <1>5, <1>6, <1>7, <1>8, <1>9, <1>10, <1>11, <1>12, <1>13 DEF Next, Build

(* A file that is being written was not written before in this run. *)
LEMMA HereIsNotDone ==
  ASSUME TypeOK, DoneInv, pc \in {"load_preset", "load_config", "read", "write"}
  PROVE  <<ThisFork, ThisTarget>> \notin done
<1>1. <<ForkOrder[at], TargetOrder[tgt]>> \in done <=>
        at < at \/ (at = at /\ (tgt < tgt \/ pc = "package"))
  BY HereIsAPlace DEF DoneInv, Running
<1>2. ~(at < at) /\ ~(tgt < tgt) /\ pc # "package"
  BY HereIsAPlace
<1>. QED  BY <1>1, <1>2, HereIsAPlace
(* What a write does to the files, and what it leaves. *)
LEMMA WrittenFile ==
  ASSUME TypeOK, NEW c, file' = [file EXCEPT ![ThisFork][ThisTarget] = c]
  PROVE  /\ file'[ThisFork][ThisTarget] = c
         /\ \A f \in Forks, t \in Targets :
              f # ThisFork \/ t # ThisTarget => file'[f][t] = file[f][t]
BY HereIsAPlace DEF TypeOK

LEMMA ConfigurationStep ==
  TypeOK /\ MemoryInv /\ DoneInv /\ ConfigurationInv /\ [Next]_vars => ConfigurationInv'
<1>. SUFFICES ASSUME TypeOK, MemoryInv, DoneInv, ConfigurationInv, [Next]_vars
              PROVE  ConfigurationInv'
  OBVIOUS
<1>. USE DEF ThisTarget
<1>1. CASE StartRun
  BY <1>1 DEF StartRun, ConfigurationInv, Running
<1>2. ASSUME NEW how, EndProcess(how), how \in {"off", "finished"} PROVE ConfigurationInv'
  BY <1>2 DEF EndProcess, ConfigurationInv, Running
<1>3. CASE LoadPreset
  <2>1. UNCHANGED <<file, done, tgt>> /\ Running /\ pc' = "load_config"
    BY <1>3 DEF LoadPreset, Load, Running, outputs
  <2>2. \A f \in Forks, t \in Targets : <<f, t>> \in done =>
          cache'["preset"][t] = cache["preset"][t] /\ cache'["config"][t] = cache["config"][t]
    <3>. SUFFICES ASSUME NEW f \in Forks, NEW t \in Targets, <<f, t>> \in done
                  PROVE  cache'["preset"][t] = cache["preset"][t] /\ cache'["config"][t] = cache["config"][t]
      OBVIOUS
    <3>1. cache'["config"][t] = cache["config"][t]
      BY <1>3, LoadStep DEF LoadPreset, Kinds
    <3>2. CASE t # TargetOrder[tgt]
      BY <1>3, <3>1, <3>2, LoadStep DEF LoadPreset, Kinds
    <3>3. CASE t = TargetOrder[tgt]
      <4>1. cache["preset"][t] # 0
        BY <2>1 DEF ConfigurationInv
      <4>. QED  BY <1>3, <3>1, <3>3, <4>1, LoadStep, LoadedIsNotZero DEF LoadPreset, Kinds
    <3>. QED  BY <3>2, <3>3
  <2>3. cache'["preset"][TargetOrder[tgt]] # 0 /\ held'.preset = cache'["preset"][TargetOrder[tgt]]
    BY <1>3, LoadStep, LoadedIsNotZero DEF LoadPreset, Kinds
  <2>. QED  BY <2>1, <2>2, <2>3 DEF ConfigurationInv, Running
<1>4. CASE LoadConfig
  <2>1. UNCHANGED <<file, done, tgt>> /\ Running /\ pc = "load_config" /\ pc' = "read"
    BY <1>4 DEF LoadConfig, Load, Running, outputs
  <2>2. \A f \in Forks, t \in Targets : <<f, t>> \in done =>
          cache'["preset"][t] = cache["preset"][t] /\ cache'["config"][t] = cache["config"][t]
    <3>. SUFFICES ASSUME NEW f \in Forks, NEW t \in Targets, <<f, t>> \in done
                  PROVE  cache'["preset"][t] = cache["preset"][t] /\ cache'["config"][t] = cache["config"][t]
      OBVIOUS
    <3>1. cache'["preset"][t] = cache["preset"][t]
      BY <1>4, LoadStep DEF LoadConfig, Kinds
    <3>2. CASE t # TargetOrder[tgt]
      BY <1>4, <3>1, <3>2, LoadStep DEF LoadConfig, Kinds
    <3>3. CASE t = TargetOrder[tgt]
      <4>1. cache["config"][t] # 0
        BY <2>1 DEF ConfigurationInv
      <4>. QED  BY <1>4, <3>1, <3>3, <4>1, LoadStep, LoadedIsNotZero DEF LoadConfig, Kinds
    <3>. QED  BY <3>2, <3>3
  <2>3. cache'["config"][TargetOrder[tgt]] # 0 /\ held'.config = cache'["config"][TargetOrder[tgt]]
    BY <1>4, LoadStep, LoadedIsNotZero DEF LoadConfig, Kinds
  <2>4. cache'["preset"][TargetOrder[tgt]] # 0 /\ held'.preset = cache'["preset"][TargetOrder[tgt]]
    <3>1. cache["preset"][TargetOrder[tgt]] # 0 /\ held.preset = cache["preset"][TargetOrder[tgt]]
      BY <2>1 DEF ConfigurationInv
    <3>. QED  BY <1>4, <3>1, LoadStep, HereIsAPlace DEF LoadConfig, Kinds
  <2>. QED  BY <2>1, <2>2, <2>3, <2>4 DEF ConfigurationInv, Running
<1>5. ASSUME NEW f \in Forks, ReadDocuments(f) PROVE ConfigurationInv'
  <2>1. CASE f \in bad
    BY <1>2, <1>5, <2>1 DEF ReadDocuments
  <2>2. CASE f \notin bad
    <3>1. held'.preset = held.preset /\ held'.config = held.config
      BY <1>5, <2>2 DEF ReadDocuments, TypeOK, Contents
    <3>2. UNCHANGED <<file, done, tgt, cache, pc>>
      BY <1>5, <2>2 DEF ReadDocuments, outputs
    <3>. QED  BY <3>1, <3>2 DEF ConfigurationInv, Running
  <2>. QED  BY <2>1, <2>2
<1>6. CASE OpenFile
  <2>1. UNCHANGED <<done, tgt, cache, held>> /\ pc = "read" /\ pc' = "write"
    BY <1>6 DEF OpenFile
  <2>2. \A f \in Forks, t \in Targets : <<f, t>> \in done => file'[f][t] = file[f][t]
    <3>1. file' = [file EXCEPT ![ThisFork][ThisTarget] = Blank("empty")]
      BY <1>6 DEF OpenFile
    <3>2. <<ThisFork, ThisTarget>> \notin done
      BY <2>1, HereIsNotDone
    <3>. QED  BY <3>1, <3>2, WrittenFile
  <2>. QED  BY <2>1, <2>2 DEF ConfigurationInv, Running
<1>7. CASE WriteFile
  <2>1. file' = [file EXCEPT ![ThisFork][ThisTarget] = held] /\ cache' = cache /\ pc = "write"
        /\ done' = done \cup {<<ThisFork, ThisTarget>>} /\ pc' \in {"load_preset", "package"}
    BY <1>7 DEF WriteFile
  <2>2. \A f \in Forks, t \in Targets : <<f, t>> \in done' =>
          /\ cache["preset"][t] # 0 /\ file'[f][t].preset = cache["preset"][t]
          /\ cache["config"][t] # 0 /\ file'[f][t].config = cache["config"][t]
    <3>. SUFFICES ASSUME NEW f \in Forks, NEW t \in Targets, <<f, t>> \in done'
                  PROVE  /\ cache["preset"][t] # 0 /\ file'[f][t].preset = cache["preset"][t]
                         /\ cache["config"][t] # 0 /\ file'[f][t].config = cache["config"][t]
      OBVIOUS
    <3>1. CASE f = ThisFork /\ t = ThisTarget
      <4>1. file'[f][t] = held
        BY <2>1, <3>1, WrittenFile
      <4>2. /\ cache["preset"][ThisTarget] # 0 /\ held.preset = cache["preset"][ThisTarget]
            /\ cache["config"][ThisTarget] # 0 /\ held.config = cache["config"][ThisTarget]
        BY <2>1 DEF ConfigurationInv
      <4>. QED  BY <3>1, <4>1, <4>2
    <3>2. CASE f # ThisFork \/ t # ThisTarget
      <4>1. <<f, t>> \in done /\ file'[f][t] = file[f][t]
        BY <2>1, <3>2, WrittenFile
      <4>. QED  BY <2>1, <4>1 DEF ConfigurationInv, Running
    <3>. QED  BY <3>1, <3>2
  <2>. QED  BY <2>1, <2>2 DEF ConfigurationInv, Running
<1>8. CASE WritePackage
  <2>1. CASE at < Len(ForkOrder)
    BY <1>8, <2>1 DEF WritePackage, ConfigurationInv, Running
  <2>2. CASE ~(at < Len(ForkOrder))
    BY <1>8, <1>2, <2>2 DEF WritePackage
  <2>. QED  BY <2>1, <2>2
<1>9. CASE Crash
  BY <1>9, <1>2 DEF Crash
<1>10. ASSUME NEW f \in Forks, EditDocuments(f) PROVE ConfigurationInv'
  BY <1>10 DEF EditDocuments, ConfigurationInv, Running, outputs
<1>11. ASSUME NEW kind \in Kinds, NEW t \in Targets, EditInput(kind, t) PROVE ConfigurationInv'
  BY <1>11 DEF EditInput, ConfigurationInv, Running, outputs
<1>12. CASE UNCHANGED vars
  BY <1>12 DEF vars, ConfigurationInv, Running
<1>. QED  BY <1>1, <1>3, <1>4, <1>5, <1>6, <1>7, <1>8, <1>9, <1>10, <1>11, <1>12 DEF Next, Build
LEMMA EmptyStep == TypeOK /\ MemoryInv /\ EmptyInv /\ [Next]_vars => EmptyInv'
<1>. SUFFICES ASSUME TypeOK, MemoryInv, EmptyInv, [Next]_vars,
                     crashes' = 0, NEW f \in Forks, NEW t \in Targets, file'[f][t].state = "empty"
              PROVE  (pc = "write" /\ f = ThisFork /\ t = ThisTarget)'
  BY DEF EmptyInv
<1>1. ASSUME UNCHANGED <<file, crashes>>, pc # "write" PROVE FALSE
  BY <1>1 DEF EmptyInv
<1>2. CASE StartRun
  BY <1>1, <1>2 DEF StartRun, outputs
<1>3. CASE LoadPreset
  BY <1>1, <1>3 DEF LoadPreset, outputs
<1>4. CASE LoadConfig
  BY <1>1, <1>4 DEF LoadConfig, outputs
<1>5. ASSUME NEW g \in Forks, ReadDocuments(g) PROVE FALSE
  BY <1>1, <1>5 DEF ReadDocuments, outputs
<1>6. CASE OpenFile
  <2>1. file' = [file EXCEPT ![ThisFork][ThisTarget] = Blank("empty")] /\ pc = "read"
        /\ pc' = "write" /\ UNCHANGED <<at, tgt, crashes>>
    BY <1>6 DEF OpenFile
  <2>2. CASE f = ThisFork /\ t = ThisTarget
    BY <2>1, <2>2 DEF ThisFork, ThisTarget
  <2>3. CASE f # ThisFork \/ t # ThisTarget
    <3>1. file'[f][t] = file[f][t]
      BY <2>1, <2>3, WrittenFile
    <3>. QED  BY <2>1, <3>1 DEF EmptyInv
  <2>. QED  BY <2>2, <2>3
<1>7. CASE WriteFile
  <2>1. file' = [file EXCEPT ![ThisFork][ThisTarget] = held] /\ UNCHANGED crashes
    BY <1>7 DEF WriteFile
  <2>2. held.state = "whole"
    BY DEF MemoryInv
  <2>3. f # ThisFork \/ t # ThisTarget
    BY <2>1, <2>2, WrittenFile
  <2>4. file'[f][t] = file[f][t]
    BY <2>1, <2>3, WrittenFile
  <2>. QED  BY <2>1, <2>3, <2>4 DEF EmptyInv
<1>8. CASE WritePackage
  BY <1>1, <1>8 DEF WritePackage
<1>9. CASE Crash
  BY <1>9 DEF Crash, TypeOK
<1>10. ASSUME UNCHANGED <<file, crashes, pc, at, tgt>>
       PROVE  (pc = "write" /\ f = ThisFork /\ t = ThisTarget)'
  BY <1>10 DEF EmptyInv, ThisFork, ThisTarget
<1>11. ASSUME NEW g \in Forks, EditDocuments(g) PROVE UNCHANGED <<file, crashes, pc, at, tgt>>
  BY <1>11 DEF EditDocuments, outputs
<1>12. ASSUME NEW kind \in Kinds, NEW u \in Targets, EditInput(kind, u)
       PROVE  UNCHANGED <<file, crashes, pc, at, tgt>>
  BY <1>12 DEF EditInput, outputs
<1>13. CASE UNCHANGED vars
  BY <1>10, <1>13 DEF vars
<1>. QED  BY <1>2, <1>3, <1>4, <1>5, <1>6, <1>7, <1>8, <1>9, <1>10, <1>11, <1>12, <1>13
          DEF Next, Build

LEMMA PackageStep ==
  TypeOK /\ MemoryInv /\ DoneInv /\ PackageInv /\ [Next]_vars => PackageInv'
<1>. SUFFICES ASSUME TypeOK, MemoryInv, DoneInv, PackageInv, [Next]_vars PROVE PackageInv'
  OBVIOUS
<1>1. CASE StartRun
  BY <1>1, PlacesExist DEF StartRun, PackageInv, MemoryInv, Running
<1>2. ASSUME UNCHANGED <<at, package>>, Running, pc' # "finished" PROVE PackageInv'
  BY <1>2 DEF PackageInv, Running
<1>3. ASSUME EndProcess("off") PROVE PackageInv'
  BY <1>3 DEF EndProcess, PackageInv, Running
<1>4. CASE LoadPreset
  BY <1>2, <1>4 DEF LoadPreset, Load, Running, outputs
<1>5. CASE LoadConfig
  BY <1>2, <1>5 DEF LoadConfig, Load, Running, outputs
<1>6. ASSUME NEW f \in Forks, ReadDocuments(f) PROVE PackageInv'
  <2>1. CASE f \in bad
    BY <1>3, <1>6, <2>1 DEF ReadDocuments
  <2>2. CASE f \notin bad
    BY <1>2, <1>6, <2>2 DEF ReadDocuments, Running, outputs
  <2>. QED  BY <2>1, <2>2
<1>7. CASE OpenFile
  BY <1>2, <1>7 DEF OpenFile, Running
<1>8. CASE WriteFile
  BY <1>2, <1>8 DEF WriteFile, Running
<1>9. CASE WritePackage
  <2>1. package' = package \cup {ForkOrder[at]}
    BY <1>9, HereIsAPlace DEF WritePackage
  <2>2. \A i \in 1..Len(ForkOrder) : i <= at => ForkOrder[i] \in package'
    <3>1. \A i \in 1..Len(ForkOrder) : i < at => ForkOrder[i] \in package
      BY <1>9 DEF WritePackage, PackageInv, Running
    <3>2. \A i \in 1..Len(ForkOrder) : i <= at => i < at \/ i = at
      BY HereIsAPlace
    <3>. QED  BY <2>1, <3>1, <3>2
  <2>3. CASE at < Len(ForkOrder)
    <3>1. at' = at + 1 /\ pc' = "load_preset"
      BY <1>9, <2>3 DEF WritePackage
    <3>2. \A i \in 1..Len(ForkOrder) : i < at + 1 => i <= at
      BY HereIsAPlace
    <3>. QED  BY <2>2, <3>1, <3>2 DEF PackageInv
  <2>4. CASE ~(at < Len(ForkOrder))
    <3>1. pc' = "finished" /\ done' = done
      BY <1>9, <2>4 DEF WritePackage, EndProcess
    <3>2. \A i \in 1..Len(ForkOrder) : i <= at
      BY <2>4, HereIsAPlace, PlacesExist
    <3>3. package' = Forks
      <4>1. Forks \subseteq package'
        BY <2>2, <3>2, PlacesExist
      <4>. QED  BY <2>1, <4>1, HereIsAPlace DEF TypeOK
    <3>4. \A i \in 1..Len(ForkOrder), j \in 1..Len(TargetOrder) :
            <<ForkOrder[i], TargetOrder[j]>> \in done
      <4>1. \A i \in 1..Len(ForkOrder) : i < at \/ i = at
        BY <3>2, HereIsAPlace
      <4>. QED  BY <1>9, <4>1 DEF WritePackage, DoneInv, Running
    <3>5. \A f \in Forks, t \in Targets : <<f, t>> \in done
      BY <3>4, PlacesExist
    <3>. QED  BY <3>1, <3>3, <3>5 DEF PackageInv, Running
  <2>. QED  BY <2>3, <2>4
<1>10. CASE Crash
  BY <1>3, <1>10 DEF Crash
<1>11. ASSUME NEW f \in Forks, EditDocuments(f) PROVE PackageInv'
  BY <1>11 DEF EditDocuments, PackageInv, Running, outputs
<1>12. ASSUME NEW kind \in Kinds, NEW t \in Targets, EditInput(kind, t) PROVE PackageInv'
  BY <1>12 DEF EditInput, PackageInv, Running, outputs
<1>13. CASE UNCHANGED vars
  BY <1>13 DEF vars, PackageInv, Running
<1>. QED  BY <1>1, <1>4, <1>5, <1>6, <1>7, <1>8, <1>9, <1>10, <1>11, <1>12, <1>13 DEF Next, Build
(* The parts of QuietInv, for the proof that a step of the process keeps them. *)
CacheCurrent == \A kind \in Kinds, t \in Targets : cache[kind][t] \in {0, input[kind][t]}

HeldCurrent ==
  pc \in {"read", "write"} => \A g \in Lineage(ThisFork) \ unread : held.docs[g] = docs[g]

DoneCurrent == \A f \in Forks, t \in Targets : <<f, t>> \in done => Current(f, t)

LEMMA QuietParts == QuietInv <=> (quiet => pc # "off" /\ CacheCurrent /\ HeldCurrent /\ DoneCurrent)
BY DEF QuietInv, CacheCurrent, HeldCurrent, DoneCurrent

LEMMA LoadKeepsCacheCurrent ==
  ASSUME TypeOK, MemoryInv, CacheCurrent, NEW kind \in Kinds, NEW next, Load(kind, next),
         UNCHANGED input
  PROVE  CacheCurrent'
<1>. SUFFICES ASSUME NEW k \in Kinds, NEW t \in Targets PROVE cache'[k][t] \in {0, input[k][t]}
  BY DEF CacheCurrent
<1>1. CASE k # kind \/ t # ThisTarget
  BY <1>1, LoadStep DEF CacheCurrent
<1>2. CASE k = kind /\ t = ThisTarget
  <2>1. cache[kind][ThisTarget] \in {0, input[kind][ThisTarget]}
    BY <1>2 DEF CacheCurrent
  <2>. QED  BY <1>2, <2>1, LoadStep, LoadedIsNotZero
<1>. QED  BY <1>1, <1>2

LEMMA QuietStep ==
  TypeOK /\ MemoryInv /\ DoneInv /\ ConfigurationInv /\ QuietInv /\ [Next]_vars => QuietInv'
<1>. SUFFICES ASSUME TypeOK, MemoryInv, DoneInv, ConfigurationInv, QuietInv, [Next]_vars, quiet'
              PROVE  (pc # "off" /\ CacheCurrent /\ HeldCurrent /\ DoneCurrent)'
  BY DEF QuietInv, CacheCurrent, HeldCurrent, DoneCurrent
<1>1. CASE StartRun
  <2>1. done' = {} /\ cache' = EmptyCaches /\ pc' = "load_preset"
    BY <1>1 DEF StartRun, MemoryInv, Running
  <2>. QED  BY <2>1 DEF CacheCurrent, EmptyCaches, HeldCurrent, DoneCurrent
<1>2. ASSUME quiet PROVE pc # "off" /\ CacheCurrent /\ HeldCurrent /\ DoneCurrent
  BY <1>2, QuietParts
<1>3. ASSUME DoneCurrent, UNCHANGED <<docs, input, file, done>> PROVE DoneCurrent'
  BY <1>3 DEF DoneCurrent, Current
<1>4. CASE LoadPreset
  <2>1. quiet /\ UNCHANGED <<docs, input, file, done>> /\ pc' = "load_config"
        /\ Load("preset", "load_config")
    BY <1>4 DEF LoadPreset, Load, sources, outputs
  <2>. QED  BY <1>2, <1>3, <2>1, LoadKeepsCacheCurrent DEF HeldCurrent, Kinds
<1>5. CASE LoadConfig
  <2>1. quiet /\ UNCHANGED <<docs, input, file, done>> /\ pc' = "read" /\ Load("config", "read")
    BY <1>5 DEF LoadConfig, Load, sources, outputs
  <2>2. unread' = Lineage(ThisFork) /\ ThisFork' = ThisFork
    BY <1>5 DEF LoadConfig, ThisFork
  <2>3. HeldCurrent'
    BY <2>2 DEF HeldCurrent
  <2>. QED  BY <1>2, <1>3, <2>1, <2>3, LoadKeepsCacheCurrent DEF Kinds
<1>6. ASSUME NEW f \in Forks, ReadDocuments(f)
      PROVE  (pc # "off" /\ CacheCurrent /\ HeldCurrent /\ DoneCurrent)'
  <2>1. f \notin bad
    BY <1>6 DEF ReadDocuments
  <2>2. quiet /\ UNCHANGED <<docs, input, file, done, cache, pc, at>> /\ pc = "read"
    BY <1>6, <2>1 DEF ReadDocuments, sources, outputs
  <2>3. unread' = unread \ {f} /\ held' = [held EXCEPT !.docs[f] = docs[f]]
    BY <1>6, <2>1 DEF ReadDocuments
  <2>4. HeldCurrent'
    <3>1. \A g \in Lineage(ThisFork) \ unread : held.docs[g] = docs[g]
      BY <1>2, <2>2 DEF HeldCurrent
    <3>2. \A g \in Forks : held'.docs[g] = IF g = f THEN docs[f] ELSE held.docs[g]
      BY <2>3 DEF TypeOK, Contents
    <3>3. Lineage(ThisFork) \subseteq Forks
      BY DEF Lineage
    <3>4. \A g \in Lineage(ThisFork) \ unread' : held'.docs[g] = docs[g]
      BY <2>3, <3>1, <3>2, <3>3
    <3>5. ThisFork' = ThisFork
      BY <2>2 DEF ThisFork
    <3>. QED  BY <2>2, <3>4, <3>5 DEF HeldCurrent
  <2>5. CacheCurrent'
    BY <1>2, <2>2 DEF CacheCurrent
  <2>. QED  BY <1>2, <1>3, <2>2, <2>4, <2>5
<1>7. CASE OpenFile
  <2>1. quiet /\ UNCHANGED <<docs, input, done, cache, at, held, unread>> /\ pc = "read" /\ pc' = "write"
    BY <1>7 DEF OpenFile, sources
  <2>2. \A f \in Forks, t \in Targets : <<f, t>> \in done => file'[f][t] = file[f][t]
    <3>1. file' = [file EXCEPT ![ThisFork][ThisTarget] = Blank("empty")]
      BY <1>7 DEF OpenFile
    <3>2. <<ThisFork, ThisTarget>> \notin done
      BY <2>1, HereIsNotDone
    <3>. QED  BY <3>1, <3>2, WrittenFile
  <2>3. DoneCurrent'
    BY <1>2, <2>1, <2>2 DEF DoneCurrent, Current
  <2>4. HeldCurrent'
    BY <1>2, <2>1 DEF HeldCurrent, ThisFork
  <2>5. CacheCurrent'
    BY <1>2, <2>1 DEF CacheCurrent
  <2>. QED  BY <2>1, <2>3, <2>4, <2>5
<1>8. CASE WriteFile
  <2>1. quiet /\ UNCHANGED <<docs, input, cache>> /\ pc = "write"
        /\ pc' \in {"load_preset", "package"} /\ done' = done \cup {<<ThisFork, ThisTarget>>}
    BY <1>8 DEF WriteFile, sources
  <2>2. file' = [file EXCEPT ![ThisFork][ThisTarget] = held]
    BY <1>8 DEF WriteFile
  <2>3. ASSUME NEW f \in Forks, NEW t \in Targets, f = ThisFork, t = ThisTarget PROVE Current(f, t)'
    <3>1. file'[ThisFork][ThisTarget] = held
      BY <2>2, WrittenFile
    <3>2. unread = {} /\ held.state = "whole"
      BY <2>1 DEF MemoryInv
    <3>3. \A g \in Lineage(ThisFork) : held.docs[g] = docs[g]
      BY <1>2, <2>1, <3>2 DEF HeldCurrent
    <3>4. held.preset = input["preset"][ThisTarget] /\ held.config = input["config"][ThisTarget]
      BY <1>2, <2>1, HereIsAPlace DEF ConfigurationInv, CacheCurrent, Kinds
    <3>. QED  BY <2>1, <2>3, <3>1, <3>2, <3>3, <3>4 DEF Current
  <2>4. DoneCurrent'
    <3>. SUFFICES ASSUME NEW f \in Forks, NEW t \in Targets, <<f, t>> \in done' PROVE Current(f, t)'
      BY DEF DoneCurrent
    <3>1. CASE f = ThisFork /\ t = ThisTarget
      BY <2>3, <3>1
    <3>2. CASE f # ThisFork \/ t # ThisTarget
      <4>1. <<f, t>> \in done /\ file'[f][t] = file[f][t]
        BY <2>1, <2>2, <3>2, WrittenFile
      <4>. QED  BY <1>2, <2>1, <4>1 DEF DoneCurrent, Current
    <3>. QED  BY <3>1, <3>2
  <2>5. CacheCurrent'
    BY <1>2, <2>1 DEF CacheCurrent
  <2>. QED  BY <2>1, <2>4, <2>5 DEF HeldCurrent
<1>9. CASE WritePackage
  <2>1. quiet /\ UNCHANGED <<docs, input, file, done>> /\ pc' \in {"load_preset", "finished"}
        /\ cache' \in {cache, EmptyCaches}
    BY <1>9 DEF WritePackage, EndProcess, sources
  <2>2. CacheCurrent'
    BY <1>2, <2>1 DEF CacheCurrent, EmptyCaches
  <2>. QED  BY <1>2, <1>3, <2>1, <2>2 DEF HeldCurrent
<1>10. CASE Crash
  BY <1>10 DEF Crash
<1>11. ASSUME NEW f \in Forks, EditDocuments(f) PROVE FALSE
  BY <1>11 DEF EditDocuments
<1>12. ASSUME NEW kind \in Kinds, NEW t \in Targets, EditInput(kind, t) PROVE FALSE
  BY <1>12 DEF EditInput
<1>13. CASE UNCHANGED vars
  <2>1. quiet /\ UNCHANGED <<docs, input, file, done, cache, pc, at, held, unread>>
    BY <1>13 DEF vars
  <2>. QED  BY <1>2, <1>3, <2>1 DEF CacheCurrent, HeldCurrent, ThisFork
<1>. QED  BY <1>1, <1>4, <1>5, <1>6, <1>7, <1>8, <1>9, <1>10, <1>11, <1>12, <1>13 DEF Next, Build

----------------------------------------------------------------------------
IInv ==
  TypeOK /\ MemoryInv /\ DoneInv /\ ConfigurationInv /\ EmptyInv /\ QuietInv /\ PackageInv

LEMMA InitIInv == Init => IInv
<1>. SUFFICES ASSUME Init PROVE IInv
  OBVIOUS
<1>1. /\ pc = "off" /\ at = 1 /\ tgt = 1 /\ cache = EmptyCaches /\ done = {}
      /\ quiet = FALSE /\ held = Blank("whole")
      /\ input = [kind \in Kinds |-> [t \in Targets |-> 1]]
      /\ file = [f \in Forks |-> [t \in Targets |-> Blank("absent")]]
  BY DEF Init
<1>2. MemoryInv
  BY <1>1 DEF MemoryInv, Running, Blank
<1>3. EmptyInv
  BY <1>1 DEF EmptyInv, Blank
<1>4. DoneInv /\ ConfigurationInv /\ PackageInv
  BY <1>1 DEF DoneInv, ConfigurationInv, PackageInv, Running
<1>5. QuietInv
  BY <1>1 DEF QuietInv
<1>. QED  BY <1>2, <1>3, <1>4, <1>5, TypeInit DEF IInv

(* What the build keeps true at every moment, for all forks, targets, edits and crashes. *)
THEOREM BuildInvariant == Spec => []IInv
<1>1. IInv /\ [Next]_vars => IInv'
  BY TypeStep, MemoryStep, DoneStep, ConfigurationStep, EmptyStep, QuietStep, PackageStep DEF IInv
<1>. QED  BY <1>1, InitIInv, PTL DEF Spec

(* A finished run that no edit overlapped leaves every module current, for every list
   of forks and targets and whatever happened before. *)
THEOREM QuietRunsBuildEverything == Spec => []CompletedRunsAreCurrent
<1>1. IInv => CompletedRunsAreCurrent
  BY DEF IInv, QuietInv, PackageInv, CompletedRunsAreCurrent, AllCurrent
<1>. QED  BY <1>1, BuildInvariant, PTL

(* Without a killed process no file is ever left empty, whatever documents fail. *)
THEOREM FilesSurviveFailures == Spec => []FailedRunsKeepFiles
<1>1. IInv => FailedRunsKeepFiles
  BY DEF IInv, EmptyInv, FailedRunsKeepFiles
<1>. QED  BY <1>1, BuildInvariant, PTL

(* The modules of a run share their preset and their configuration. *)
THEOREM RunsHaveOneConfiguration == Spec => []OneConfigurationPerRun
<1>1. Init => OneConfigurationPerRun
  BY DEF Init, OneConfigurationPerRun
<1>2. OneConfigurationPerRun /\ UNCHANGED <<file, done>> => OneConfigurationPerRun'
  BY DEF OneConfigurationPerRun
<1>4. IInv /\ IInv' /\ OneConfigurationPerRun /\ [Next]_vars => OneConfigurationPerRun'
  <2>. SUFFICES ASSUME IInv, IInv', OneConfigurationPerRun, [Next]_vars PROVE OneConfigurationPerRun'
    OBVIOUS
  <2>1. CASE Running'
    BY <2>1 DEF IInv, ConfigurationInv, OneConfigurationPerRun
  <2>2. CASE ~Running'
    <3>1. UNCHANGED <<file, done>>
      BY <2>2 DEF Next, Build, StartRun, LoadPreset, LoadConfig, Load, ReadDocuments, OpenFile,
                  WriteFile, WritePackage, Crash, EditDocuments, EditInput, Running, outputs, vars
    <3>. QED  BY <1>2, <3>1
  <2>. QED  BY <2>1, <2>2
<1>. QED  BY <1>1, <1>4, BuildInvariant, PTL DEF Spec

(* A module is written after the modules it imports, in every run. *)
THEOREM ImportsAreWrittenFirst == Spec => []ImportedModulesFirst
<1>1. Init => ImportedModulesFirst
  BY DEF Init, ImportedModulesFirst
<1>2. ImportedModulesFirst /\ UNCHANGED done => ImportedModulesFirst'
  BY DEF ImportedModulesFirst
<1>3. IInv /\ Running => ImportedModulesFirst
  <2>. SUFFICES ASSUME IInv, Running, NEW f \in Forks, NEW t \in Targets,
                       <<f, t>> \in done, PREVIOUS_FORK_OF[f] # None
                PROVE  <<PREVIOUS_FORK_OF[f], t>> \in done
    BY DEF ImportedModulesFirst
  <2>1. PICK i \in 1..Len(ForkOrder), j \in 1..Len(TargetOrder) : f = ForkOrder[i] /\ t = TargetOrder[j]
    BY PlacesExist
  <2>2. PICK k \in 1..Len(ForkOrder) : PREVIOUS_FORK_OF[f] = ForkOrder[k]
    BY PlacesExist, ParentsAssumption
  <2>3. k < i
    BY <2>1, <2>2, ParentsAssumption
  <2>4. i <= at
    <3>1. <<ForkOrder[i], TargetOrder[j]>> \in done => i < at \/ i = at
      BY DEF IInv, DoneInv
    <3>2. at \in Nat
      BY HereIsAPlace DEF IInv
    <3>. QED  BY <2>1, <3>1, <3>2
  <2>5. k < at
    BY <2>3, <2>4, HereIsAPlace, PlacesExist DEF IInv
  <2>6. <<ForkOrder[k], TargetOrder[j]>> \in done
    BY <2>5 DEF IInv, DoneInv
  <2>. QED  BY <2>1, <2>2, <2>6
<1>4. IInv' /\ Running' => ImportedModulesFirst'
  BY <1>3, PTL
<1>5. ImportedModulesFirst /\ [Next]_vars /\ ~Running' => ImportedModulesFirst'
  <2>. SUFFICES ASSUME [Next]_vars, ~Running' PROVE UNCHANGED done
    BY <1>2
  <2>. QED  BY DEF Next, Build, StartRun, LoadPreset, LoadConfig, Load, ReadDocuments, OpenFile,
                   WriteFile, WritePackage, Crash, EditDocuments, EditInput, Running, outputs, vars
<1>6. IInv' /\ ImportedModulesFirst /\ [Next]_vars => ImportedModulesFirst'
  BY <1>4, <1>5
<1>. QED  BY <1>1, <1>6, BuildInvariant, PTL DEF Spec
=============================================================================
