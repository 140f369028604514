----------------------------- MODULE SpecBuild -----------------------------
(***************************************************************************)
(* `setup.py pyspecdev` (and the same loop of `build_py`): one process     *)
(* that builds every fork for every target, one file after the other,      *)
(* while the sources may be edited and the process may be killed; what it  *)
(* leaves in the package directories; and the runs that follow.  Contents  *)
(* are abstracted to the versions of the sources they were made of.        *)
(***************************************************************************)
EXTENDS Naturals, Sequences

CONSTANTS
  ForkOrder,         \* the keys of spec_builders, in order
  PREVIOUS_FORK_OF,  \* the fork whose module a fork's module imports; None for the first
  None,
  TargetOrder,       \* the names of the build targets: minimal, mainnet
  MaxEdits,          \* bound on the edits of sources
  MaxCrashes         \* bound on the runs that are killed

Forks == { ForkOrder[i] : i \in DOMAIN ForkOrder }
Targets == { TargetOrder[j] : j \in DOMAIN TargetOrder }
Kinds == {"preset", "config"}

ASSUME OrdersAssumption ==
  /\ ForkOrder \in Seq(Forks) /\ Len(ForkOrder) > 0
  /\ TargetOrder \in Seq(Targets) /\ Len(TargetOrder) > 0
  /\ \A i, j \in 1..Len(ForkOrder) : ForkOrder[i] = ForkOrder[j] => i = j
  /\ \A i, j \in 1..Len(TargetOrder) : TargetOrder[i] = TargetOrder[j] => i = j
  /\ None \notin Forks

ASSUME ParentsAssumption ==
  /\ PREVIOUS_FORK_OF \in [Forks -> Forks \cup {None}]
  /\ \A i, j \in 1..Len(ForkOrder) : PREVIOUS_FORK_OF[ForkOrder[j]] = ForkOrder[i] => i < j

ASSUME BoundsAssumption == MaxEdits \in Nat /\ MaxCrashes \in Nat

VARIABLES
  docs,     \* docs[f]: the version of the documents of fork f
  bad,      \* the forks whose documents the parser raises an exception on
  input,    \* input[kind][t]: the version of a target's preset files or config file
  file,     \* file[f][t]: <out_dir of f>/<t>.py
  package,  \* the forks whose __init__.py is written
  pc,       \* what the process does next; "off" and "finished": there is no process
  at, tgt,  \* the places in ForkOrder and TargetOrder it has come to
  cache,    \* cache[kind][t]: what lru_cache holds, 0 for nothing
  held,     \* the contents it is making
  unread,   \* the forks whose documents these lack
  done,     \* the files this run has written
  quiet,    \* there is a run, or there was one that finished, and no edit since it started
  edits, crashes

vars == <<docs, bad, input, edits, file, package, pc, at, tgt, cache, held, unread, done,
          quiet, crashes>>
sources == <<docs, bad, input, edits>>
outputs == <<file, package>>

Contents == [state : {"absent", "empty", "whole"}, docs : [Forks -> Nat],
             preset : Nat, config : Nat]

Blank(state) == [state |-> state, docs |-> [f \in Forks |-> 0], preset |-> 0, config |-> 0]

----------------------------------------------------------------------------
(* The forks whose documents get_md_doc_paths collects for a fork: the least set with
   the fork that has the fork before each of its members. *)
Lineage(f) ==
  { g \in Forks : \A S \in SUBSET Forks :
      f \in S /\ (\A h \in S : PREVIOUS_FORK_OF[h] \in S \cup {None}) => g \in S }

(* Mutant: the forks are built last to first. *)
ForkAtReversed(i) == ForkOrder[Len(ForkOrder) + 1 - i]

ForkAt(i) == ForkOrder[i]

ThisFork == ForkAt(at)
ThisTarget == TargetOrder[tgt]

(* Mutant: what the first target loaded is used for every target. *)
CacheKeyFirst(t) == TargetOrder[1]

(* The tuple of preset files, or the config path, of a target. *)
CacheKey(t) == t

(* Mutant: nothing is cached. *)
LoadedAlways(kind, t) == input[kind][t]

(* @lru_cache load_preset and load_config *)
Loaded(kind, t) ==
  IF cache[kind][CacheKey(t)] # 0 THEN cache[kind][CacheKey(t)] ELSE input[kind][t]

EmptyCaches == [kind \in Kinds |-> [t \in Targets |-> 0]]

(* The memory of a process goes with it. *)
EndProcess(how) ==
  /\ pc' = how /\ at' = 1 /\ tgt' = 1
  /\ cache' = EmptyCaches /\ held' = Blank("whole") /\ unread' = {}

Load(kind, next) ==
  LET v == Loaded(kind, ThisTarget) IN
  /\ cache' = [cache EXCEPT ![kind][CacheKey(ThisTarget)] = v]
  /\ held' = [held EXCEPT ![kind] = v]
  /\ pc' = next

----------------------------------------------------------------------------
Init ==
  /\ docs = [f \in Forks |-> 1] /\ bad = {}
  /\ input = [kind \in Kinds |-> [t \in Targets |-> 1]]
  /\ file = [f \in Forks |-> [t \in Targets |-> Blank("absent")]] /\ package = {}
  /\ pc = "off" /\ at = 1 /\ tgt = 1
  /\ cache = EmptyCaches
  /\ held = Blank("whole") /\ unread = {} /\ done = {} /\ quiet = FALSE
  /\ edits = 0 /\ crashes = 0

(* A process starts at the first fork and target, its caches empty. *)
StartRun ==
  /\ pc \in {"off", "finished"}
  /\ pc' = "load_preset" /\ done' = {} /\ quiet' = TRUE
  /\ UNCHANGED <<sources, outputs, at, tgt, cache, held, unread, crashes>>

LoadPreset ==
  /\ pc = "load_preset"
  /\ Load("preset", "load_config")
  /\ UNCHANGED <<sources, outputs, at, tgt, unread, done, quiet, crashes>>

LoadConfig ==
  /\ pc = "load_config"
  /\ Load("config", "read")
  /\ unread' = Lineage(ThisFork)
  /\ UNCHANGED <<sources, outputs, at, tgt, done, quiet, crashes>>

(* get_spec on the documents of the next fork of the lineage; an exception in it ends
   the process. *)
ReadDocuments(f) ==
  /\ pc = "read" /\ f \in unread /\ PREVIOUS_FORK_OF[f] \notin unread
  /\ IF f \in bad
       THEN EndProcess("off") /\ quiet' = FALSE
       ELSE /\ held' = [held EXCEPT !.docs[f] = docs[f]]
            /\ unread' = unread \ {f}
            /\ UNCHANGED <<pc, at, tgt, cache, quiet>>
  /\ UNCHANGED <<sources, outputs, done, crashes>>

(* Mutant: the file is opened before the documents are read. *)
OpenFileEarly ==
  /\ pc = "read" /\ file[ThisFork][ThisTarget].state # "empty"
  /\ file' = [file EXCEPT ![ThisFork][ThisTarget] = Blank("empty")]
  /\ pc' = IF unread = {} THEN "write" ELSE pc
  /\ UNCHANGED <<sources, package, at, tgt, cache, held, unread, done, quiet, crashes>>

(* Mutant: a file that is there is kept as it is. *)
OpenFileUnlessThere ==
  /\ pc = "read" /\ unread = {}
  /\ IF file[ThisFork][ThisTarget].state = "whole"
       THEN held' = file[ThisFork][ThisTarget] /\ UNCHANGED file
       ELSE /\ file' = [file EXCEPT ![ThisFork][ThisTarget] = Blank("empty")]
            /\ UNCHANGED held
  /\ pc' = "write"
  /\ UNCHANGED <<sources, package, at, tgt, cache, unread, done, quiet, crashes>>

(* open(..., 'w') *)
OpenFile ==
  /\ pc = "read" /\ unread = {}
  /\ file' = [file EXCEPT ![ThisFork][ThisTarget] = Blank("empty")]
  /\ pc' = "write"
  /\ UNCHANGED <<sources, package, at, tgt, cache, held, unread, done, quiet, crashes>>

(* The contents are written and the file is closed; the next target is up. *)
WriteFile ==
  /\ pc = "write"
  /\ file' = [file EXCEPT ![ThisFork][ThisTarget] = held]
  /\ done' = done \cup {<<ThisFork, ThisTarget>>}
  /\ held' = Blank("whole")
  /\ IF tgt < Len(TargetOrder)
       THEN tgt' = tgt + 1 /\ pc' = "load_preset"
       ELSE pc' = "package" /\ UNCHANGED tgt
  /\ UNCHANGED <<sources, package, at, cache, unread, quiet, crashes>>

(* __init__.py, after all targets; the next fork is up. *)
WritePackage ==
  /\ pc = "package"
  /\ package' = package \cup {ThisFork}
  /\ IF at < Len(ForkOrder)
       THEN at' = at + 1 /\ tgt' = 1 /\ pc' = "load_preset" /\ UNCHANGED <<cache, held, unread>>
       ELSE EndProcess("finished")
  /\ UNCHANGED <<sources, file, done, quiet, crashes>>

(* The process is killed. *)
Crash ==
  /\ pc \notin {"off", "finished"} /\ crashes < MaxCrashes
  /\ EndProcess("off") /\ quiet' = FALSE /\ crashes' = crashes + 1
  /\ UNCHANGED <<sources, outputs, done>>

(* The documents of a fork change, and may or may not parse afterwards. *)
EditDocuments(f) ==
  /\ edits < MaxEdits /\ edits' = edits + 1
  /\ docs' = [docs EXCEPT ![f] = docs[f] + 1]
  /\ bad' \in {bad \cup {f}, bad \ {f}}
  /\ quiet' = FALSE
  /\ UNCHANGED <<input, outputs, pc, at, tgt, cache, held, unread, done, crashes>>

EditInput(kind, t) ==
  /\ edits < MaxEdits /\ edits' = edits + 1
  /\ input' = [input EXCEPT ![kind][t] = input[kind][t] + 1]
  /\ quiet' = FALSE
  /\ UNCHANGED <<docs, bad, outputs, pc, at, tgt, cache, held, unread, done, crashes>>

Build ==
  \/ LoadPreset \/ LoadConfig \/ OpenFile \/ WriteFile \/ WritePackage
  \/ \E f \in Forks : ReadDocuments(f)

Next ==
  \/ StartRun \/ Build \/ Crash
  \/ \E f \in Forks : EditDocuments(f)
  \/ \E kind \in Kinds, t \in Targets : EditInput(kind, t)

(* A process goes on until it ends, and every make target that uses the modules runs
   the build again first. *)
Spec == Init /\ [][Next]_vars /\ WF_vars(Build) /\ WF_vars(StartRun)

----------------------------------------------------------------------------
TypeOK ==
  /\ docs \in [Forks -> Nat] /\ bad \subseteq Forks
  /\ input \in [Kinds -> [Targets -> Nat]]
  /\ file \in [Forks -> [Targets -> Contents]] /\ package \subseteq Forks
  /\ pc \in {"off", "load_preset", "load_config", "read", "write", "package", "finished"}
  /\ at \in 1..Len(ForkOrder) /\ tgt \in 1..Len(TargetOrder)
  /\ cache \in [Kinds -> [Targets -> Nat]]
  /\ held \in Contents /\ unread \subseteq Forks /\ done \subseteq Forks \X Targets
  /\ quiet \in BOOLEAN /\ edits \in Nat /\ crashes \in Nat

(* A file is whole and made of the present versions of all it is made from. *)
Current(f, t) ==
  /\ file[f][t].state = "whole"
  /\ \A g \in Lineage(f) : file[f][t].docs[g] = docs[g]
  /\ file[f][t].preset = input["preset"][t]
  /\ file[f][t].config = input["config"][t]

AllCurrent == \A f \in Forks, t \in Targets : Current(f, t)

(* A run that ends without an exception, and during which nobody edited a source,
   leaves a module of every fork for every target, whole and made from the present
   documents, preset and configuration, whatever runs that failed, were killed or
   overlapped with an edit left before: load_preset and load_config are cached across
   forks and targets, and every file is rewritten. *)
CompletedRunsAreCurrent == pc = "finished" /\ quiet => AllCurrent /\ package = Forks

(* Only a process that is killed can leave an emptied file behind: a document that
   raises an exception ends the run with the files of the run before in place, since
   a file is opened after its contents are made. *)
FailedRunsKeepFiles ==
  crashes = 0 /\ pc # "write" => \A f \in Forks, t \in Targets : file[f][t].state # "empty"

(* All modules a run has written for a target hold the same preset and the same
   configuration, also when these are edited in the middle of the run: a module
   imports the module of the fork before, and their containers must have one size. *)
OneConfigurationPerRun ==
  \A f, g \in Forks, t \in Targets :
    <<f, t>> \in done /\ <<g, t>> \in done =>
      file[f][t].preset = file[g][t].preset /\ file[f][t].config = file[g][t].config

(* When a run writes a module, it has written the module this one imports, so a run
   that stops half-way leaves no new module on top of an old one. *)
ImportedModulesFirst ==
  \A f \in Forks, t \in Targets :
    <<f, t>> \in done /\ PREVIOUS_FORK_OF[f] # None => <<PREVIOUS_FORK_OF[f], t>> \in done

(* When the documents parse from some time on, all modules are current again and
   again, in spite of runs that failed or were killed and of edits that a running
   process did not see. *)
EventuallyCurrent == <>[](bad = {}) => []<>AllCurrent
=============================================================================
