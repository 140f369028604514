---------------------------- MODULE SpecModule ----------------------------
(***************************************************************************)
(* build_spec: the documents of a fork and of the forks before it combined *)
(* into one SpecObject, completed with what the fork's spec builders hard- *)
(* code, and laid out as one Python module, which is then imported.  A     *)
(* definition of the module is a statement: it runs when the names it      *)
(* needs are defined above it.                                             *)
(***************************************************************************)
EXTENDS SpecBuilders, FiniteSets, SequencesExt

CONSTANTS
  Targets,      \* mainnet and minimal
  PresetValue   \* PresetValue[target][name], where a number matters

VARIABLES
  pc,       \* "idle", "combining", "combined", "emitted", "imported" or "failed"
  fork, target,
  unread,   \* the documents not combined yet
  spec,     \* the SpecObject: definitions in the order of their dicts, with their fork
  module    \* the statements of the module

vars == <<pc, fork, target, unread, spec, module>>

----------------------------------------------------------------------------
Concatenation(seqs) == FoldLeft(LAMBDA s, t : s \o t, << >>, seqs)

(* The forks before a fork, itself last: collect_prev_forks reversed. *)
Lineage(f) ==
  LET line[g \in Forks] ==
        IF PREVIOUS_FORK_OF[g] = "none" THEN <<g>> ELSE Append(line[PREVIOUS_FORK_OF[g]], g)
  IN line[f]

is_post_fork(a, b) == b \in ToSet(Lineage(a))

(* get_md_doc_paths: every fork's documents, in the order of PREVIOUS_FORK_OF. *)
get_md_doc_paths(f) ==
  LET tag(g) == [i \in DOMAIN DocumentsIn(g) |-> [fork |-> g, defs |-> DocumentsIn(g)[i]]]
  IN Concatenation([i \in 1..Len(SelectSeq(ALL_FORKS, LAMBDA g : is_post_fork(f, g))) |->
                  tag(SelectSeq(ALL_FORKS, LAMBDA g : is_post_fork(f, g))[i])])

Entry(d, f) == [section |-> d.section, name |-> d.name, needs |-> d.needs, fork |-> f]

SameKey(d, e) == d.section = e.section /\ d.name = e.name

(* Mutant: the older definition of a name is kept. *)
PutOlder(dict, e) ==
  IF \E i \in DOMAIN dict : SameKey(dict[i], e) THEN dict ELSE Append(dict, e)

(* {**old, **new}: a new value takes the old key's place, a new key comes last. *)
Put(dict, e) ==
  IF \E i \in DOMAIN dict : SameKey(dict[i], e)
    THEN [i \in DOMAIN dict |-> IF SameKey(dict[i], e) THEN e ELSE dict[i]]
    ELSE Append(dict, e)

combine_spec_objects(old, doc) ==
  FoldLeft(LAMBDA dict, d : Put(dict, Entry(d, doc.fork)), old, doc.defs)

Of(section, s) == SelectSeq(s, LAMBDA e : e.section = section)

Names(section, s) == { e.name : e \in ToSet(Of(section, s)) }

----------------------------------------------------------------------------
(* implement_optimizations, and the functions every module has from elsewhere. *)
implement_optimizations(fns) ==
  LET kept == SelectSeq(fns, LAMBDA e : e.name \notin {"ceillog2", "floorlog2",
                                                       "compute_merkle_proof"})
  IN [i \in DOMAIN kept |->
       IF kept[i].name = "eth_aggregate_pubkeys" THEN [kept[i] EXCEPT !.fork = "optimized"]
                                                 ELSE kept[i]]

----------------------------------------------------------------------------
(* reduce(..., builders): a method's results for a lineage, one after the other. *)
AllOf(f, method) ==
  Concatenation([i \in DOMAIN Lineage(f) |-> spec_builders[Lineage(f)[i]][method]])

(* {**obj, **builder.hardcoded_ssz_dep_constants()}: the last builder's value of a name. *)
HardcodedSsz(f) ==
  LET pairs == AllOf(f, "hardcoded_ssz_dep_constants")
      last(x) == CHOOSE i \in DOMAIN pairs :
                   pairs[i][1] = x /\ \A j \in DOMAIN pairs : pairs[j][1] = x => j <= i
  IN [x \in { p[1] : p \in ToSet(pairs) } |-> pairs[last(x)][2]]

WithEngine(f) ==
  SelectSeq(Lineage(f), LAMBDA b : DOMAIN spec_builders[b].execution_engine_cls # {})

(* Mutant: the first builder that has an engine gives it. *)
EmittedEngineFirst(f) == spec_builders[Head(WithEngine(f))].execution_engine_cls

(* builder.execution_engine_cls() or txt: the last builder that has an engine gives it. *)
EmittedEngine(f) == spec_builders[Last(WithEngine(f))].execution_engine_cls

Deprecated(f) == UNION { spec_builders[b].deprecated : b \in ToSet(Lineage(f)) }

FuncDep(f) == UNION { spec_builders[b].hardcoded_func_dep_presets : b \in ToSet(Lineage(f)) }

(* The lookups objects_to_spec makes in the SpecObject, each a KeyError if it fails. *)
KeysPresent(f, s) ==
  /\ \A p \in ToSet(AllOf(f, "hardcoded_custom_type_dep_constants")) : p[2] \in Names(p[1], s)
  /\ FuncDep(f) \subseteq Names("preset", s)
  /\ DOMAIN HardcodedSsz(f) \ Deprecated(f) \subseteq Names("ssz_dep", s)
  /\ FuncDep(f) \ Deprecated(f) \subseteq Names("func_dep", s)

(* The classes, each after those it needs (dependency_order_class_objects). *)
Ordered(cs) ==
  LET NamesOf(ds) == { c.name : c \in ToSet(ds) }
      Ready(placed) == CHOOSE c \in ToSet(cs) :
        /\ c.name \notin NamesOf(placed)
        /\ c.needs \cap NamesOf(cs) \subseteq NamesOf(placed)
  IN FoldLeft(LAMBDA placed, c : Append(placed, Ready(placed)), << >>, cs)

(* A statement of the module: the names it defines and the names it needs. *)
Statements(entries) == [i \in DOMAIN entries |-> <<{entries[i].name}, entries[i].needs>>]

UnionOfNeeds(entries) == UNION { e.needs : e \in ToSet(entries) }

(* Mutant: the custom types come before the constants they are made from. *)
section_orderTypesFirst == <<"imports", "preparations", "log2", "types", "custom_type_dep",
  "ssz_dep", "constants", "presets", "config", "classes", "containers", "protocols",
  "functions", "sundry", "engine", "verifications">>

section_order == <<"imports", "preparations", "log2", "custom_type_dep", "ssz_dep", "types",
  "constants", "presets", "config", "classes", "containers", "protocols", "functions",
  "sundry", "engine", "verifications">>

(* One section of objects_to_spec. *)
Section(which, f, s) ==
  CASE which = "imports" ->
         << <<UNION { spec_builders[b].imports : b \in ToSet(Lineage(f)) }, {}>> >>
    [] which = "preparations" -> AllOf(f, "preparations")
    [] which = "log2" -> << <<{"ceillog2", "floorlog2"}, {"uint64"}>> >>
    [] which = "custom_type_dep" ->
         LET copied == AllOf(f, "hardcoded_custom_type_dep_constants")
         IN [i \in DOMAIN copied |-> <<{copied[i][2]}, {}>>]
    [] which = "ssz_dep" -> << <<DOMAIN HardcodedSsz(f), { "GeneralizedIndex" : x \in DOMAIN HardcodedSsz(f) }>> >>
    [] which = "types" -> Statements(Of("type", s))
    [] which = "constants" -> Statements(Of("constant", s))
    [] which = "presets" -> Statements(Of("preset", s))
    [] which = "config" -> << <<{"config"}, {"uint64"}>> >>
    [] which = "classes" -> AllOf(f, "classes")
    [] which = "containers" -> Statements(Ordered(Of("class", s)))
    [] which = "protocols" ->
         IF Names("protocol", s) = {} THEN << >>
         ELSE << <<{"ExecutionEngine"}, {"Protocol"} \cup UnionOfNeeds(Of("protocol", s))>> >>
    [] which = "functions" -> Statements(implement_optimizations(Of("function", s)))
    [] which = "sundry" -> AllOf(f, "sundry_functions")
    [] which = "engine" ->
         IF WithEngine(f) = << >> THEN << >>
         ELSE << <<{"NoopExecutionEngine"}, {"ExecutionEngine"} \cup
                   UNION { EmittedEngine(f)[m] : m \in DOMAIN EmittedEngine(f) }>> >>
    [] which = "verifications" ->
         LET checked == SelectSeq(Of("ssz_dep", s) \o Of("func_dep", s), LAMBDA e :
               e.name \in (DOMAIN HardcodedSsz(f) \cup FuncDep(f)) \ Deprecated(f))
         IN [i \in DOMAIN checked |->
               <<{}, checked[i].needs \cup {"get_generalized_index", checked[i].name}>>]

objects_to_spec(f, s) ==
  Concatenation([i \in DOMAIN section_order |-> Section(section_order[i], f, s)])

----------------------------------------------------------------------------
(* get_generalized_index: the leaf of a field in the tree of a container's fields. *)
ceillog2(n) == CHOOSE d \in 0..20 : 2^d >= n /\ (d > 0 => 2^(d - 1) < n)

FieldGindex(container, f, field) == 2^ceillog2(Fields[container][f]) + FieldPlace[field]

EntryOf(section, name, s) == CHOOSE e \in ToSet(s) : e.section = section /\ e.name = name

(* The field a constant is about, with the fork whose container its document means. *)
FieldOf(x) ==
  CASE x \in {"FINALIZED_ROOT_GINDEX", "FINALIZED_ROOT_GINDEX_ELECTRA"} -> "finalized_checkpoint"
    [] x \in {"CURRENT_SYNC_COMMITTEE_GINDEX", "CURRENT_SYNC_COMMITTEE_GINDEX_ELECTRA"}
         -> "current_sync_committee"
    [] x \in {"NEXT_SYNC_COMMITTEE_GINDEX", "NEXT_SYNC_COMMITTEE_GINDEX_ELECTRA"}
         -> "next_sync_committee"
    [] x = "EXECUTION_PAYLOAD_GINDEX" -> "execution_payload"
    [] OTHER -> "blob_kzg_commitments"

ContainerOf(x) ==
  IF FieldOf(x) \in {"execution_payload", "blob_kzg_commitments"} THEN "BeaconBlockBody"
                                                                  ELSE "BeaconState"

MeantFork(e, s) ==
  IF "altair" \in e.needs THEN "altair" ELSE EntryOf("class", ContainerOf(e.name), s).fork

(* assert NAME == get_generalized_index(...), of the constants not deprecated. *)
GindexHolds(e, f, s) ==
  LET g == FieldGindex(ContainerOf(e.name), MeantFork(e, s), FieldOf(e.name)) IN
  /\ HasField(MeantFork(e, s), FieldOf(e.name))
  /\ HardcodedSsz(f)[e.name] = IF FieldOf(e.name) = "finalized_checkpoint" THEN 2 * g + 1 ELSE g

(* The depth of the field, and of an item of the list under it. *)
DepthHolds(e, t, s) ==
  LET depth == ceillog2(Fields["BeaconBlockBody"][MeantFork(e, s)]) IN
  /\ HasField(MeantFork(e, s), FieldOf(e.name))
  /\ PresetValue[t][e.name] =
       IF e.name = "KZG_COMMITMENTS_INCLUSION_PROOF_DEPTH" THEN depth
       ELSE depth + 1 + ceillog2(PresetValue[t]["MAX_BLOB_COMMITMENTS_PER_BLOCK"])

AssertionsHold(f, t, s) ==
  \A e \in ToSet(s) :
    /\ e.section = "ssz_dep" /\ e.name \in DOMAIN HardcodedSsz(f) \ Deprecated(f)
         => GindexHolds(e, f, s)
    /\ e.section = "func_dep" /\ e.name \in FuncDep(f) \ Deprecated(f) => DepthHolds(e, t, s)

NamesDefined(m) == \A i \in DOMAIN m : m[i][2] \subseteq UNION { m[j][1] : j \in 1..(i - 1) }

----------------------------------------------------------------------------
Init ==
  /\ pc = "idle" /\ fork = "phase0" /\ target \in Targets
  /\ unread = << >> /\ spec = << >> /\ module = << >>

(* build_spec starts: every document gives a SpecObject of its own. *)
Build ==
  /\ pc = "idle"
  /\ \E f \in Forks, t \in Targets :
       /\ fork' = f /\ target' = t /\ unread' = get_md_doc_paths(f)
  /\ pc' = "combining" /\ spec' = << >> /\ module' = << >>

Combine ==
  /\ pc = "combining" /\ unread # << >>
  /\ spec' = combine_spec_objects(spec, Head(unread))
  /\ unread' = Tail(unread)
  /\ pc' = IF unread' = << >> THEN "combined" ELSE pc
  /\ UNCHANGED <<fork, target, module>>

Emit ==
  /\ pc = "combined"
  /\ IF KeysPresent(fork, spec)
       THEN pc' = "emitted" /\ module' = objects_to_spec(fork, spec)
       ELSE pc' = "failed" /\ UNCHANGED module
  /\ UNCHANGED <<fork, target, unread, spec>>

(* The written module is imported: its statements run, and its assertions. *)
ImportModule ==
  /\ pc = "emitted"
  /\ pc' = IF NamesDefined(module) /\ AssertionsHold(fork, target, spec)
             THEN "imported" ELSE "failed"
  /\ UNCHANGED <<fork, target, unread, spec, module>>

Next == Build \/ Combine \/ Emit \/ ImportModule

Spec == Init /\ [][Next]_vars

----------------------------------------------------------------------------
(* Every fork's module is generated and imported without an error: no hard-coded
   table names what the documents lack, every name is defined above its use in the
   order of the sections, and the hard-coded indices and depths are those of the
   containers the fork ends up with. *)
ModulesImport == pc # "failed"

(* The fork whose documents a module's definition comes from. *)
Defines(f, section, name) ==
  \E i \in DOMAIN DocumentsIn(f) : \E j \in DOMAIN DocumentsIn(f)[i] :
    DocumentsIn(f)[i][j].section = section /\ DocumentsIn(f)[i][j].name = name

(* A module has what the documents of its fork and the forks before it define, each
   once and in the version of the last fork to define it, and nothing of a fork that
   does not lead to it. *)
LatestDefinitions ==
  pc \in {"combined", "emitted"} =>
    /\ \A i, j \in DOMAIN spec : SameKey(spec[i], spec[j]) => i = j
    /\ \A e \in ToSet(spec) : is_post_fork(fork, e.fork) /\ Defines(e.fork, e.section, e.name)
    /\ \A g \in ToSet(Lineage(fork)) : \A i \in DOMAIN DocumentsIn(g) :
         \A d \in ToSet(DocumentsIn(g)[i]) :
           \E e \in ToSet(spec) : SameKey(d, e) /\ is_post_fork(e.fork, g)

(* The engine a module gets implements every method of the ExecutionEngine protocol
   its documents end up with, with the signature of the last fork to change it. *)
EngineImplementsProtocol ==
  pc = "emitted" /\ Names("protocol", spec) # {} =>
    /\ WithEngine(fork) # << >>
    /\ DOMAIN EmittedEngine(fork) = Names("protocol", spec)
    /\ \A e \in ToSet(Of("protocol", spec)) : EmittedEngine(fork)[e.name] = e.needs
=============================================================================
