---------------------------- MODULE SpecParser ----------------------------
(***************************************************************************)
(* get_spec: one markdown document read element by element into the parts  *)
(* of a SpecObject.  The document grows as it is read, so that every       *)
(* document of at most MaxElements elements is one behaviour.  Source text *)
(* is a version number: two definitions of one name differ in it.          *)
(***************************************************************************)
EXTENDS Naturals, Sequences, FiniteSets, FiniteSetsExt

CONSTANTS
  Elements,      \* the markdown elements a document may be made of
  MaxElements,   \* bound on the length of a document
  Preset,        \* the merged preset files: name -> value
  Config,        \* the configuration file: name -> value
  KzgSetups,     \* KZG_SETUP_G1_MONOMIAL, KZG_SETUP_G1_LAGRANGE, KZG_SETUP_G2_MONOMIAL
  KzgNames,      \* the names with KZG_SETUP in them, also KZG_SETUP_G2_LENGTH
  Crs,           \* CURDLEPROOFS_CRS
  NoName         \* None

ASSUME NamesAssumption == KzgSetups \subseteq KzgNames

VARIABLES
  document,      \* the elements read so far
  current_name,
  should_skip,
  rows,          \* the rows left of the table being read
  spec,          \* the dicts being filled, one per field of SpecObject
  pc             \* "reading", "read" or "failed"

vars == <<document, current_name, should_skip, rows, spec, pc>>

FromFile == "trusted setup file"

(* dict[key] = value *)
Put(dict, key, value) ==
  [k \in DOMAIN dict \cup {key} |-> IF k = key THEN value ELSE dict[k]]

Empty == [k \in {} |-> 0]

SpecObject ==
  [functions |-> Empty, protocols |-> Empty, custom_types |-> Empty,
   constant_vars |-> Empty, preset_vars |-> Empty, config_vars |-> Empty,
   ssz_dep_constants |-> Empty, func_dep_presets |-> Empty,
   ssz_objects |-> Empty, dataclasses |-> Empty]

Init ==
  /\ document = << >> /\ current_name = NoName /\ should_skip = FALSE /\ rows = << >>
  /\ spec = SpecObject
  /\ pc = "reading"

(* The next child of the document, when no comment asked to skip it. *)
Take(e) ==
  /\ pc = "reading" /\ rows = << >> /\ ~should_skip
  /\ Len(document) < MaxElements
  /\ document' = Append(document, e)

Raise == pc' = "failed" /\ UNCHANGED <<current_name, should_skip, rows, spec>>

(* A blank line is passed over before the skip flag is looked at. *)
ReadBlankLine ==
  /\ pc = "reading" /\ rows = << >> /\ Len(document) < MaxElements
  /\ \E e \in Elements : e.kind = "blank" /\ document' = Append(document, e)
  /\ UNCHANGED <<current_name, should_skip, rows, spec, pc>>

(* Mutant: the flag outlives the element it was for. *)
SkipForever ==
  /\ pc = "reading" /\ rows = << >> /\ should_skip /\ Len(document) < MaxElements
  /\ \E e \in Elements : e.kind # "blank" /\ document' = Append(document, e)
  /\ UNCHANGED <<should_skip, current_name, rows, spec, pc>>

SkipElement ==
  /\ pc = "reading" /\ rows = << >> /\ should_skip /\ Len(document) < MaxElements
  /\ \E e \in Elements : e.kind # "blank" /\ document' = Append(document, e)
  /\ should_skip' = FALSE
  /\ UNCHANGED <<current_name, rows, spec, pc>>

(* A heading that does not end in a code span has no name. *)
ReadHeading ==
  /\ \E e \in Elements : e.kind = "heading" /\ Take(e) /\ current_name' = e.name
  /\ UNCHANGED <<should_skip, rows, spec, pc>>

(* A function whose first argument is `self: X` is one of protocol X. *)
ReadFunction ==
  /\ \E e \in Elements :
       /\ e.kind = "def" /\ Take(e)
       /\ current_name' = e.name
       /\ spec' =
            IF e.self = NoName
              THEN [spec EXCEPT !.functions = Put(@, e.name, e.source)]
              ELSE LET old == IF e.self \in DOMAIN spec.protocols
                                THEN spec.protocols[e.self] ELSE Empty
                   IN [spec EXCEPT !.protocols = Put(@, e.self, Put(old, e.name, e.source))]
  /\ UNCHANGED <<should_skip, rows, pc>>

(* A dataclass is filed under the current name, whatever it calls itself. *)
ReadDataclass ==
  /\ \E e \in Elements :
       /\ e.kind = "dataclass" /\ Take(e)
       /\ spec' = [spec EXCEPT !.dataclasses = Put(@, current_name, e.source)]
  /\ UNCHANGED <<current_name, should_skip, rows, pc>>

(* _get_class_info_from_source: a base other than a name, such as
   phase0.SignedBeaconBlock, gives no parent class and is not checked. *)
ClassAccepted(e) == e.name = current_name /\ e.base \in {"Container", NoName}

ReadClass ==
  \E e \in Elements :
    /\ e.kind = "class" /\ Take(e)
    /\ IF ClassAccepted(e)
         THEN /\ spec' = [spec EXCEPT !.ssz_objects =
                                        Put(@, current_name, [name |-> e.name, source |-> e.source])]
              /\ UNCHANGED <<current_name, should_skip, rows, pc>>
         ELSE Raise

(* A python block that is no definition is refused; other languages are not read. *)
ReadOtherCode ==
  \E e \in Elements :
    /\ e.kind = "code" /\ Take(e)
    /\ IF e.lang = "python" THEN Raise
       ELSE UNCHANGED <<current_name, should_skip, rows, spec, pc>>

(* Mutant: a preset value is also kept among the constants. *)
PutVariableTwice(s, r) ==
  CASE r.name \in DOMAIN Preset
         -> [s EXCEPT !.preset_vars = Put(@, r.name, Preset[r.name]),
                      !.constant_vars = Put(@, r.name, r.source)]
    [] r.name \notin DOMAIN Preset /\ r.name \in DOMAIN Config
         -> [s EXCEPT !.config_vars = Put(@, r.name, Config[r.name])]
    [] OTHER -> [s EXCEPT !.constant_vars = Put(@, r.name, r.source)]

(* The variable a constant's row defines: a preset or configuration value takes
   the place of the one written in the document. *)
PutVariable(s, r) ==
  CASE r.name \in DOMAIN Preset -> [s EXCEPT !.preset_vars = Put(@, r.name, Preset[r.name])]
    [] r.name \notin DOMAIN Preset /\ r.name \in DOMAIN Config
         -> [s EXCEPT !.config_vars = Put(@, r.name, Config[r.name])]
    [] OTHER -> [s EXCEPT !.constant_vars = Put(@, r.name, r.source)]

ReadTable ==
  /\ \E e \in Elements : e.kind = "table" /\ Take(e) /\ rows' = e.rows
  /\ UNCHANGED <<current_name, should_skip, spec, pc>>

(* The next row of the table.  A short row and a type defined by a builder are
   passed over. *)
ReadRow ==
  /\ pc = "reading" /\ rows # << >>
  /\ LET r == Head(rows)
     IN spec' =
          CASE r.cells < 2 \/ r.tag = "predefined-type" -> spec
            [] r.cells >= 2 /\ r.tag # "predefined-type" /\ ~r.constant
                 -> IF r.isType THEN [spec EXCEPT !.custom_types = Put(@, r.name, r.source)]
                                ELSE spec
            [] r.cells >= 2 /\ r.tag # "predefined-type" /\ r.constant /\ r.gindex
                 -> [spec EXCEPT !.ssz_dep_constants = Put(@, r.name, r.source)]
            [] OTHER
                 -> PutVariable(IF r.tag = "predefined"
                                  THEN [spec EXCEPT !.func_dep_presets = Put(@, r.name, r.source)]
                                  ELSE spec, r)
  /\ rows' = Tail(rows)
  /\ UNCHANGED <<document, current_name, should_skip, pc>>

(* [0]: # (eth2spec: skip) *)
ReadComment ==
  /\ \E e \in Elements : e.kind = "comment" /\ Take(e) /\ should_skip' = (e.says = "skip")
  /\ UNCHANGED <<current_name, rows, spec, pc>>

ReadText ==
  /\ \E e \in Elements : e.kind = "text" /\ Take(e)
  /\ UNCHANGED <<current_name, should_skip, rows, spec, pc>>

(* Mutant: the third table is forgotten. *)
WithTwoSetups(constants) ==
  LET third == CHOOSE n \in KzgSetups : TRUE
  IN [n \in DOMAIN constants |->
        IF n \in KzgSetups \ {third} THEN FromFile ELSE constants[n]]

(* _update_constant_vars_with_kzg_setups: reads all three, or raises a KeyError. *)
WithSetups(constants) ==
  [n \in DOMAIN constants |-> IF n \in KzgSetups THEN FromFile ELSE constants[n]]

(* The end of the document.  Any name with KZG_SETUP in it has the setups loaded. *)
Finish ==
  /\ pc = "reading" /\ rows = << >>
  /\ LET constants == spec.constant_vars
         kzg == DOMAIN constants \cap KzgNames
         setups == IF kzg = {} THEN constants ELSE WithSetups(constants)
     IN IF kzg # {} /\ ~(KzgSetups \subseteq kzg)
          THEN pc' = "failed" /\ UNCHANGED spec
          ELSE /\ pc' = "read"
               /\ spec' = [spec EXCEPT !.constant_vars =
                             IF Crs \in DOMAIN setups THEN Put(setups, Crs, FromFile) ELSE setups]
  /\ UNCHANGED <<document, current_name, should_skip, rows>>

Next ==
  \/ ReadBlankLine \/ SkipElement \/ ReadHeading \/ ReadFunction \/ ReadDataclass
  \/ ReadClass \/ ReadOtherCode \/ ReadTable \/ ReadRow \/ ReadComment \/ ReadText
  \/ Finish

Spec == Init /\ [][Next]_vars

----------------------------------------------------------------------------
IsSkip(e) == e.kind = "comment" /\ e.says = "skip"
IsBlank(e) == e.kind = "blank"

(* The skip comments right before a position, blank lines aside. *)
SkipsBefore(i) ==
  { h \in 1..(i - 1) :
      IsSkip(document[h]) /\ \A j \in h..(i - 1) : IsSkip(document[j]) \/ IsBlank(document[j]) }

(* An element is skipped when an odd number of them stands before it, for a skipped
   comment skips nothing. *)
Heard ==
  { i \in DOMAIN document : ~IsBlank(document[i]) /\ Cardinality(SkipsBefore(i)) % 2 = 0 }

(* The source of the last element heard that satisfies a test, per name. *)
Latest(IsIt(_)) ==
  LET hits == { i \in Heard : IsIt(document[i]) }
  IN [n \in { document[i].name : i \in hits } |->
        document[Max({ i \in hits : document[i].name = n })].source]

(* What the fold leaves is what the document says when read as a whole: every
   function, protocol function and class is the last definition of its name that
   no comment hides, and none is lost.  A skip comment hides exactly one element
   and is itself hidden by one before it. *)
LatestDefinitionWins ==
  pc # "failed" =>
    /\ spec.functions = Latest(LAMBDA e : e.kind = "def" /\ e.self = NoName)
    /\ [n \in DOMAIN spec.ssz_objects |-> spec.ssz_objects[n].source]
         = Latest(LAMBDA e : e.kind = "class")
    /\ LET methods == { i \in Heard : document[i].kind = "def" /\ document[i].self # NoName }
       IN spec.protocols = [p \in { document[i].self : i \in methods } |->
                              Latest(LAMBDA e : e.kind = "def" /\ e.self = p)]

(* A constant has one home.  It is substituted as config.X in functions, or
   emitted as a module constant, or as a preset, never two of these, and one that
   a builder looks up again as hard-coded (predefined) is in one of them. *)
OneKindPerConstant ==
  /\ DOMAIN spec.constant_vars \cap DOMAIN spec.preset_vars = {}
  /\ DOMAIN spec.constant_vars \cap DOMAIN spec.config_vars = {}
  /\ DOMAIN spec.preset_vars \cap DOMAIN spec.config_vars = {}
  /\ DOMAIN spec.func_dep_presets \subseteq
       DOMAIN spec.constant_vars \cup DOMAIN spec.preset_vars \cup DOMAIN spec.config_vars

(* An SSZ class is filed under its own name, so that a later fork's definition of
   it replaces it: the current name may be stale, left by a function or a heading
   the class does not belong to. *)
ClassesUnderTheirOwnName ==
  \A n \in DOMAIN spec.ssz_objects : spec.ssz_objects[n].name = n

(* The trusted setup of a finished document is the file's, all of it: no
   placeholder of the document stays beside a table that was loaded, and none is
   missing where the document names any part of the setup. *)
SetupsReplacedTogether ==
  pc = "read" =>
    /\ DOMAIN spec.constant_vars \cap KzgNames # {} => KzgSetups \subseteq DOMAIN spec.constant_vars
    /\ \A n \in DOMAIN spec.constant_vars \cap (KzgSetups \cup {Crs}) :
         spec.constant_vars[n] = FromFile
=============================================================================
