------------------------ MODULE SpecParser_proofs ------------------------
(***************************************************************************)
(* What get_spec keeps of any document: a class is filed under its own     *)
(* name, a constant is a plain constant, a preset or a configuration       *)
(* value, never two of them, the trusted setups are replaced together, and *)
(* of several definitions of a name the last that is not skipped stays.    *)
(***************************************************************************)
EXTENDS SpecParser, FiniteSetTheorems, WellFoundedInduction, TLAPS

(* spec is a record with the ten dicts of a SpecObject. *)
IsSpecObject(s) ==
  s = [functions |-> s.functions, protocols |-> s.protocols,
       custom_types |-> s.custom_types, constant_vars |-> s.constant_vars,
       preset_vars |-> s.preset_vars, config_vars |-> s.config_vars,
       ssz_dep_constants |-> s.ssz_dep_constants, func_dep_presets |-> s.func_dep_presets,
       ssz_objects |-> s.ssz_objects, dataclasses |-> s.dataclasses]

(* Why a constant stays of one kind: the files decide it, and they do not change
   while a document is read. *)
KindsByFile(s) ==
  /\ DOMAIN s.preset_vars \subseteq DOMAIN Preset
  /\ DOMAIN s.config_vars \subseteq DOMAIN Config \ DOMAIN Preset
  /\ DOMAIN s.constant_vars \cap (DOMAIN Preset \cup DOMAIN Config) = {}
  /\ DOMAIN s.func_dep_presets \subseteq
       DOMAIN s.constant_vars \cup DOMAIN s.preset_vars \cup DOMAIN s.config_vars

OwnNames(s) == \A n \in DOMAIN s.ssz_objects : s.ssz_objects[n].name = n

IInv == IsSpecObject(spec) /\ KindsByFile(spec) /\ OwnNames(spec)

(* The initial object, and the one a row leaves behind. *)
LEMMA EmptyObject == IsSpecObject(SpecObject) /\ KindsByFile(SpecObject) /\ OwnNames(SpecObject)
BY DEF IsSpecObject, KindsByFile, OwnNames, SpecObject, Empty

LEMMA PutVariableKeeps ==
  ASSUME NEW s, NEW r, NEW t, IsSpecObject(s), KindsByFile(s), OwnNames(s),
         t = (IF r.tag = "predefined"
                THEN [s EXCEPT !.func_dep_presets = Put(@, r.name, r.source)] ELSE s)
  PROVE  /\ IsSpecObject(PutVariable(t, r))
         /\ KindsByFile(PutVariable(t, r))
         /\ OwnNames(PutVariable(t, r))
<1>1. /\ t.preset_vars = s.preset_vars /\ t.config_vars = s.config_vars
      /\ t.constant_vars = s.constant_vars /\ t.ssz_objects = s.ssz_objects
      /\ IsSpecObject(t)
      /\ DOMAIN t.func_dep_presets \subseteq DOMAIN s.func_dep_presets \cup {r.name}
  <2>1. CASE r.tag = "predefined"
    BY <2>1 DEF IsSpecObject, Put
  <2>2. CASE r.tag # "predefined"
    BY <2>2
  <2>. QED
    BY <2>1, <2>2
<1>2. CASE r.name \in DOMAIN Preset
  <2>1. PutVariable(t, r) = [t EXCEPT !.preset_vars = Put(t.preset_vars, r.name, Preset[r.name])]
    BY <1>2 DEF PutVariable
  <2>2. DOMAIN Put(t.preset_vars, r.name, Preset[r.name]) = DOMAIN t.preset_vars \cup {r.name}
    BY DEF Put
  <2>. QED
    BY <1>1, <1>2, <2>1, <2>2 DEF IsSpecObject, KindsByFile, OwnNames
<1>3. CASE r.name \notin DOMAIN Preset /\ r.name \in DOMAIN Config
  <2>1. PutVariable(t, r) = [t EXCEPT !.config_vars = Put(t.config_vars, r.name, Config[r.name])]
    BY <1>3 DEF PutVariable
  <2>2. DOMAIN Put(t.config_vars, r.name, Config[r.name]) = DOMAIN t.config_vars \cup {r.name}
    BY DEF Put
  <2>. QED
    BY <1>1, <1>3, <2>1, <2>2 DEF IsSpecObject, KindsByFile, OwnNames
<1>4. CASE r.name \notin DOMAIN Preset /\ r.name \notin DOMAIN Config
  <2>1. PutVariable(t, r) = [t EXCEPT !.constant_vars = Put(t.constant_vars, r.name, r.source)]
    BY <1>4 DEF PutVariable
  <2>2. DOMAIN Put(t.constant_vars, r.name, r.source) = DOMAIN t.constant_vars \cup {r.name}
    BY DEF Put
  <2>. QED
    BY <1>1, <1>4, <2>1, <2>2 DEF IsSpecObject, KindsByFile, OwnNames
<1>. QED
  BY <1>2, <1>3, <1>4

LEMMA RowKeeps == IInv /\ ReadRow => IInv'
<1> SUFFICES ASSUME IInv, ReadRow PROVE IInv'
  OBVIOUS
<1>. DEFINE r == Head(rows)
<1>1. CASE spec' = spec
  BY <1>1 DEF IInv
<1>2. CASE spec' = [spec EXCEPT !.custom_types = Put(@, r.name, r.source)]
  BY <1>2 DEF IInv, IsSpecObject, KindsByFile, OwnNames
<1>3. CASE spec' = [spec EXCEPT !.ssz_dep_constants = Put(@, r.name, r.source)]
  BY <1>3 DEF IInv, IsSpecObject, KindsByFile, OwnNames
<1>4. CASE spec' = PutVariable(IF r.tag = "predefined"
                                 THEN [spec EXCEPT !.func_dep_presets = Put(@, r.name, r.source)]
                                 ELSE spec, r)
  <2>. DEFINE t == IF r.tag = "predefined"
                     THEN [spec EXCEPT !.func_dep_presets = Put(@, r.name, r.source)] ELSE spec
  <2>1. spec' = PutVariable(t, r)
    BY <1>4
  <2>. HIDE DEF r
  <2>2. /\ IsSpecObject(PutVariable(t, r)) /\ KindsByFile(PutVariable(t, r))
        /\ OwnNames(PutVariable(t, r))
    BY PutVariableKeeps DEF IInv
  <2>. QED
    BY <2>1, <2>2 DEF IInv
<1>. QED
  BY <1>1, <1>2, <1>3, <1>4 DEF ReadRow

LEMMA ClassKeeps == IInv /\ ReadClass => IInv'
<1> SUFFICES ASSUME IInv, NEW e \in Elements,
                    IF ClassAccepted(e)
                      THEN spec' = [spec EXCEPT !.ssz_objects =
                             Put(@, current_name, [name |-> e.name, source |-> e.source])]
                      ELSE spec' = spec
             PROVE  IInv'
  BY DEF ReadClass, Raise
<1>1. CASE ~ClassAccepted(e)
  BY <1>1 DEF IInv
<1>2. CASE ClassAccepted(e)
  <2>. DEFINE d == Put(spec.ssz_objects, current_name, [name |-> e.name, source |-> e.source])
  <2>1. spec' = [spec EXCEPT !.ssz_objects = d]
    BY <1>2
  <2>2. \A n \in DOMAIN d : d[n].name = n
    <3>1. e.name = current_name
      BY <1>2 DEF ClassAccepted
    <3>2. DOMAIN d = DOMAIN spec.ssz_objects \cup {current_name}
      BY DEF Put
    <3>3. \A n \in DOMAIN d :
            d[n] = IF n = current_name THEN [name |-> e.name, source |-> e.source]
                   ELSE spec.ssz_objects[n]
      BY DEF Put
    <3>. QED
      BY <3>1, <3>2, <3>3 DEF IInv, OwnNames
  <2>. HIDE DEF d
  <2>. QED
    BY <2>1, <2>2 DEF IInv, IsSpecObject, KindsByFile, OwnNames
<1>. QED
  BY <1>1, <1>2

LEMMA FinishKeeps == IInv /\ Finish => IInv'
<1> SUFFICES ASSUME IInv, Finish PROVE IInv'
  OBVIOUS
<1>. DEFINE c == spec.constant_vars
            setups == IF DOMAIN c \cap KzgNames = {} THEN c ELSE WithSetups(c)
            final == IF Crs \in DOMAIN setups THEN Put(setups, Crs, FromFile) ELSE setups
<1>1. DOMAIN setups = DOMAIN c
  BY DEF WithSetups
<1>2. DOMAIN final = DOMAIN c
  BY <1>1 DEF Put
<1>3. spec' = spec \/ spec' = [spec EXCEPT !.constant_vars = final]
  BY DEF Finish
<1>. HIDE DEF final
<1>. QED
  BY <1>2, <1>3 DEF IInv, IsSpecObject, KindsByFile, OwnNames

LEMMA Inductive == Spec => []IInv
<1>1. Init => IInv
  BY EmptyObject DEF Init, IInv
<1>2. IInv /\ [Next]_vars => IInv'
  <2> SUFFICES ASSUME IInv, [Next]_vars PROVE IInv'
    OBVIOUS
  <2>1. CASE UNCHANGED spec
    BY <2>1 DEF IInv
  <2>2. CASE ReadFunction
    <3>1. (\E f : spec' = [spec EXCEPT !.functions = f])
            \/ (\E p : spec' = [spec EXCEPT !.protocols = p])
      BY <2>2, Zenon DEF ReadFunction
    <3>. QED
      BY <3>1 DEF IInv, IsSpecObject, KindsByFile, OwnNames
  <2>3. CASE ReadDataclass
    <3>1. \E d : spec' = [spec EXCEPT !.dataclasses = d]
      BY <2>3, Zenon DEF ReadDataclass
    <3>. QED
      BY <3>1 DEF IInv, IsSpecObject, KindsByFile, OwnNames
  <2>4. CASE ReadClass
    BY <2>4, ClassKeeps
  <2>5. CASE ReadRow
    BY <2>5, RowKeeps
  <2>6. CASE Finish
    BY <2>6, FinishKeeps
  <2>7. CASE ReadOtherCode
    BY <2>1, <2>7 DEF ReadOtherCode, Raise
  <2>. QED
    BY <2>1, <2>2, <2>3, <2>4, <2>5, <2>6, <2>7
       DEF Next, vars, ReadBlankLine, SkipElement, ReadHeading, ReadTable, ReadComment, ReadText
<1>. QED
  BY <1>1, <1>2, PTL DEF Spec

(* Whatever the documents and the files hold, no name is filed as two kinds of
   constant, and every predefined one can be looked up. *)
THEOREM ConstantsHaveOneKind == Spec => []OneKindPerConstant
<1>1. IInv => OneKindPerConstant
  BY DEF IInv, KindsByFile, OneKindPerConstant
<1>. QED
  BY <1>1, Inductive, PTL

(* Every SSZ class get_spec returns stands under its own name. *)
THEOREM ClassesKeepTheirNames == Spec => []ClassesUnderTheirOwnName
<1>1. IInv => ClassesUnderTheirOwnName
  BY DEF IInv, OwnNames, ClassesUnderTheirOwnName
<1>. QED
  BY <1>1, Inductive, PTL

(* The end of a document is the only step that makes it read, and it loads every
   table of the trusted setup the document has a placeholder for. *)
LEMMA FinishLoads ==
  ASSUME IsSpecObject(spec), Finish, pc' = "read"
  PROVE  /\ DOMAIN spec'.constant_vars \cap KzgNames # {}
              => KzgSetups \subseteq DOMAIN spec'.constant_vars
         /\ \A n \in DOMAIN spec'.constant_vars \cap (KzgSetups \cup {Crs}) :
              spec'.constant_vars[n] = FromFile
<1>. DEFINE c == spec.constant_vars
            kzg == DOMAIN c \cap KzgNames
            setups == IF kzg = {} THEN c ELSE WithSetups(c)
            final == IF Crs \in DOMAIN setups THEN Put(setups, Crs, FromFile) ELSE setups
<1>1. (kzg # {} => KzgSetups \subseteq kzg) /\ spec' = [spec EXCEPT !.constant_vars = final]
  BY DEF Finish
<1>2. DOMAIN setups = DOMAIN c /\ \A n \in DOMAIN c \cap KzgSetups : setups[n] = FromFile
  BY NamesAssumption DEF WithSetups
<1>3. DOMAIN final = DOMAIN c
  BY <1>2 DEF Put
<1>4. \A n \in DOMAIN c \cap (KzgSetups \cup {Crs}) : final[n] = FromFile
  BY <1>2 DEF Put
<1>5. spec'.constant_vars = final
  <2>. HIDE DEF final
  <2>. QED
    BY <1>1 DEF IsSpecObject
<1>. QED
  BY <1>1, <1>3, <1>4, <1>5

(* A document that was read and names any part of the trusted setup has the whole of the
   file's, and no placeholder beside a table that was loaded. *)
THEOREM SetupsComeTogether == Spec => []SetupsReplacedTogether
<1>1. Init => SetupsReplacedTogether
  BY DEF Init, SetupsReplacedTogether
<1>2. IInv /\ SetupsReplacedTogether /\ [Next]_vars => SetupsReplacedTogether'
  <2> SUFFICES ASSUME IInv, SetupsReplacedTogether, [Next]_vars PROVE SetupsReplacedTogether'
    OBVIOUS
  <2>1. CASE Finish
    BY <2>1, FinishLoads DEF IInv, SetupsReplacedTogether
  <2>2. CASE UNCHANGED vars
    BY <2>2 DEF vars, SetupsReplacedTogether
  <2>3. CASE Next /\ ~Finish
    <3>1. pc' # "read"
      BY <2>3 DEF Next, ReadBlankLine, SkipElement, ReadHeading, ReadFunction, ReadDataclass,
                  ReadClass, ReadOtherCode, ReadTable, ReadRow, ReadComment, ReadText, Take, Raise
    <3>. QED
      BY <3>1 DEF SetupsReplacedTogether
  <2>. QED
    BY <2>1, <2>2, <2>3
<1>. QED
  BY <1>1, <1>2, Inductive, PTL DEF Spec
--------------------------------------------------------------------------------
(* What a document says when it is read as a whole.  d is a document, i a position
   and hits a set of positions of it. *)
Skips(d, i) ==
  { h \in 1..(i - 1) : IsSkip(d[h]) /\ \A j \in h..(i - 1) : IsSkip(d[j]) \/ IsBlank(d[j]) }

HeardOf(d) == { i \in DOMAIN d : ~IsBlank(d[i]) /\ Cardinality(Skips(d, i)) % 2 = 0 }

Named(d, hits, n) == { i \in hits : d[i].name = n }

LatestOf(d, hits) ==
  [n \in { d[i].name : i \in hits } |-> d[Max(Named(d, hits, n))].source]

LEMMA LeastNumber ==
  ASSUME NEW T, T \subseteq Nat, T # {}
  PROVE  \E m \in T : \A k \in T : m <= k
<1>1. \E m \in T : \A k \in T : ~(<<k, m>> \in OpToRel(<, Nat))
  BY NatLessThanWellFounded, WFMin
<1>2. PICK m \in T : \A k \in T : ~(<<k, m>> \in OpToRel(<, Nat))
  BY <1>1
<1>3. \A k \in T : ~(k < m)
  BY <1>2 DEF OpToRel
<1>. QED
  BY <1>3

(* Of some positions of a document one is the last. *)
LEMMA LastPosition ==
  ASSUME NEW m \in Nat, NEW S \in SUBSET (1..m), S # {}
  PROVE  Max(S) \in S /\ \A i \in S : i <= Max(S)
<1>. DEFINE T == { m - i : i \in S }
<1>1. T \subseteq Nat /\ T # {}
  <2>1. PICK i \in S : TRUE
    OBVIOUS
  <2>2. m - i \in T
    OBVIOUS
  <2>3. \A k \in S : m - k \in Nat
    OBVIOUS
  <2>. QED
    BY <2>2, <2>3
<1>2. PICK t \in T : \A k \in T : t <= k
  <2>. HIDE DEF T
  <2>. QED
    BY <1>1, LeastNumber
<1>3. PICK x \in S : t = m - x
  BY <1>2
<1>4. ASSUME NEW y \in S PROVE x >= y
  <2>1. m - y \in T
    OBVIOUS
  <2>. QED
    BY <1>2, <1>3, <2>1
<1>. QED
  BY <1>4 DEF Max

(* One more element, at the end. *)
LEMMA Appended ==
  ASSUME NEW d \in Seq(Elements), NEW e \in Elements
  PROVE  /\ Len(d) \in Nat /\ DOMAIN d = 1..Len(d)
         /\ Append(d, e) \in Seq(Elements) /\ Len(Append(d, e)) = Len(d) + 1
         /\ DOMAIN Append(d, e) = 1..(Len(d) + 1)
         /\ \A i \in 1..Len(d) : Append(d, e)[i] = d[i]
         /\ Append(d, e)[Len(d) + 1] = e
  OBVIOUS

(* An element that is not among the hits changes nothing of what they say. *)
LEMMA LatestSame ==
  ASSUME NEW d \in Seq(Elements), NEW e \in Elements, NEW hits \in SUBSET DOMAIN d
  PROVE  LatestOf(Append(d, e), hits) = LatestOf(d, hits)
<1>. DEFINE x == Append(d, e)
<1>1. \A i \in hits : x[i] = d[i]
  BY Appended
<1>. HIDE DEF x
<1>2. { x[i].name : i \in hits } = { d[i].name : i \in hits }
  BY <1>1
<1>3. \A n : Named(x, hits, n) = Named(d, hits, n)
  BY <1>1 DEF Named
<1>4. ASSUME NEW n \in { d[i].name : i \in hits }
      PROVE  x[Max(Named(x, hits, n))].source = d[Max(Named(d, hits, n))].source
  <2>1. Named(d, hits, n) # {} /\ Named(d, hits, n) \in SUBSET hits
    BY DEF Named
  <2>2. Named(d, hits, n) \in SUBSET (1..Len(d)) /\ Len(d) \in Nat
    BY <2>1, Appended
  <2>3. Max(Named(d, hits, n)) \in hits
    BY <2>1, <2>2, LastPosition
  <2>. QED
    BY <1>1, <1>3, <2>3
<1>5. LatestOf(x, hits) = LatestOf(d, hits)
  BY <1>2, <1>4 DEF LatestOf
<1>. QED
  BY <1>5 DEF x

(* A definition that is heard replaces those of its name and leaves the others. *)
LEMMA LatestMore ==
  ASSUME NEW d \in Seq(Elements), NEW e \in Elements, NEW hits \in SUBSET DOMAIN d
  PROVE  LatestOf(Append(d, e), hits \cup {Len(d) + 1})
           = Put(LatestOf(d, hits), e.name, e.source)
<1>. DEFINE x == Append(d, e)
            last == Len(d) + 1
            more == hits \cup {last}
<1>1. /\ \A i \in hits : x[i] = d[i]
      /\ x[last] = e
      /\ last \in Nat /\ more \in SUBSET (1..last)
      /\ \A i \in hits : i \in Nat /\ i < last
  BY Appended
<1>. HIDE DEF x, last
<1>2. { x[i].name : i \in more } = { d[i].name : i \in hits } \cup {e.name}
  BY <1>1
<1>3. LatestOf(d, hits) = [n \in { d[i].name : i \in hits } |-> d[Max(Named(d, hits, n))].source]
  BY DEF LatestOf
<1>4. DOMAIN LatestOf(d, hits) = { d[i].name : i \in hits }
  BY <1>3
<1>5. ASSUME NEW n \in { d[i].name : i \in hits } \cup {e.name}
      PROVE  x[Max(Named(x, more, n))].source
               = IF n = e.name THEN e.source ELSE LatestOf(d, hits)[n]
  <2>1. CASE n = e.name
    <3>1. last \in Named(x, more, n)
      BY <1>1, <2>1 DEF Named
    <3>2. Named(x, more, n) \in SUBSET (1..last) /\ Named(x, more, n) # {}
      BY <1>1, <3>1 DEF Named
    <3>3. /\ Max(Named(x, more, n)) \in Named(x, more, n)
          /\ \A i \in Named(x, more, n) : i <= Max(Named(x, more, n))
      BY <1>1, <3>2, LastPosition
    <3>4. Max(Named(x, more, n)) = last
      <4>. DEFINE m == Max(Named(x, more, n))
      <4>. HIDE DEF m
      <4>1. m \in 1..last /\ last <= m
        BY <3>1, <3>2, <3>3 DEF m
      <4>2. m = last
        BY <1>1, <4>1
      <4>. QED
        BY <4>2 DEF m
    <3>5. x[Max(Named(x, more, n))] = e
      BY <1>1, <3>4
    <3>6. x[Max(Named(x, more, n))].source = e.source
      BY <3>5
    <3>7. (IF n = e.name THEN e.source ELSE LatestOf(d, hits)[n]) = e.source
      BY <2>1
    <3>. QED
      BY <3>6, <3>7
  <2>2. CASE n # e.name
    <3>1. Named(x, more, n) = Named(d, hits, n)
      BY <1>1, <2>2 DEF Named
    <3>2. Named(d, hits, n) # {} /\ Named(d, hits, n) \in SUBSET hits
      BY <2>2 DEF Named
    <3>3. Max(Named(d, hits, n)) \in Named(d, hits, n)
      <4>1. Named(d, hits, n) \in SUBSET (1..last)
        BY <1>1, <3>2
      <4>. QED
        BY <1>1, <3>2, <4>1, LastPosition
    <3>4. LatestOf(d, hits)[n] = d[Max(Named(d, hits, n))].source
      BY <1>3, <2>2
    <3>. QED
      BY <1>1, <2>2, <3>1, <3>2, <3>3, <3>4
  <2>. QED
    BY <2>1, <2>2
<1>6. LatestOf(x, more) = [n \in { d[i].name : i \in hits } \cup {e.name} |->
                             IF n = e.name THEN e.source ELSE LatestOf(d, hits)[n]]
  BY <1>2, <1>5 DEF LatestOf
<1>7. LatestOf(x, more) = Put(LatestOf(d, hits), e.name, e.source)
  BY <1>4, <1>6 DEF Put
<1>. QED
  BY <1>7 DEF x, last

(* Which elements are heard, one element later. *)
LEMMA SkipsSame ==
  ASSUME NEW d \in Seq(Elements), NEW e \in Elements, NEW i \in 1..(Len(d) + 1)
  PROVE  Skips(Append(d, e), i) = Skips(d, i)
<1>1. \A j \in 1..(i - 1) : Append(d, e)[j] = d[j] /\ j \in Int
  BY Appended
<1>2. \A h \in 1..(i - 1) : \A j \in h..(i - 1) : Append(d, e)[j] = d[j]
  BY <1>1, Appended
<1>. QED
  BY <1>1, <1>2 DEF Skips

(* A skip comment joins those before it, a blank line leaves them, another element
   ends their row. *)
LEMMA SkipsNext ==
  ASSUME NEW d \in Seq(Elements), NEW e \in Elements
  PROVE  Skips(Append(d, e), Len(d) + 2)
           = IF IsSkip(e) THEN Skips(d, Len(d) + 1) \cup {Len(d) + 1}
             ELSE IF IsBlank(e) THEN Skips(d, Len(d) + 1) ELSE {}
<1>. DEFINE x == Append(d, e)
            last == Len(d) + 1
<1>1. /\ \A i \in 1..(last - 1) : x[i] = d[i]
      /\ x[last] = e
      /\ last \in Nat /\ last >= 1 /\ Len(d) + 2 = last + 1
  BY Appended
<1>. HIDE DEF x, last
<1>2. ASSUME NEW h
      PROVE  h \in Skips(x, last + 1) <=>
               h \in IF IsSkip(e) THEN Skips(d, last) \cup {last}
                     ELSE IF IsBlank(e) THEN Skips(d, last) ELSE {}
  <2>1. CASE h = last
    <3>1. h \in Skips(x, last + 1) <=> IsSkip(e)
      BY <1>1, <2>1 DEF Skips
    <3>2. h \notin Skips(d, last)
      BY <1>1, <2>1 DEF Skips
    <3>. QED
      BY <2>1, <3>1, <3>2
  <2>2. CASE h # last
    <3>1. h \in Skips(x, last + 1) <=>
            /\ h \in 1..(last - 1) /\ IsSkip(x[h])
            /\ \A j \in h..last : IsSkip(x[j]) \/ IsBlank(x[j])
      BY <1>1, <2>2 DEF Skips
    <3>2. h \in Skips(d, last) <=>
            /\ h \in 1..(last - 1) /\ IsSkip(d[h])
            /\ \A j \in h..(last - 1) : IsSkip(d[j]) \/ IsBlank(d[j])
      BY DEF Skips
    <3>3. ASSUME h \in 1..(last - 1)
          PROVE  /\ x[h] = d[h]
                 /\ (\A j \in h..last : IsSkip(x[j]) \/ IsBlank(x[j])) <=>
                      /\ \A j \in h..(last - 1) : IsSkip(d[j]) \/ IsBlank(d[j])
                      /\ IsSkip(e) \/ IsBlank(e)
      <4>1. \A j \in h..(last - 1) : x[j] = d[j]
        BY <1>1, <3>3
      <4>2. \A j : j \in h..last <=> j \in h..(last - 1) \/ j = last
        BY <1>1, <3>3
      <4>. QED
        BY <1>1, <3>3, <4>1, <4>2
    <3>4. h \in Skips(x, last + 1) <=> h \in Skips(d, last) /\ (IsSkip(e) \/ IsBlank(e))
      BY <3>1, <3>2, <3>3
    <3>. QED
      BY <2>2, <3>4
  <2>. QED
    BY <2>1, <2>2
<1>3. Skips(x, last + 1) = IF IsSkip(e) THEN Skips(d, last) \cup {last}
                           ELSE IF IsBlank(e) THEN Skips(d, last) ELSE {}
  BY <1>2
<1>4. Skips(x, Len(d) + 2) = Skips(x, last + 1)
  BY <1>1
<1>. QED
  BY <1>3, <1>4 DEF x, last

LEMMA HeardGrows ==
  ASSUME NEW d \in Seq(Elements), NEW e \in Elements
  PROVE  HeardOf(Append(d, e))
           = HeardOf(d) \cup
             { i \in {Len(d) + 1} :
                 ~IsBlank(e) /\ Cardinality(Skips(d, Len(d) + 1)) % 2 = 0 }
<1>. DEFINE x == Append(d, e)
            last == Len(d) + 1
<1>1. /\ \A i \in 1..Len(d) : x[i] = d[i]
      /\ x[last] = e
      /\ DOMAIN d = 1..Len(d) /\ DOMAIN x = 1..last /\ Len(d) \in Nat
  BY Appended
<1>2. \A i \in 1..last : Skips(x, i) = Skips(d, i)
  BY SkipsSame
<1>3. \A i : i \in 1..last <=> i \in 1..Len(d) \/ i = last
  BY <1>1
<1>4. last \notin 1..Len(d)
  BY <1>1
<1>. HIDE DEF x, last
<1>5. HeardOf(x) = HeardOf(d) \cup
                     { i \in {last} : ~IsBlank(e) /\ Cardinality(Skips(d, last)) % 2 = 0 }
  BY <1>1, <1>2, <1>3, <1>4 DEF HeardOf
<1>. QED
  BY <1>5 DEF x, last

(* The flag of get_spec says how many skip comments stand before what comes next. *)
Reading(d, skip) ==
  /\ d \in Seq(Elements) /\ skip \in BOOLEAN
  /\ skip <=> Cardinality(Skips(d, Len(d) + 1)) % 2 = 1

(* How many there are, which is all the flag has to know. *)
LEMMA SkipsCount ==
  ASSUME NEW d \in Seq(Elements), NEW e \in Elements
  PROVE  LET before == Cardinality(Skips(d, Len(d) + 1))
             after == Cardinality(Skips(Append(d, e), Len(d) + 2))
         IN /\ before \in Nat
            /\ IsSkip(e) => after = before + 1
            /\ IsBlank(e) => after = before
            /\ ~IsSkip(e) /\ ~IsBlank(e) => after = 0
<1>. DEFINE S == Skips(d, Len(d) + 1)
<1>1. Len(d) \in Nat /\ S \in SUBSET (1..Len(d)) /\ Len(d) + 1 \notin S
  <2>1. Len(d) \in Nat /\ (Len(d) + 1) - 1 = Len(d)
    BY Appended
  <2>. QED
    BY <2>1 DEF Skips
<1>. HIDE DEF S
<1>2. IsFiniteSet(S)
  <2>1. IsFiniteSet(1..Len(d))
    BY <1>1, FS_Interval
  <2>. QED
    BY <1>1, <2>1, FS_Subset
<1>3. Cardinality(S) \in Nat
  BY <1>2, FS_CardinalityType
<1>4. Cardinality(S \cup {Len(d) + 1}) = Cardinality(S) + 1
  BY <1>1, <1>2, FS_AddElement
<1>5. Cardinality({}) = 0
  BY FS_EmptySet
<1>6. Skips(Append(d, e), Len(d) + 2)
        = IF IsSkip(e) THEN S \cup {Len(d) + 1} ELSE IF IsBlank(e) THEN S ELSE {}
  BY SkipsNext DEF S
<1>7. IsBlank(e) => ~IsSkip(e)
  BY DEF IsBlank, IsSkip
<1>. QED
  BY <1>3, <1>4, <1>5, <1>6, <1>7 DEF S

(* The flag is toggled by a skip comment and cleared by another element, and what it
   does not hide is heard. *)
LEMMA ReadOn ==
  ASSUME NEW d, NEW skip, Reading(d, skip), NEW e \in Elements
  PROVE  /\ IsBlank(e) => Reading(Append(d, e), skip)
         /\ ~IsBlank(e) => Reading(Append(d, e), ~skip /\ IsSkip(e))
         /\ HeardOf(Append(d, e))
              = HeardOf(d) \cup { i \in {Len(d) + 1} : ~IsBlank(e) /\ ~skip }
<1>. DEFINE before == Cardinality(Skips(d, Len(d) + 1))
            x == Append(d, e)
            after == Cardinality(Skips(x, Len(d) + 2))
<1>1. d \in Seq(Elements) /\ skip \in BOOLEAN /\ (skip <=> before % 2 = 1)
  BY DEF Reading
<1>2. /\ before \in Nat
      /\ IsSkip(e) => after = before + 1
      /\ IsBlank(e) => after = before
      /\ ~IsSkip(e) /\ ~IsBlank(e) => after = 0
  BY <1>1, SkipsCount
<1>3. x \in Seq(Elements) /\ Len(x) + 1 = Len(d) + 2
  BY <1>1, Appended
<1>4. HeardOf(x) = HeardOf(d) \cup { i \in {Len(d) + 1} : ~IsBlank(e) /\ before % 2 = 0 }
  BY <1>1, HeardGrows
<1>5. ASSUME NEW s \in BOOLEAN, s <=> after % 2 = 1 PROVE Reading(x, s)
  BY <1>3, <1>5 DEF Reading
<1>6. /\ IsBlank(e) => ~IsSkip(e)
      /\ IsSkip(e) \in BOOLEAN
  BY DEF IsBlank, IsSkip
<1>. HIDE DEF before, x, after
<1>7. before % 2 = 0 <=> ~skip
  BY <1>1, <1>2
<1>8. IsSkip(e) => (after % 2 = 1 <=> ~skip)
  BY <1>1, <1>2
<1>9. IsBlank(e) => Reading(x, skip)
  BY <1>1, <1>2, <1>5
<1>10. ~IsBlank(e) => Reading(x, ~skip /\ IsSkip(e))
  <2> SUFFICES ASSUME ~IsBlank(e) PROVE Reading(x, ~skip /\ IsSkip(e))
    OBVIOUS
  <2>1. (~skip /\ IsSkip(e)) <=> after % 2 = 1
    <3>1. ~IsSkip(e) => after % 2 = 0
      BY <1>2
    <3>. QED
      BY <1>1, <1>8, <3>1
  <2>. QED
    BY <1>5, <2>1
<1>11. HeardOf(x) = HeardOf(d) \cup { i \in {Len(d) + 1} : ~IsBlank(e) /\ ~skip }
  BY <1>4, <1>7
<1>. QED
  BY <1>9, <1>10, <1>11 DEF x

(* What get_spec has filed is what the document says up to here. *)
Functions(d) == { i \in HeardOf(d) : d[i].kind = "def" /\ d[i].self = NoName }
Classes(d) == { i \in HeardOf(d) : d[i].kind = "class" }
Methods(d, p) == { i \in HeardOf(d) : d[i].kind = "def" /\ d[i].self = p }
AllMethods(d) == { i \in HeardOf(d) : d[i].kind = "def" /\ d[i].self # NoName }

Protocols(d) == [p \in { d[i].self : i \in AllMethods(d) } |-> LatestOf(d, Methods(d, p))]
Sources(classes) == [n \in DOMAIN classes |-> classes[n].source]

AsRead(d, s) ==
  /\ s.functions = LatestOf(d, Functions(d))
  /\ Sources(s.ssz_objects) = LatestOf(d, Classes(d))
  /\ s.protocols = Protocols(d)

(* The property, in these terms. *)
LEMMA WinsAsRead ==
  LatestDefinitionWins <=> (pc # "failed" => AsRead(document, spec))
<1>1. Heard = HeardOf(document)
  BY DEF Heard, HeardOf, SkipsBefore, Skips
<1>2. Latest(LAMBDA e : e.kind = "def" /\ e.self = NoName)
        = LatestOf(document, Functions(document))
  BY <1>1 DEF Latest, LatestOf, Named, Functions
<1>3. Latest(LAMBDA e : e.kind = "class") = LatestOf(document, Classes(document))
  BY <1>1 DEF Latest, LatestOf, Named, Classes
<1>4. \A p : Latest(LAMBDA e : e.kind = "def" /\ e.self = p)
               = LatestOf(document, Methods(document, p))
  BY <1>1 DEF Latest, LatestOf, Named, Methods
<1>. QED
  BY <1>1, <1>2, <1>3, <1>4 DEF LatestDefinitionWins, AsRead, Protocols, Sources, AllMethods

(* A step that hears nothing new, or what is no definition. *)
LEMMA NothingFiled ==
  ASSUME NEW d, NEW skip, Reading(d, skip), NEW e \in Elements, NEW s, AsRead(d, s), NEW t,
         t.functions = s.functions, t.ssz_objects = s.ssz_objects, t.protocols = s.protocols,
         IsBlank(e) \/ skip \/ e.kind \notin {"def", "class"}
  PROVE  AsRead(Append(d, e), t)
<1>. DEFINE x == Append(d, e)
<1>1. d \in Seq(Elements)
  BY DEF Reading
<1>2. HeardOf(x) = HeardOf(d) \cup { i \in {Len(d) + 1} : ~IsBlank(e) /\ ~skip }
  BY ReadOn
<1>3. /\ \A i \in HeardOf(d) : i \in DOMAIN d /\ x[i] = d[i]
      /\ x[Len(d) + 1] = e
  BY <1>1, Appended DEF HeardOf
<1>. HIDE DEF x
<1>4. /\ Functions(x) = Functions(d) /\ Classes(x) = Classes(d)
      /\ AllMethods(x) = AllMethods(d)
  BY <1>2, <1>3 DEF Functions, Classes, AllMethods
<1>5. ASSUME NEW p PROVE Methods(x, p) = Methods(d, p)
  BY <1>2, <1>3 DEF Methods
<1>6. Functions(d) \in SUBSET DOMAIN d /\ Classes(d) \in SUBSET DOMAIN d
      /\ \A p : Methods(d, p) \in SUBSET DOMAIN d
  BY <1>3 DEF Functions, Classes, Methods
<1>7. /\ LatestOf(x, Functions(x)) = LatestOf(d, Functions(d))
      /\ LatestOf(x, Classes(x)) = LatestOf(d, Classes(d))
      /\ \A p : LatestOf(x, Methods(x, p)) = LatestOf(d, Methods(d, p))
  BY <1>1, <1>4, <1>5, <1>6, LatestSame DEF x
<1>8. { x[i].self : i \in AllMethods(x) } = { d[i].self : i \in AllMethods(d) }
  BY <1>3, <1>4 DEF AllMethods
<1>9. Protocols(x) = Protocols(d)
  BY <1>7, <1>8 DEF Protocols
<1>10. AsRead(x, t)
  BY <1>7, <1>9 DEF AsRead
<1>. QED
  BY <1>10 DEF x

(* A definition that is heard. *)
LEMMA Filed ==
  ASSUME NEW d, NEW skip, Reading(d, skip), ~skip, NEW e \in Elements, ~IsBlank(e)
  PROVE  LET x == Append(d, e)
             last == Len(d) + 1
         IN /\ Functions(x) = IF e.kind = "def" /\ e.self = NoName
                                THEN Functions(d) \cup {last} ELSE Functions(d)
            /\ Classes(x) = IF e.kind = "class" THEN Classes(d) \cup {last} ELSE Classes(d)
            /\ AllMethods(x) = IF e.kind = "def" /\ e.self # NoName
                                 THEN AllMethods(d) \cup {last} ELSE AllMethods(d)
            /\ \A p : Methods(x, p) = IF e.kind = "def" /\ e.self = p
                                        THEN Methods(d, p) \cup {last} ELSE Methods(d, p)
            /\ Functions(d) \in SUBSET DOMAIN d /\ Classes(d) \in SUBSET DOMAIN d
            /\ AllMethods(d) \in SUBSET DOMAIN d
            /\ \A p : Methods(d, p) \in SUBSET DOMAIN d
            /\ { x[i].self : i \in AllMethods(x) }
                 = { d[i].self : i \in AllMethods(d) }
                     \cup (IF e.kind = "def" /\ e.self # NoName THEN {e.self} ELSE {})
<1>. DEFINE x == Append(d, e)
            last == Len(d) + 1
<1>1. d \in Seq(Elements)
  BY DEF Reading
<1>2. HeardOf(x) = HeardOf(d) \cup {last}
  <2>1. { i \in {last} : ~IsBlank(e) /\ ~skip } = {last}
    OBVIOUS
  <2>. QED
    BY <2>1, ReadOn
<1>3. /\ \A i \in HeardOf(d) : i \in DOMAIN d /\ x[i] = d[i]
      /\ x[last] = e
  BY <1>1, Appended DEF HeardOf
<1>. HIDE DEF x, last
<1>4. Functions(x) = IF e.kind = "def" /\ e.self = NoName
                       THEN Functions(d) \cup {last} ELSE Functions(d)
  BY <1>2, <1>3 DEF Functions
<1>5. Classes(x) = IF e.kind = "class" THEN Classes(d) \cup {last} ELSE Classes(d)
  BY <1>2, <1>3 DEF Classes
<1>6. AllMethods(x) = IF e.kind = "def" /\ e.self # NoName
                        THEN AllMethods(d) \cup {last} ELSE AllMethods(d)
  BY <1>2, <1>3 DEF AllMethods
<1>7. ASSUME NEW p
      PROVE  Methods(x, p) = IF e.kind = "def" /\ e.self = p
                               THEN Methods(d, p) \cup {last} ELSE Methods(d, p)
  BY <1>2, <1>3 DEF Methods
<1>8. /\ Functions(d) \in SUBSET DOMAIN d /\ Classes(d) \in SUBSET DOMAIN d
      /\ AllMethods(d) \in SUBSET DOMAIN d
      /\ \A p : Methods(d, p) \in SUBSET DOMAIN d
      /\ \A i \in AllMethods(d) : i \in HeardOf(d)
  BY <1>3 DEF Functions, Classes, Methods, AllMethods
<1>9. { x[i].self : i \in AllMethods(x) }
        = { d[i].self : i \in AllMethods(d) }
            \cup (IF e.kind = "def" /\ e.self # NoName THEN {e.self} ELSE {})
  BY <1>3, <1>6, <1>8
<1>. QED
  BY <1>4, <1>5, <1>6, <1>7, <1>8, <1>9 DEF x, last

(* The dict entries of a function, a class and a method: t is s with one put. *)
PutsFunction(s, e, t) ==
  /\ t.functions = Put(s.functions, e.name, e.source)
  /\ t.ssz_objects = s.ssz_objects /\ t.protocols = s.protocols

PutsClass(s, e, t) ==
  /\ t.ssz_objects = Put(s.ssz_objects, e.name, [name |-> e.name, source |-> e.source])
  /\ t.functions = s.functions /\ t.protocols = s.protocols

PutsMethod(s, e, t) ==
  LET old == IF e.self \in DOMAIN s.protocols THEN s.protocols[e.self] ELSE Empty
  IN /\ t.protocols = Put(s.protocols, e.self, Put(old, e.name, e.source))
     /\ t.ssz_objects = s.ssz_objects /\ t.functions = s.functions

(* A function. *)
LEMMA FunctionFiled ==
  ASSUME NEW d, NEW skip, Reading(d, skip), ~skip, NEW s, AsRead(d, s), NEW t,
         NEW e \in Elements, e.kind = "def", e.self = NoName, PutsFunction(s, e, t)
  PROVE  AsRead(Append(d, e), t)
<1>. DEFINE x == Append(d, e)
            last == Len(d) + 1
<1>1. d \in Seq(Elements) /\ ~IsBlank(e)
  BY DEF Reading, IsBlank
<1>2. /\ Functions(x) = Functions(d) \cup {last}
      /\ Classes(x) = Classes(d) /\ AllMethods(x) = AllMethods(d)
      /\ \A p : p # NoName => Methods(x, p) = Methods(d, p)
      /\ Functions(d) \in SUBSET DOMAIN d /\ Classes(d) \in SUBSET DOMAIN d
      /\ \A p : Methods(d, p) \in SUBSET DOMAIN d
      /\ { x[i].self : i \in AllMethods(x) } = { d[i].self : i \in AllMethods(d) }
  BY <1>1, Filed
<1>3. LatestOf(x, Functions(x)) = Put(LatestOf(d, Functions(d)), e.name, e.source)
  BY <1>1, <1>2, LatestMore
<1>4. LatestOf(x, Classes(x)) = LatestOf(d, Classes(d))
  BY <1>1, <1>2, LatestSame
<1>5. ASSUME NEW p, p # NoName PROVE LatestOf(x, Methods(x, p)) = LatestOf(d, Methods(d, p))
  BY <1>1, <1>2, <1>5, LatestSame
<1>6. NoName \notin { d[i].self : i \in AllMethods(d) }
  BY DEF AllMethods
<1>. HIDE DEF x, last
<1>7. Protocols(x) = Protocols(d)
  BY <1>2, <1>5, <1>6 DEF Protocols
<1>8. AsRead(x, t)
  BY <1>3, <1>4, <1>7 DEF AsRead, PutsFunction
<1>. QED
  BY <1>8 DEF x

(* A class is filed under its name with the name it calls itself. *)
LEMMA ClassFiled ==
  ASSUME NEW d, NEW skip, Reading(d, skip), ~skip, NEW s, AsRead(d, s), NEW t,
         NEW e \in Elements, e.kind = "class", PutsClass(s, e, t)
  PROVE  AsRead(Append(d, e), t)
<1>. DEFINE x == Append(d, e)
            last == Len(d) + 1
<1>1. d \in Seq(Elements) /\ ~IsBlank(e) /\ e.kind # "def"
  BY DEF Reading, IsBlank
<1>2. /\ Functions(x) = Functions(d)
      /\ Classes(x) = Classes(d) \cup {last} /\ AllMethods(x) = AllMethods(d)
      /\ \A p : Methods(x, p) = Methods(d, p)
      /\ Functions(d) \in SUBSET DOMAIN d /\ Classes(d) \in SUBSET DOMAIN d
      /\ \A p : Methods(d, p) \in SUBSET DOMAIN d
      /\ { x[i].self : i \in AllMethods(x) } = { d[i].self : i \in AllMethods(d) }
  BY <1>1, Filed
<1>3. LatestOf(x, Classes(x)) = Put(LatestOf(d, Classes(d)), e.name, e.source)
  BY <1>1, <1>2, LatestMore
<1>4. LatestOf(x, Functions(x)) = LatestOf(d, Functions(d))
  BY <1>1, <1>2, LatestSame
<1>5. ASSUME NEW p PROVE LatestOf(x, Methods(x, p)) = LatestOf(d, Methods(d, p))
  BY <1>1, <1>2, LatestSame
<1>. HIDE DEF x, last
<1>6. Protocols(x) = Protocols(d)
  BY <1>2, <1>5 DEF Protocols
<1>7. Sources(t.ssz_objects) = Put(Sources(s.ssz_objects), e.name, e.source)
  <2>. DEFINE file == [name |-> e.name, source |-> e.source]
              a == s.ssz_objects
              b == Put(a, e.name, file)
  <2>1. DOMAIN b = DOMAIN a \cup {e.name}
    BY DEF Put
  <2>2. \A n \in DOMAIN b : b[n] = IF n = e.name THEN file ELSE a[n]
    BY <2>1 DEF Put
  <2>3. file.source = e.source
    OBVIOUS
  <2>4. DOMAIN Sources(a) = DOMAIN a /\ \A n \in DOMAIN a : Sources(a)[n] = a[n].source
    BY DEF Sources
  <2>. HIDE DEF a, b, file
  <2>5. Sources(b) = Put(Sources(a), e.name, e.source)
    BY <2>1, <2>2, <2>3, <2>4 DEF Sources, Put
  <2>. QED
    BY <2>5 DEF a, b, file, PutsClass
<1>8. AsRead(x, t)
  BY <1>3, <1>4, <1>6, <1>7 DEF AsRead, PutsClass
<1>. QED
  BY <1>8 DEF x

MethodTaken(d, e) ==
  LET x == Append(d, e)
      last == Len(d) + 1
  IN /\ Functions(x) = Functions(d) /\ Classes(x) = Classes(d)
     /\ Methods(x, e.self) = Methods(d, e.self) \cup {last}
     /\ \A p : p # e.self => Methods(x, p) = Methods(d, p)
     /\ Functions(d) \in SUBSET DOMAIN d /\ Classes(d) \in SUBSET DOMAIN d
     /\ \A p : Methods(d, p) \in SUBSET DOMAIN d
     /\ { x[i].self : i \in AllMethods(x) } = { d[i].self : i \in AllMethods(d) } \cup {e.self}

LEMMA MethodHits ==
  ASSUME NEW d, NEW skip, Reading(d, skip), ~skip,
         NEW e \in Elements, ~IsBlank(e), e.kind = "def", e.self # NoName
  PROVE  MethodTaken(d, e)
BY Filed DEF MethodTaken

(* A method joins those of its protocol, or starts a new one. *)
LEMMA MethodFiled ==
  ASSUME NEW d, NEW skip, Reading(d, skip), ~skip, NEW s, AsRead(d, s), NEW t,
         NEW e \in Elements, e.kind = "def", e.self # NoName, PutsMethod(s, e, t)
  PROVE  AsRead(Append(d, e), t)
<1>. DEFINE x == Append(d, e)
            last == Len(d) + 1
            names == { d[i].self : i \in AllMethods(d) }
<1>1. d \in Seq(Elements) /\ ~IsBlank(e) /\ e.kind # "class"
  BY DEF Reading, IsBlank
<1>2. /\ Functions(x) = Functions(d) /\ Classes(x) = Classes(d)
      /\ Methods(x, e.self) = Methods(d, e.self) \cup {last}
      /\ \A p : p # e.self => Methods(x, p) = Methods(d, p)
      /\ Functions(d) \in SUBSET DOMAIN d /\ Classes(d) \in SUBSET DOMAIN d
      /\ \A p : Methods(d, p) \in SUBSET DOMAIN d
      /\ { x[i].self : i \in AllMethods(x) } = { d[i].self : i \in AllMethods(d) } \cup {e.self}
  <2>1. MethodTaken(d, e)
    BY <1>1, MethodHits
  <2>. QED
    BY <2>1 DEF MethodTaken
<1>3. LatestOf(x, Classes(x)) = LatestOf(d, Classes(d))
      /\ LatestOf(x, Functions(x)) = LatestOf(d, Functions(d))
  BY <1>1, <1>2, LatestSame
<1>4. LatestOf(x, Methods(x, e.self)) = Put(LatestOf(d, Methods(d, e.self)), e.name, e.source)
  BY <1>1, <1>2, LatestMore
<1>5. ASSUME NEW p, p # e.self PROVE LatestOf(x, Methods(x, p)) = LatestOf(d, Methods(d, p))
  BY <1>1, <1>2, <1>5, LatestSame
<1>6. LatestOf(d, Methods(d, e.self))
        = IF e.self \in names THEN s.protocols[e.self] ELSE Empty
  <2>1. CASE e.self \in names
    BY <2>1 DEF AsRead, Protocols
  <2>2. CASE e.self \notin names
    <3>1. Methods(d, e.self) = {}
      BY <2>2 DEF Methods, AllMethods
    <3>2. LatestOf(d, {}) = Empty
      BY DEF LatestOf, Empty
    <3>. QED
      BY <2>2, <3>1, <3>2
  <2>. QED
    BY <2>1, <2>2
<1>7. DOMAIN s.protocols = names /\ \A p \in names : s.protocols[p] = LatestOf(d, Methods(d, p))
  BY DEF AsRead, Protocols
<1>. HIDE DEF x, last, names
<1>8. t.protocols = Put(s.protocols, e.self, LatestOf(x, Methods(x, e.self)))
  BY <1>4, <1>6, <1>7 DEF PutsMethod
<1>9. Protocols(x) = [p \in names \cup {e.self} |-> LatestOf(x, Methods(x, p))]
  BY <1>2 DEF Protocols, names
<1>10. Protocols(x) = t.protocols
  BY <1>5, <1>7, <1>8, <1>9 DEF Put
<1>11. AsRead(x, t)
  BY <1>3, <1>10 DEF AsRead, PutsMethod
<1>. QED
  BY <1>11 DEF x

LEMMA IsReading ==
  ASSUME NEW d \in Seq(Elements), NEW skip \in BOOLEAN,
         skip <=> Cardinality(Skips(d, Len(d) + 1)) % 2 = 1
  PROVE  Reading(d, skip)
BY DEF Reading

DocumentInv == pc # "failed" => Reading(document, should_skip) /\ AsRead(document, spec)

LEMMA DocumentInitial == Init => DocumentInv
<1> SUFFICES ASSUME Init PROVE Reading(document, should_skip) /\ AsRead(document, spec)
  BY DEF DocumentInv
<1>1. document = << >> /\ should_skip = FALSE /\ spec = SpecObject
  BY DEF Init
<1>2. document \in Seq(Elements) /\ Len(document) = 0 /\ DOMAIN document = {}
  BY <1>1
<1>3. Skips(document, Len(document) + 1) = {}
  BY <1>2 DEF Skips
<1>4. Cardinality({}) = 0
  BY FS_EmptySet
<1>5. Reading(document, should_skip)
  <2>. DEFINE n == Cardinality(Skips(document, Len(document) + 1))
  <2>5. n = 0
    BY <1>3, <1>4
  <2>. HIDE DEF n
  <2>1. n % 2 = 0
    BY <2>5
  <2>2. should_skip \in BOOLEAN /\ ~should_skip
    BY <1>1
  <2>3. n % 2 # 1
    BY <2>1
  <2>4. should_skip <=> n % 2 = 1
    BY <2>2, <2>3
  <2>. QED
    BY <1>2, <2>2, <2>4, IsReading DEF n
<1>6. HeardOf(document) = {}
  BY <1>2 DEF HeardOf
<1>7. /\ Functions(document) = {} /\ Classes(document) = {} /\ AllMethods(document) = {}
  BY <1>6 DEF Functions, Classes, AllMethods
<1>8. LatestOf(document, {}) = Empty
  BY DEF LatestOf, Empty
<1>9. Protocols(document) = Empty
  BY <1>7 DEF Protocols, Empty
<1>10. /\ spec.functions = Empty /\ spec.ssz_objects = Empty /\ spec.protocols = Empty
  BY <1>1 DEF SpecObject
<1>11. Sources(Empty) = Empty
  BY DEF Sources, Empty
<1>. QED
  BY <1>5, <1>7, <1>8, <1>9, <1>10, <1>11 DEF AsRead

(* The rows of a table touch none of the three dicts. *)
LEMMA RowFilesNothing ==
  ASSUME IsSpecObject(spec), ReadRow
  PROVE  /\ spec'.functions = spec.functions /\ spec'.ssz_objects = spec.ssz_objects
         /\ spec'.protocols = spec.protocols
<1>. DEFINE r == Head(rows)
            t == IF r.tag = "predefined"
                   THEN [spec EXCEPT !.func_dep_presets = Put(@, r.name, r.source)] ELSE spec
<1>1. \/ spec' = spec
      \/ spec' = [spec EXCEPT !.custom_types = Put(@, r.name, r.source)]
      \/ spec' = [spec EXCEPT !.ssz_dep_constants = Put(@, r.name, r.source)]
      \/ spec' = PutVariable(t, r)
  BY DEF ReadRow
<1>2. /\ t.functions = spec.functions /\ t.ssz_objects = spec.ssz_objects
      /\ t.protocols = spec.protocols /\ IsSpecObject(t)
  <2>. HIDE DEF r
  <2>. QED
    BY DEF IsSpecObject
<1>. HIDE DEF t, r
<1>3. \/ \E v : PutVariable(t, r) = [t EXCEPT !.preset_vars = v]
      \/ \E v : PutVariable(t, r) = [t EXCEPT !.config_vars = v]
      \/ \E v : PutVariable(t, r) = [t EXCEPT !.constant_vars = v]
  BY DEF PutVariable
<1>4. /\ PutVariable(t, r).functions = t.functions
      /\ PutVariable(t, r).ssz_objects = t.ssz_objects
      /\ PutVariable(t, r).protocols = t.protocols
  BY <1>2, <1>3 DEF IsSpecObject
<1>. QED
  BY <1>1, <1>2, <1>4 DEF IsSpecObject

(* What was filed so far stays the reading of the document so far. *)
LEMMA DocumentStep ==
  ASSUME IsSpecObject(spec), DocumentInv, [Next]_vars
  PROVE  DocumentInv'
<1> SUFFICES ASSUME pc' # "failed" PROVE Reading(document', should_skip') /\ AsRead(document', spec')
  BY DEF DocumentInv
<1>1. ASSUME NEW e \in Elements, pc = "reading", document' = Append(document, e),
             spec' = spec, should_skip' = (~should_skip /\ IsSkip(e)), ~IsBlank(e),
             should_skip \/ e.kind \notin {"def", "class"}
      PROVE  Reading(document', should_skip') /\ AsRead(document', spec')
  <2>1. Reading(document, should_skip) /\ AsRead(document, spec)
    BY <1>1 DEF DocumentInv
  <2>. QED
    BY <1>1, <2>1, ReadOn, NothingFiled
<1>2. ASSUME NEW e \in Elements, Take(e), should_skip' = IsSkip(e), ~IsBlank(e)
      PROVE  /\ Reading(document, should_skip) /\ AsRead(document, spec)
             /\ ~should_skip /\ document' = Append(document, e) /\ Reading(document', should_skip')
  <2>1. Reading(document, should_skip) /\ AsRead(document, spec) /\ ~should_skip
        /\ document' = Append(document, e)
    BY <1>2 DEF DocumentInv, Take
  <2>2. Reading(Append(document, e), ~should_skip /\ IsSkip(e))
    BY <1>2, <2>1, ReadOn
  <2>3. (~should_skip /\ IsSkip(e)) = should_skip'
    BY <1>2, <2>1 DEF IsSkip
  <2>. QED
    BY <2>1, <2>2, <2>3
<1>3. CASE ReadBlankLine
  <2>1. PICK e \in Elements : IsBlank(e) /\ document' = Append(document, e)
    BY <1>3 DEF ReadBlankLine, IsBlank
  <2>2. pc = "reading" /\ spec' = spec /\ should_skip' = should_skip
    BY <1>3 DEF ReadBlankLine
  <2>3. Reading(document, should_skip) /\ AsRead(document, spec)
    BY <2>2 DEF DocumentInv
  <2>. QED
    BY <2>1, <2>2, <2>3, ReadOn, NothingFiled
<1>4. CASE SkipElement
  <2>1. PICK e \in Elements : ~IsBlank(e) /\ document' = Append(document, e)
    BY <1>4 DEF SkipElement, IsBlank
  <2>2. pc = "reading" /\ spec' = spec /\ should_skip /\ should_skip' = FALSE
    BY <1>4 DEF SkipElement
  <2>. QED
    BY <1>1, <2>1, <2>2
<1>5. CASE ReadHeading \/ ReadTable \/ ReadText \/ ReadOtherCode
  <2>1. PICK e \in Elements :
          Take(e) /\ e.kind \in {"heading", "table", "text", "code"}
    BY <1>5 DEF ReadHeading, ReadTable, ReadText, ReadOtherCode
  <2>2. spec' = spec /\ should_skip' = should_skip
    BY <1>5 DEF ReadHeading, ReadTable, ReadText, ReadOtherCode, Raise
  <2>3. ~IsBlank(e) /\ ~IsSkip(e) /\ e.kind \notin {"def", "class"}
    BY <2>1 DEF IsBlank, IsSkip
  <2>4. pc = "reading" /\ ~should_skip /\ document' = Append(document, e)
    BY <2>1 DEF Take
  <2>5. should_skip' = (~should_skip /\ IsSkip(e))
    BY <2>2, <2>3, <2>4 DEF DocumentInv, Reading
  <2>. QED
    BY <1>1, <2>2, <2>3, <2>4, <2>5
<1>6. CASE ReadComment
  <2>1. PICK e \in Elements : e.kind = "comment" /\ Take(e) /\ should_skip' = (e.says = "skip")
    BY <1>6 DEF ReadComment
  <2>2. spec' = spec /\ pc = "reading" /\ ~should_skip /\ document' = Append(document, e)
    BY <1>6, <2>1 DEF ReadComment, Take
  <2>3. ~IsBlank(e) /\ (IsSkip(e) <=> e.says = "skip") /\ e.kind \notin {"def", "class"}
    BY <2>1 DEF IsBlank, IsSkip
  <2>4. should_skip' = (~should_skip /\ IsSkip(e))
    BY <2>1, <2>2, <2>3 DEF IsSkip
  <2>. QED
    BY <1>1, <2>2, <2>3, <2>4
<1>7. CASE ReadFunction
  <2>1. PICK e \in Elements :
          /\ e.kind = "def" /\ Take(e)
          /\ spec' =
               IF e.self = NoName
                 THEN [spec EXCEPT !.functions = Put(@, e.name, e.source)]
                 ELSE [spec EXCEPT !.protocols =
                         Put(@, e.self,
                             Put(IF e.self \in DOMAIN spec.protocols
                                   THEN spec.protocols[e.self] ELSE Empty, e.name, e.source))]
    BY <1>7, Zenon DEF ReadFunction
  <2>2. should_skip' = should_skip
    BY <1>7 DEF ReadFunction
  <2>3. ~IsBlank(e) /\ ~IsSkip(e)
    BY <2>1 DEF IsBlank, IsSkip
  <2>4. should_skip' = IsSkip(e)
    BY <2>1, <2>2, <2>3 DEF Take, DocumentInv, Reading, IsSkip
  <2>5. /\ Reading(document, should_skip) /\ AsRead(document, spec)
        /\ ~should_skip /\ document' = Append(document, e) /\ Reading(document', should_skip')
    BY <1>2, <2>1, <2>3, <2>4
  <2>6. CASE e.self = NoName
    <3>. DEFINE f == Put(spec.functions, e.name, e.source)
    <3>1. spec' = [spec EXCEPT !.functions = f]
      BY <2>1, <2>6
    <3>. HIDE DEF f
    <3>2. spec'.functions = f /\ spec'.ssz_objects = spec.ssz_objects
          /\ spec'.protocols = spec.protocols
      BY <3>1 DEF IsSpecObject
    <3>3. PutsFunction(spec, e, spec')
      BY <3>2 DEF PutsFunction, f
    <3>4. AsRead(Append(document, e), spec')
      BY <2>1, <2>5, <2>6, <3>3, FunctionFiled
    <3>. QED
      BY <2>5, <3>4
  <2>7. CASE e.self # NoName
    <3>. DEFINE p == Put(spec.protocols, e.self,
                         Put(IF e.self \in DOMAIN spec.protocols
                               THEN spec.protocols[e.self] ELSE Empty, e.name, e.source))
    <3>1. spec' = [spec EXCEPT !.protocols = p]
      BY <2>1, <2>7
    <3>. HIDE DEF p
    <3>2. spec'.functions = spec.functions /\ spec'.ssz_objects = spec.ssz_objects
          /\ spec'.protocols = p
      BY <3>1 DEF IsSpecObject
    <3>3. PutsMethod(spec, e, spec')
      BY <3>2 DEF PutsMethod, p
    <3>. QED
      BY <2>1, <2>5, <2>7, <3>3, MethodFiled
  <2>. QED
    BY <2>6, <2>7
<1>8. CASE ReadDataclass
  <2>1. PICK e \in Elements :
          /\ e.kind = "dataclass" /\ Take(e)
          /\ spec' = [spec EXCEPT !.dataclasses = Put(@, current_name, e.source)]
    BY <1>8, Zenon DEF ReadDataclass
  <2>2. should_skip' = should_skip
    BY <1>8 DEF ReadDataclass
  <2>3. ~IsBlank(e) /\ ~IsSkip(e) /\ e.kind \notin {"def", "class"}
    BY <2>1 DEF IsBlank, IsSkip
  <2>4. should_skip' = IsSkip(e)
    BY <2>1, <2>2, <2>3 DEF Take, DocumentInv, Reading, IsSkip
  <2>5. /\ Reading(document, should_skip) /\ AsRead(document, spec)
        /\ document' = Append(document, e) /\ Reading(document', should_skip')
    BY <1>2, <2>1, <2>3, <2>4
  <2>6. spec'.functions = spec.functions /\ spec'.ssz_objects = spec.ssz_objects
        /\ spec'.protocols = spec.protocols
    BY <2>1 DEF IsSpecObject
  <2>. QED
    BY <2>3, <2>5, <2>6, NothingFiled
<1>9. CASE ReadClass
  <2>1. PICK e \in Elements :
          /\ e.kind = "class" /\ Take(e) /\ ClassAccepted(e)
          /\ should_skip' = should_skip
          /\ spec' = [spec EXCEPT !.ssz_objects =
                        Put(@, current_name, [name |-> e.name, source |-> e.source])]
    BY <1>9, Zenon DEF ReadClass, Raise
  <2>2. ~IsBlank(e) /\ ~IsSkip(e) /\ current_name = e.name
    BY <2>1 DEF IsBlank, IsSkip, ClassAccepted
  <2>3. should_skip' = IsSkip(e)
    BY <2>1, <2>2 DEF Take, DocumentInv, Reading, IsSkip
  <2>4. /\ Reading(document, should_skip) /\ AsRead(document, spec)
        /\ ~should_skip /\ document' = Append(document, e) /\ Reading(document', should_skip')
    BY <1>2, <2>1, <2>2, <2>3
  <2>. DEFINE c == Put(spec.ssz_objects, e.name, [name |-> e.name, source |-> e.source])
  <2>5. spec' = [spec EXCEPT !.ssz_objects = c]
    BY <2>1, <2>2
  <2>. HIDE DEF c
  <2>6. spec'.functions = spec.functions /\ spec'.ssz_objects = c
        /\ spec'.protocols = spec.protocols
    BY <2>5 DEF IsSpecObject
  <2>7. PutsClass(spec, e, spec')
    BY <2>6 DEF PutsClass, c
  <2>8. AsRead(Append(document, e), spec')
    BY <2>1, <2>4, <2>7, ClassFiled
  <2>. QED
    BY <2>4, <2>8
<1>10. CASE document' = document /\ should_skip' = should_skip /\ pc # "failed"
            /\ spec'.functions = spec.functions /\ spec'.ssz_objects = spec.ssz_objects
            /\ spec'.protocols = spec.protocols
  BY <1>10 DEF DocumentInv, AsRead
<1>11. CASE ReadRow
  BY <1>10, <1>11, RowFilesNothing DEF ReadRow
<1>12. CASE Finish
  <2>1. pc = "reading" /\ document' = document /\ should_skip' = should_skip
    BY <1>12 DEF Finish
  <2>2. \/ spec' = spec
        \/ \E c : spec' = [spec EXCEPT !.constant_vars = c]
    BY <1>12, Zenon DEF Finish
  <2>3. spec'.functions = spec.functions /\ spec'.ssz_objects = spec.ssz_objects
        /\ spec'.protocols = spec.protocols
    BY <2>2 DEF IsSpecObject
  <2>. QED
    BY <1>10, <2>1, <2>3
<1>13. CASE UNCHANGED vars
  BY <1>10, <1>13 DEF vars
<1>. QED
  BY <1>3, <1>4, <1>5, <1>6, <1>7, <1>8, <1>9, <1>11, <1>12, <1>13 DEF Next

(* The tables get_spec fills while it reads, with a flag and a name as all the memory
   it has, hold what the whole document says: for every document, of any length, each
   function, method and class is the last of its name that no skip comment hides, and
   none is lost. *)
THEOREM LastDefinitionCounts == Spec => []LatestDefinitionWins
<1>1. Init => DocumentInv
  BY DocumentInitial
<1>2. IInv /\ DocumentInv /\ [Next]_vars => DocumentInv'
  BY DocumentStep DEF IInv
<1>3. DocumentInv => LatestDefinitionWins
  BY WinsAsRead DEF DocumentInv
<1>. QED
  BY <1>1, <1>2, <1>3, Inductive, PTL DEF Spec
=============================================================================
