-------------------------- MODULE MCSpecParser --------------------------
(***************************************************************************)
(* Documents of up to four elements, out of every kind get_spec tells      *)
(* apart, with two versions of one function, of one class and of one       *)
(* protocol function, and tables whose names are a preset, a configuration *)
(* value, a plain constant and the trusted setup.                          *)
(***************************************************************************)
EXTENDS SpecParser

Row(name, source) ==
  [cells |-> 3, name |-> name, constant |-> TRUE, isType |-> FALSE, gindex |-> FALSE,
   tag |-> "none", source |-> source]

MCPreset == [n \in {"PRESET_A", "DEPTH"} |-> "preset file"]
MCConfig == [n \in {"CONFIG_A", "DEPTH"} |-> "config file"]
MCKzgSetups == {"KZG_SETUP_G1_MONOMIAL", "KZG_SETUP_G1_LAGRANGE", "KZG_SETUP_G2_MONOMIAL"}
MCKzgNames == MCKzgSetups \cup {"KZG_SETUP_G2_LENGTH"}

MCElements ==
  { [kind |-> "blank"], [kind |-> "text"],
    [kind |-> "heading", name |-> "NoName"], [kind |-> "heading", name |-> "State"],
    [kind |-> "def", name |-> "f", self |-> "NoName", source |-> "1"],
    [kind |-> "def", name |-> "f", self |-> "NoName", source |-> "2"],
    [kind |-> "def", name |-> "f", self |-> "Engine", source |-> "3"],
    [kind |-> "def", name |-> "g", self |-> "Engine", source |-> "4"],
    [kind |-> "dataclass", name |-> "Store", source |-> "5"],
    [kind |-> "class", name |-> "State", base |-> "Container", source |-> "6"],
    [kind |-> "class", name |-> "State", base |-> "NoName", source |-> "7"],
    [kind |-> "class", name |-> "State", base |-> "object", source |-> "8"],
    [kind |-> "class", name |-> "f", base |-> "Container", source |-> "9"],
    [kind |-> "code", lang |-> "python"], [kind |-> "code", lang |-> "json"],
    [kind |-> "comment", says |-> "skip"], [kind |-> "comment", says |-> "other"],
    [kind |-> "table", rows |->
       << Row("PRESET_A", "10"), Row("CONFIG_A", "11"), Row("PLAIN_A", "12"),
          [Row("INDEX", "13") EXCEPT !.gindex = TRUE],
          [Row("DEPTH", "14") EXCEPT !.tag = "predefined"] >>],
    [kind |-> "table", rows |->
       << [Row("Type", "15") EXCEPT !.constant = FALSE, !.isType = TRUE],
          [Row("Cited", "16") EXCEPT !.constant = FALSE, !.isType = TRUE, !.tag = "predefined-type"],
          [Row("Words", "17") EXCEPT !.constant = FALSE],
          [Row("PLAIN_A", "18") EXCEPT !.cells = 1], Row("PLAIN_A", "19"),
          Row("CURDLEPROOFS_CRS", "20") >>],
    [kind |-> "table", rows |->
       << Row("KZG_SETUP_G1_MONOMIAL", "21"), Row("KZG_SETUP_G1_LAGRANGE", "22") >>],
    [kind |-> "table", rows |-> << Row("KZG_SETUP_G2_MONOMIAL", "23") >>],
    [kind |-> "table", rows |-> << Row("KZG_SETUP_G2_LENGTH", "24") >>] }
=============================================================================
