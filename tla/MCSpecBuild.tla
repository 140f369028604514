---------------------------- MODULE MCSpecBuild -----------------------------
(***************************************************************************)
(* Three forks, two of them on the first as deneb and whisk are on         *)
(* capella, and two targets.                                               *)
(***************************************************************************)
EXTENDS SpecBuild

MCForkOrder == <<"capella", "deneb", "whisk">>
MCPreviousForkOf == [capella |-> "none", deneb |-> "capella", whisk |-> "capella"]
MCTargetOrder == <<"minimal", "mainnet">>
=============================================================================
