-------------------------- MODULE MCSpecModule ---------------------------
(***************************************************************************)
(* All ten forks and both targets: the module the build makes of each.     *)
(***************************************************************************)
EXTENDS SpecModule

(* presets/mainnet and presets/minimal: deneb.yaml, fulu.yaml *)
MCPresetValue ==
  [mainnet |-> [MAX_BLOB_COMMITMENTS_PER_BLOCK |-> 4096,
                KZG_COMMITMENT_INCLUSION_PROOF_DEPTH |-> 17,
                KZG_COMMITMENTS_INCLUSION_PROOF_DEPTH |-> 4],
   minimal |-> [MAX_BLOB_COMMITMENTS_PER_BLOCK |-> 32,
                KZG_COMMITMENT_INCLUSION_PROOF_DEPTH |-> 10,
                KZG_COMMITMENTS_INCLUSION_PROOF_DEPTH |-> 4]]
=============================================================================
