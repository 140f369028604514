-------------------------- MODULE SpecDocuments --------------------------
(***************************************************************************)
(* The forks and what their markdown documents define, as far as the spec  *)
(* builder treats it by name: the definitions its hard-coded tables copy,  *)
(* check or replace, what these need when a module is imported, and enough *)
(* of the rest for every section of a module to have something in it.      *)
(***************************************************************************)
EXTENDS Naturals, Sequences

(* PREVIOUS_FORK_OF; "none" stands for None. *)
PREVIOUS_FORK_OF ==
  [phase0 |-> "none", altair |-> "phase0", bellatrix |-> "altair", capella |-> "bellatrix",
   deneb |-> "capella", electra |-> "deneb", fulu |-> "electra",
   whisk |-> "capella", eip6800 |-> "deneb", eip7732 |-> "electra"]

(* list(PREVIOUS_FORK_OF.keys()) *)
ALL_FORKS == <<"phase0", "altair", "bellatrix", "capella", "deneb", "electra", "fulu",
               "whisk", "eip6800", "eip7732">>

Forks == DOMAIN PREVIOUS_FORK_OF

(* A definition of a document: the section of the module it goes to, its name, and
   the names that must be defined when it is executed. *)
Def(section, name, needs) == [section |-> section, name |-> name, needs |-> needs]

Type(name, needs) == Def("type", name, needs)
Constant(name, needs) == Def("constant", name, needs)
Preset(name) == Def("preset", name, {})
Config(name) == Def("config", name, {})
Gindex(name, needs) == Def("ssz_dep", name, needs)
Depth(name, needs) == Def("func_dep", name, needs)
Class(name, needs) == Def("class", name, needs)
Engine(name, needs) == Def("protocol", name, needs)
Function(name, needs) == Def("function", name, needs)

Phase0Documents ==
  << <<Type("Root", {"Bytes32"}), Type("Hash32", {"Bytes32"}), Type("Epoch", {"uint64"}),
       Constant("FAR_FUTURE_EPOCH", {"Epoch"}), Preset("SLOTS_PER_EPOCH"),
       Preset("MAX_COMMITTEES_PER_SLOT"), Config("MIN_GENESIS_TIME"),
       Class("BeaconState", {"Container", "Root"}), Class("BeaconBlockBody", {"Container"}),
       Function("get_attesting_indices", {"BeaconState", "Set"})>>,
     <<Class("Store", {"dataclass", "field", "BeaconState"}),
       Function("get_head", {"Store", "Root"})>> >>

AltairDocuments ==
  << <<Class("BeaconBlockBody", {"Container"}), Class("BeaconState", {"Container", "Root"})>>,
     <<Function("eth_aggregate_pubkeys", {"Sequence"})>>,
     <<Function("compute_merkle_proof", {"SSZObject", "GeneralizedIndex"})>>,
     <<Type("FinalityBranch", {"Vector", "floorlog2", "FINALIZED_ROOT_GINDEX"}),
       Type("CurrentSyncCommitteeBranch", {"Vector", "floorlog2", "CURRENT_SYNC_COMMITTEE_GINDEX"}),
       Type("NextSyncCommitteeBranch", {"Vector", "floorlog2", "NEXT_SYNC_COMMITTEE_GINDEX"}),
       Gindex("FINALIZED_ROOT_GINDEX", {"BeaconState"}),
       Gindex("CURRENT_SYNC_COMMITTEE_GINDEX", {"BeaconState"}),
       Gindex("NEXT_SYNC_COMMITTEE_GINDEX", {"BeaconState"}),
       Class("LightClientUpdate",
             {"Container", "LightClientHeader", "FinalityBranch", "NextSyncCommitteeBranch"}),
       Class("LightClientHeader", {"Container"})>> >>

BellatrixDocuments ==
  << <<Type("Transaction", {"ByteList", "MAX_BYTES_PER_TRANSACTION"}),
       Preset("MAX_BYTES_PER_TRANSACTION"),
       Class("BeaconBlockBody", {"Container", "ExecutionPayload"}),
       Class("BeaconState", {"Container", "Root"}),
       Class("ExecutionPayload", {"Container", "Transaction"}),
       Class("NewPayloadRequest", {"dataclass", "ExecutionPayload"}),
       Engine("notify_new_payload", {"ExecutionPayload"}),
       Engine("is_valid_block_hash", {"ExecutionPayload"}),
       Engine("verify_and_notify_new_payload", {"NewPayloadRequest"})>>,
     <<Type("PayloadId", {"Bytes8"}),
       Engine("notify_forkchoice_updated", {"Hash32", "PayloadAttributes", "PayloadId"}),
       Class("PayloadAttributes", {"dataclass"}), Class("PowBlock", {"Container", "Hash32"})>>,
     <<Class("GetPayloadResponse", {"dataclass", "ExecutionPayload"}),
       Engine("get_payload", {"PayloadId", "GetPayloadResponse"})>>,
     <<Class("OptimisticStore", {"dataclass", "BeaconState"})>> >>  \* sync/optimistic.md

CapellaDocuments ==
  << <<Class("ExecutionPayload", {"Container", "Transaction"}),
       Class("BeaconBlockBody", {"Container", "ExecutionPayload"}),
       Class("BeaconState", {"Container", "Root"})>>,
     <<Engine("notify_forkchoice_updated", {"Hash32", "PayloadAttributes", "PayloadId"}),
       Class("PayloadAttributes", {"dataclass"})>>,
     <<Type("ExecutionBranch", {"Vector", "floorlog2", "EXECUTION_PAYLOAD_GINDEX"}),
       Gindex("EXECUTION_PAYLOAD_GINDEX", {"BeaconBlockBody"}),
       Class("LightClientHeader", {"Container", "ExecutionBranch"}),
       Function("upgrade_lc_header_to_capella", {"bellatrix", "LightClientHeader"})>> >>

DenebDocuments ==
  << <<Preset("MAX_BLOB_COMMITMENTS_PER_BLOCK"), Config("MAX_BLOBS_PER_BLOCK"),
       Class("BeaconBlockBody", {"Container", "ExecutionPayload"}),
       Class("ExecutionPayload", {"Container", "Transaction"}),
       Class("BeaconState", {"Container", "Root"}),
       Class("NewPayloadRequest", {"dataclass", "ExecutionPayload", "Root"}),
       Engine("is_valid_block_hash", {"ExecutionPayload", "Root"}),
       Engine("is_valid_versioned_hashes", {"NewPayloadRequest"}),
       Engine("notify_new_payload", {"ExecutionPayload", "Root"}),
       Engine("verify_and_notify_new_payload", {"NewPayloadRequest"})>>,
     <<Type("Blob", {"ByteVector", "BYTES_PER_FIELD_ELEMENT", "FIELD_ELEMENTS_PER_BLOB"}),
       Constant("BYTES_PER_FIELD_ELEMENT", {"uint64"}),
       Constant("BYTES_PER_BLOB", {"BYTES_PER_FIELD_ELEMENT", "FIELD_ELEMENTS_PER_BLOB"}),
       Preset("FIELD_ELEMENTS_PER_BLOB"),
       Function("blob_to_polynomial", {"Blob", "Polynomial", "BLSFieldElement"})>>,
     <<Class("PayloadAttributes", {"dataclass", "Root"})>>,
     <<Preset("KZG_COMMITMENT_INCLUSION_PROOF_DEPTH"),
       Depth("KZG_COMMITMENT_INCLUSION_PROOF_DEPTH", {"BeaconBlockBody"}),
       Class("BlobSidecar", {"Container", "Blob", "KZG_COMMITMENT_INCLUSION_PROOF_DEPTH"})>>,
     <<Class("GetPayloadResponse", {"dataclass", "ExecutionPayload", "BlobsBundle"}),
       Class("BlobsBundle", {"dataclass", "Blob"}),
       Engine("get_payload", {"PayloadId", "GetPayloadResponse"})>> >>

ElectraDocuments ==
  << <<Class("ExecutionRequests", {"Container"}),
       Class("BeaconBlockBody", {"Container", "ExecutionPayload", "ExecutionRequests"}),
       Class("BeaconState", {"Container", "Root"}),
       Class("NewPayloadRequest", {"dataclass", "ExecutionPayload", "Root", "ExecutionRequests"}),
       Engine("is_valid_block_hash", {"ExecutionPayload", "Root", "Sequence"}),
       Engine("notify_new_payload", {"ExecutionPayload", "Root", "Sequence"}),
       Engine("verify_and_notify_new_payload", {"NewPayloadRequest"})>>,
     <<Class("GetPayloadResponse", {"dataclass", "ExecutionPayload", "BlobsBundle", "Sequence"}),
       Engine("get_payload", {"PayloadId", "GetPayloadResponse"})>>,
     <<Type("FinalityBranch", {"Vector", "floorlog2", "FINALIZED_ROOT_GINDEX_ELECTRA"}),
       Type("CurrentSyncCommitteeBranch",
            {"Vector", "floorlog2", "CURRENT_SYNC_COMMITTEE_GINDEX_ELECTRA"}),
       Type("NextSyncCommitteeBranch",
            {"Vector", "floorlog2", "NEXT_SYNC_COMMITTEE_GINDEX_ELECTRA"}),
       Gindex("FINALIZED_ROOT_GINDEX", {"altair"}),  \* get_generalized_index(altair.BeaconState, ...)
       Gindex("CURRENT_SYNC_COMMITTEE_GINDEX", {"altair"}),
       Gindex("NEXT_SYNC_COMMITTEE_GINDEX", {"altair"}),
       Gindex("FINALIZED_ROOT_GINDEX_ELECTRA", {"BeaconState"}),
       Gindex("CURRENT_SYNC_COMMITTEE_GINDEX_ELECTRA", {"BeaconState"}),
       Gindex("NEXT_SYNC_COMMITTEE_GINDEX_ELECTRA", {"BeaconState"})>> >>

FuluDocuments ==
  << <<Type("Cell", {"ByteVector", "BYTES_PER_FIELD_ELEMENT", "FIELD_ELEMENTS_PER_CELL"}),
       Constant("CELLS_PER_EXT_BLOB", {"FIELD_ELEMENTS_PER_EXT_BLOB", "FIELD_ELEMENTS_PER_CELL"}),
       Preset("FIELD_ELEMENTS_PER_CELL"), Preset("FIELD_ELEMENTS_PER_EXT_BLOB"),
       Function("recover_polynomialcoeff", {"CosetEvals", "PolynomialCoeff"})>>,
     <<Config("NUMBER_OF_COLUMNS"),
       Class("DataColumnSidecar", {"Container", "Cell", "KZG_COMMITMENTS_INCLUSION_PROOF_DEPTH"})>>,
     <<Preset("KZG_COMMITMENTS_INCLUSION_PROOF_DEPTH"),
       Depth("KZG_COMMITMENTS_INCLUSION_PROOF_DEPTH", {"BeaconBlockBody"})>> >>

WhiskDocuments ==
  << <<Type("WhiskShuffleProof", {"ByteList", "WHISK_MAX_SHUFFLE_PROOF_SIZE"}),
       Type("WhiskTrackerProof", {"ByteList", "WHISK_MAX_OPENING_PROOF_SIZE"}),
       Constant("CURDLEPROOFS_CRS", {"curdleproofs", "json"}),
       Preset("CURDLEPROOFS_N_BLINDERS"), Preset("WHISK_VALIDATORS_PER_SHUFFLE"),
       Preset("WHISK_MAX_SHUFFLE_PROOF_SIZE"), Preset("WHISK_MAX_OPENING_PROOF_SIZE"),
       Class("BeaconState", {"Container", "Root"}),
       Class("BeaconBlockBody", {"Container", "ExecutionPayload", "WhiskShuffleProof",
                                 "WhiskTrackerProof", "WHISK_VALIDATORS_PER_SHUFFLE"})>> >>

EIP6800Documents ==
  << <<Type("Stem", {"Bytes31"}), Preset("MAX_STEMS"),
       Class("ExecutionPayload", {"Container", "Transaction", "ExecutionWitness"}),
       Class("StemStateDiff", {"Container", "Stem"}),
       Class("VerkleProof", {"Container", "Bytes31", "ByteList", "MAX_STEMS"}),
       Class("ExecutionWitness", {"Container", "StemStateDiff", "VerkleProof", "MAX_STEMS"})>> >>

EIP7732Documents ==
  << <<Preset("PTC_SIZE"), Preset("MAX_PAYLOAD_ATTESTATIONS"),
       Preset("KZG_COMMITMENT_INCLUSION_PROOF_DEPTH_EIP7732"),
       Class("PayloadAttestation", {"Container", "PTC_SIZE"}),
       Class("BeaconBlockBody", {"Container", "PayloadAttestation", "MAX_PAYLOAD_ATTESTATIONS"}),
       Class("BeaconState", {"Container", "Root"}),
       Function("bit_floor", {"uint64"})>>,
     <<Constant("PAYLOAD_TIMELY_THRESHOLD", {"PTC_SIZE"}),
       Class("Store", {"dataclass", "field", "BeaconState", "PTC_SIZE"})>>,
     <<Class("BlobSidecar",
             {"Container", "Blob", "KZG_COMMITMENT_INCLUSION_PROOF_DEPTH_EIP7732"})>> >>

(* The documents of a fork's directory in the order they are read: beacon-chain and
   polynomial-commitments before the others, light-client and extra files last. *)
DocumentsIn(f) ==
  CASE f = "phase0" -> Phase0Documents       [] f = "altair" -> AltairDocuments
    [] f = "bellatrix" -> BellatrixDocuments [] f = "capella" -> CapellaDocuments
    [] f = "deneb" -> DenebDocuments         [] f = "electra" -> ElectraDocuments
    [] f = "fulu" -> FuluDocuments           [] f = "whisk" -> WhiskDocuments
    [] f = "eip6800" -> EIP6800Documents     [] f = "eip7732" -> EIP7732Documents

(* How many fields a container has where a fork defines it, and the place of a field. *)
Fields ==
  [BeaconState |-> [phase0 |-> 21, altair |-> 24, bellatrix |-> 25, capella |-> 28,
                    deneb |-> 28, electra |-> 37, whisk |-> 32, eip7732 |-> 40],
   BeaconBlockBody |-> [phase0 |-> 8, altair |-> 9, bellatrix |-> 10, capella |-> 11,
                        deneb |-> 12, electra |-> 13, whisk |-> 17, eip7732 |-> 12]]

FieldPlace ==
  [finalized_checkpoint |-> 20, current_sync_committee |-> 22, next_sync_committee |-> 23,
   execution_payload |-> 9, blob_kzg_commitments |-> 11]

(* EIP-7732 moves the payload and the commitments out of the block body. *)
HasField(f, field) == ~(f = "eip7732" /\ field \in {"execution_payload", "blob_kzg_commitments"})
=============================================================================
