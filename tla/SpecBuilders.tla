---------------------------- MODULE SpecBuilders ---------------------------
(***************************************************************************)
(* pysetup/spec_builders: what each fork's builder adds to the generated   *)
(* module beyond its documents.  A builder is a record with one field per  *)
(* class method, BaseSpecBuilder's value where the class does not override *)
(* it.  Code that is emitted is a sequence of statements <<names it        *)
(* defines, names it needs>>; an engine maps its methods to the names in   *)
(* their signatures; a copied constant names the dict it is looked up in.  *)
(***************************************************************************)
EXTENDS SpecDocuments

BaseSpecBuilder ==
  [imports |-> {}, preparations |-> << >>, classes |-> << >>, sundry_functions |-> << >>,
   execution_engine_cls |-> << >>, hardcoded_ssz_dep_constants |-> << >>,
   hardcoded_custom_type_dep_constants |-> << >>, hardcoded_func_dep_presets |-> {},
   deprecated |-> {}]

Phase0SpecBuilder ==
  [BaseSpecBuilder EXCEPT
     !.imports = {"LRU", "dataclass", "field", "Set", "Sequence", "TypeVar", "uint64", "Bytes32",
                  "View", "Container", "Vector", "hash_tree_root", "bls"},
     !.preparations = << <<{"SSZObject"}, {"TypeVar", "View"}>> >>,
     !.sundry_functions = << <<{"cache_this"}, {"LRU", "get_attesting_indices",
                               "SLOTS_PER_EPOCH", "MAX_COMMITTEES_PER_SLOT"}>> >>]

AltairSpecBuilder ==
  [BaseSpecBuilder EXCEPT
     !.imports = {"phase0", "NewType", "build_proof", "Path"},
     !.preparations = << <<{"GeneralizedIndex"}, {"NewType"}>> >>,
     !.sundry_functions = << <<{"get_generalized_index"}, {"GeneralizedIndex", "Path"}>>,
                             <<{"compute_merkle_proof"}, {"GeneralizedIndex", "SSZObject"}>> >>,
     !.hardcoded_ssz_dep_constants = << <<"FINALIZED_ROOT_GINDEX", 105>>,
                                        <<"CURRENT_SYNC_COMMITTEE_GINDEX", 54>>,
                                        <<"NEXT_SYNC_COMMITTEE_GINDEX", 55>> >>]

BellatrixSpecBuilder ==
  [BaseSpecBuilder EXCEPT
     !.imports = {"altair", "Protocol", "Bytes8", "ByteList", "ByteVector"},
     !.sundry_functions = << <<{"get_pow_block"}, {"PowBlock", "Bytes32"}>> >>,
     !.execution_engine_cls =
        [notify_new_payload |-> {"ExecutionPayload"},
         notify_forkchoice_updated |-> {"Hash32", "PayloadAttributes", "PayloadId"},
         get_payload |-> {"PayloadId", "GetPayloadResponse"},
         is_valid_block_hash |-> {"ExecutionPayload"},
         verify_and_notify_new_payload |-> {"NewPayloadRequest"}],
     !.hardcoded_custom_type_dep_constants = << <<"preset", "MAX_BYTES_PER_TRANSACTION">> >>]

CapellaSpecBuilder ==
  [BaseSpecBuilder EXCEPT
     !.imports = {"bellatrix"},
     !.hardcoded_ssz_dep_constants = << <<"EXECUTION_PAYLOAD_GINDEX", 25>> >>]

DenebSpecBuilder ==
  [BaseSpecBuilder EXCEPT
     !.imports = {"capella"},
     !.classes = << <<{"BLSFieldElement"}, {"bls"}>>, <<{"Polynomial"}, {"BLSFieldElement"}>> >>,
     !.preparations = << <<{"TPoint"}, {"TypeVar"}>> >>,
     !.sundry_functions = << <<{"retrieve_blobs_and_proofs"}, {"Root", "Blob"}>> >>,
     !.execution_engine_cls =
        [notify_new_payload |-> {"ExecutionPayload", "Root"},
         notify_forkchoice_updated |-> {"Hash32", "PayloadAttributes", "PayloadId"},
         get_payload |-> {"PayloadId", "GetPayloadResponse"},
         is_valid_block_hash |-> {"ExecutionPayload", "Root"},
         is_valid_versioned_hashes |-> {"NewPayloadRequest"},
         verify_and_notify_new_payload |-> {"NewPayloadRequest"}],
     !.hardcoded_custom_type_dep_constants =
        << <<"constant", "BYTES_PER_FIELD_ELEMENT">>, <<"preset", "FIELD_ELEMENTS_PER_BLOB">>,
           <<"config", "MAX_BLOBS_PER_BLOCK">>, <<"preset", "MAX_BLOB_COMMITMENTS_PER_BLOCK">> >>,
     !.hardcoded_func_dep_presets = {"KZG_COMMITMENT_INCLUSION_PROOF_DEPTH"}]

ElectraSpecBuilder ==
  [BaseSpecBuilder EXCEPT
     !.imports = {"deneb", "ssz_serialize", "ssz_deserialize"},
     !.hardcoded_ssz_dep_constants = << <<"FINALIZED_ROOT_GINDEX_ELECTRA", 169>>,
                                        <<"CURRENT_SYNC_COMMITTEE_GINDEX_ELECTRA", 86>>,
                                        <<"NEXT_SYNC_COMMITTEE_GINDEX_ELECTRA", 87>> >>,
     !.execution_engine_cls =
        [notify_new_payload |-> {"ExecutionPayload", "Root", "Sequence"},
         notify_forkchoice_updated |-> {"Hash32", "PayloadAttributes", "PayloadId"},
         get_payload |-> {"PayloadId", "GetPayloadResponse"},
         is_valid_block_hash |-> {"ExecutionPayload", "Root", "Sequence"},
         is_valid_versioned_hashes |-> {"NewPayloadRequest"},
         verify_and_notify_new_payload |-> {"NewPayloadRequest"}]]

FuluSpecBuilder ==
  [BaseSpecBuilder EXCEPT
     !.imports = {"electra"},
     !.classes = << <<{"PolynomialCoeff"}, {"BLSFieldElement"}>>, <<{"Coset"}, {"BLSFieldElement"}>>,
                    <<{"CosetEvals"}, {"BLSFieldElement"}>> >>,
     !.sundry_functions = << <<{"retrieve_column_sidecars"}, {"Root", "DataColumnSidecar"}>> >>,
     !.hardcoded_custom_type_dep_constants =
        << <<"preset", "FIELD_ELEMENTS_PER_CELL">>, <<"preset", "FIELD_ELEMENTS_PER_EXT_BLOB">>,
           <<"config", "NUMBER_OF_COLUMNS">> >>,
     !.hardcoded_func_dep_presets = {"KZG_COMMITMENTS_INCLUSION_PROOF_DEPTH"}]

WhiskSpecBuilder ==
  [BaseSpecBuilder EXCEPT
     !.imports = {"capella", "curdleproofs", "json"},
     !.hardcoded_ssz_dep_constants = << <<"EXECUTION_PAYLOAD_GINDEX", 41>> >>,
     !.hardcoded_custom_type_dep_constants =
        << <<"preset", "WHISK_MAX_SHUFFLE_PROOF_SIZE">>, <<"preset", "WHISK_MAX_OPENING_PROOF_SIZE">>,
           <<"preset", "WHISK_VALIDATORS_PER_SHUFFLE">>, <<"preset", "CURDLEPROOFS_N_BLINDERS">> >>]

EIP6800SpecBuilder ==
  [BaseSpecBuilder EXCEPT
     !.imports = {"deneb", "Bytes31"},
     !.hardcoded_custom_type_dep_constants = << <<"preset", "MAX_STEMS">> >>]

(* deprecated: of deprecate_constants and of deprecate_presets. *)
EIP7732SpecBuilder ==
  [BaseSpecBuilder EXCEPT
     !.imports = {"electra"},
     !.sundry_functions = << <<{"concat_generalized_indices"}, {"GeneralizedIndex"}>> >>,
     !.hardcoded_custom_type_dep_constants =
        << <<"preset", "PTC_SIZE">>, <<"preset", "MAX_PAYLOAD_ATTESTATIONS">>,
           <<"preset", "KZG_COMMITMENT_INCLUSION_PROOF_DEPTH_EIP7732">> >>,
     !.deprecated = {"EXECUTION_PAYLOAD_GINDEX", "KZG_COMMITMENT_INCLUSION_PROOF_DEPTH"}]

spec_builders ==
  [phase0 |-> Phase0SpecBuilder, altair |-> AltairSpecBuilder, bellatrix |-> BellatrixSpecBuilder,
   capella |-> CapellaSpecBuilder, deneb |-> DenebSpecBuilder, electra |-> ElectraSpecBuilder,
   fulu |-> FuluSpecBuilder, whisk |-> WhiskSpecBuilder, eip6800 |-> EIP6800SpecBuilder,
   eip7732 |-> EIP7732SpecBuilder]
=============================================================================
