# A verification project for the Ethereum consensus specifications

The repository is the executable specification of Ethereum's proof-of-stake
consensus: Markdown documents (`specs/<fork>/*.md`) whose Python code blocks are
extracted by `setup.py` and run by the tests. This directory holds TLA+ modules
translated from that code, the TLC configurations that check them on small
instances, and TLAPS proofs of the properties that matter most.

Covered are the two things the repository consists of. Of the *specification*:
justification and finalization and the fork choice store of phase 0, the light
client of altair, and the registry queues of electra. Of the *program* that turns
the documents into Python modules: reading a document, combining the forks,
ordering the classes, the build process with its caches and files, and the caches
inside the generated modules. The rest of the inventory is listed below with
the reason why it is left out.

| file | what it is |
|---|---|
| `BeaconTypes.tla` | slots, epochs, checkpoints, balances, slashable votes |
| `BeaconChain.tla` | the finality part of the state transition, as operators on states |
| `FFGChain.tla` | one chain as a state machine over those operators |
| `BlockTree.tla` | the blocks a node may receive, with their states; `get_ancestor` |
| `ChainStates.tla` | where those states come from: the state transition along the tree |
| `CheckpointView.tla` | abstract specification of a store's checkpoints |
| `ForkChoice.tla` | the fork choice store of one node |
| `LightClient.tla` | the store of an altair light client |
| `Registry.tla` | electra's exits, deposits, withdrawals and consolidations |
| `SpecParser.tla` | `get_spec`: one document read into a `SpecObject` |
| `SpecDocuments.tla`, `SpecBuilders.tla`, `SpecModule.tla` | what the forks define, what their builders add, and `build_spec` |
| `DependencyOrder.tla` | the ordering of the classes of a module |
| `SpecBuild.tla` | the process that builds all modules, its caches and files |
| `SpecCache.tla` | `cache_this` around nine functions of a generated module |
| `*_proofs.tla` | theorems about the module of that name, and their proofs |
| `MC*.tla`, `MC*.cfg` | instances for TLC |
| `MCHeadUndefined.cfg`, `MCBlockTwice.cfg` | the two disagreements found |
| `PROJECT.json` | components, runs, mutants, source map, findings, hazards, theorems |

## 1. Inventory

### Finality of the state transition (`specs/phase0/beacon-chain.md`)
State: the `BeaconState` fields `slot`, `latest_block_header`, `block_roots`,
`slashed`, the two lists of pending attestations, `justification_bits` and three
checkpoints. Operations: `state_transition` = `process_slots` (each slot caches a
root; each epoch boundary runs `process_epoch`) then `process_block`. Hard: the
state keeps no votes beyond two epochs, only four bits and two old justified
checkpoints, and must still justify and finalize what the votes say; four
finalization rules run one after the other; attestations rotate at the boundary
while their source has to rotate with them; a slashing may come between a vote and
its weighing. Correct when: the checkpoints are those Casper FFG derives from the
votes; they are ordered and never go back.

### Fork choice store (`specs/phase0/fork-choice.md`)
State: the `Store` dataclass. Operations: `on_tick`, `on_block`, `on_attestation`,
`on_attester_slashing`, and the readers `get_head` and `get_proposer_head`. It
calls the state transition on each block, and validators call `get_head` to vote
and propose. Hard: blocks, votes, evidence and ticks come in any order; ticks are
missed and caught up; realized and unrealized justification; a boost with a
deadline; vote replacement against equivocation. Correct when: checkpoints depend
on what is known and not on the order it came in; finality is kept; there is always
a viable head; weights are consistent along the tree; votes only advance.

### Later forks' fork choice (`specs/{bellatrix,capella,deneb}/fork-choice.md`)
Adds conditions to `on_block` (terminal proof-of-work block, payload, blob
availability). No new store state but the payload attributes handed to the engine.

### Fork choice with builders (`specs/_features/eip7732/`)
Two-part slots: a payload timeliness committee votes whether the payload was seen;
a block builds on an empty or a full parent. New store state and handlers
(`on_execution_payload`, `on_payload_attestation_message`). Correct when weights
remain consistent over empty and full nodes.

### Registry (`specs/electra/beacon-chain.md`, `specs/capella/beacon-chain.md`)
State: validators' epochs, `pending_deposits`, `pending_partial_withdrawals`,
`pending_consolidations`, churn accumulators, the withdrawal cursor. Operations:
exits, slashings, deposit processing, withdrawal and consolidation requests, the
sweep. Hard: several queues draw on one balance and on one churn; queue items block
or skip each other. Correct when churn per epoch stays within its limit, queues
drain, no balance is paid twice and every validator is swept.

### Rewards, inactivity, effective balances
Pure arithmetic per epoch on balances. Correct when hysteresis is stable and
penalties never underflow.

### Shuffling, committees, integer arithmetic
`compute_shuffled_index`, `compute_committee`, `integer_squareroot`. Correct when
the shuffle is a permutation, committees partition the active set, and the root
search neither overflows nor misses.

### Sync committees (`specs/altair/beacon-chain.md`)
`current_sync_committee` and `next_sync_committee`, rotated by period.

### Light client (`specs/altair/light-client/sync-protocol.md`)
State: the `LightClientStore`. Operations: `process_light_client_update`,
`process_light_client_store_force_update`. Hard: forced updates race with finality
updates, committees may be unknown at a period boundary. Correct when the
committees belong to the finalized header's period and headers never go back.

### Optimistic sync and safe block (`sync/optimistic.md`, `fork_choice/safe-block.md`)
Blocks imported before the execution engine's verdict; a later invalidation
removes branches. Correct when no invalidated block is ever head and what is
reported safe is verified.

### Execution engine and merge transition
An external service that answers `notify_new_payload` and `notify_forkchoice_updated`.

### Blobs, KZG and data availability sampling
Polynomial arithmetic over a 255-bit field, and hash-based custody assignment.

### Networking (`specs/*/p2p-interface.md`)
Prose conditions on gossip and request protocols.

### Validator duties (`specs/*/validator.md`)
What an honest validator signs and when.

### Weak subjectivity
One closed formula.

### SSZ and Merkle proofs (`ssz/`)
Serialization and generalized indices.

### Deposit contract (`solidity_deposit_contract/deposit_contract.sol`)
State: `branch`, `deposit_count`. Correct when the incremental root is the root of
the full tree of the leaves.

### Test generator runner (`tests/core/pyspec/eth2spec/gen_helpers/gen_base/gen_runner.py`)
Writes test cases to directories marked by an `INCOMPLETE` tag; a killed run is
resumed. Correct when no unfinished case passes for a finished one.

### Spec builder: reading a document (`setup.py`, `get_spec`)
State while reading: the current name, the skip flag, and one dict per kind of
definition. Operations: one per kind of markdown element and table row. Hard: a
name comes from an earlier heading; a comment hides the next element; a row goes
to one of several dicts; the trusted setups are replaced at the end, together.
Correct when the dicts are what the document says when read as a whole.

### Spec builder: ordering the classes (`pysetup/helpers.py`, `setup.py`)
State: the dict of class definitions, whose order is the order of the module.
Operations: `dependency_order_class_objects`, repeated until it changes nothing.
Hard: it reorders the dict by popping and reinserting halves of it while the words
of the classes are walked through; one move undoes another. Correct when the loop
ends, and ends with every class behind those it names.

### Spec builder: combining forks, laying out a module (`pysetup/`)
State: the list of documents, the combined `SpecObject`, the module. Operations:
`get_md_doc_paths`, `combine_spec_objects`, the ten builders, `objects_to_spec`.
Hard: later forks replace definitions of earlier ones; constants are copied ahead
of the classes that determine them and asserted afterwards; the order of the
sections is fixed. Correct when a module has the last definition of everything
its forks define and can be imported.

### Spec builder: the build process (`PySpecCommand`, `build_spec`, `load_preset`)
State: the caches of presets and configurations, the file being written, the
package directories. Operations: per fork and target, load, read, write. Hard:
sources edited during a run; a document that raises an exception; a process killed
between opening and writing a file. Correct when a run that completes leaves
modules of the present sources, and a failed one those of the run before.

### Caches of the generated modules (`pysetup/spec_builders/phase0.py`)
State: nine LRU caches. Operations: a call of a cached function, which may call
others. Hard: keys are a few roots of the state and not the state. Correct when no
caller can tell the cached function from the one it wraps.

### Tests, configurations, presets; research features
Read as documentation of the behaviour; research drafts are left aside.

## 2. What is modelled, and how it corresponds to the code

### BeaconTypes
Block roots are positive numbers so that "ties broken by the lexicographically
higher root" is `>`; `ZeroRoot` is `Root()`. `compute_epoch_at_slot`,
`get_total_balance` with its floor of one increment, and
`is_slashable_attestation_data` are translated one to one. Committee selection is
abstracted: any set of validators may have its aggregation bits set. Signatures are
taken to be right.

### BeaconChain
A state is a record with the fields above. `AdvanceOneSlot` is one turn of the loop
of `process_slots`: `process_slot`, at an epoch end `process_epoch`, then
`slot + 1`. `process_X` operators give the state after X; `CanProcessX` collects
the asserts of X. A failed assert makes the whole block invalid and, since the
caller works on a copy, changes nothing. `process_epoch` keeps the order of the
code, justification before the rotation of the pending attestations. The bits are
`0..3 -> BOOLEAN`, 0 the youngest; `UpdatedBits` is the shift and the two
conditional sets together. The four rules are grouped by the checkpoint they
finalize, because in the code the last assignment wins and the last two rules
assign the old current checkpoint.

Abstracted: balances, activations and exits keep their genesis value.
`initiate_validator_exit` puts an exit at least five epochs ahead
(`compute_activation_exit_epoch`), so within the horizon of the runs a slashed
validator is still active, and `get_total_active_balance` is a constant. Effective
balances do not change because rewards are not modelled. Pending attestations are a
set, and keep the fields epoch processing reads.

### FFGChain
`AdvanceSlot` is one turn of `process_slots`, `ProcessBlock` a `process_block` at
the current slot with any attestations and attester slashings the asserts accept,
up to one of each kind per block. `links` is a history variable: the
supermajority links the chain has ever weighed. No action reads it; it gives the
reference its votes. The reference is the inductive definition of Casper FFG:
`JustifiedBy(L)` is the smallest set of checkpoints with genesis that is closed under
the links `L`, and `FinalizedBy(L)` those of it whose next epochs the links confirm.

### BlockTree, ChainStates
The fork choice and the state transition meet in the blocks. `block_states`,
`unrealized_justifications` and the block contents are functions of the block: the
constants `BlockState`, `PulledUpState`, `BeaconBlock` of BlockTree.
`StatesAreComputed` says what they are: each the `state_transition` of its parent's,
from an `AnchorState`, and pulled up by `process_justification_and_finalization`.
`StatesOrdered`, `StatesOnChain` and `StatesOfEpoch` are all that ForkChoice needs to
know of them, and its assumptions. The MC modules compute the states with `BeaconChain`
and let TLC evaluate `TreeIsComputed`, and `StatesAsAssumed` (section 4) proves that
trees so computed satisfy all three: the two specifications compose.
What no single chain guarantees is Casper's safety. `AccountableSafety` says it of the
states of all blocks together; `FewSlashable` that less than a third of the balance
breaks, with the votes any branch includes, a condition of
`is_slashable_attestation_data`. `CasperIsSafe` (section 4) proves the first from the
second, for trees that grow from genesis or any other `AnchorState`, and `FinalityIsSafe`
that a store over such a tree never gives up a finalized checkpoint.

### ForkChoice
One action per handler. Each store field is a variable, except the functions of the
block above. `blocks` is the key set; `block_timeliness` the keys
whose value is true; `checkpoint_states` the keys. Specifically:

* `on_tick` keeps the catch-up loop: boost reset and the epoch-start
  `update_checkpoints` take place when any slot start in between passes.
* `on_block` has the guards of the code in order (parent known, not from the future,
  later than the finalized slot, descends from the finalized checkpoint, valid
  transition), and its two `update_checkpoints`, the realized one and the one in
  `compute_pulled_up_tip`. A known block may be delivered again, as in the code.
* `on_attestation` and `on_attester_slashing` are taken from the wire and from the
  known blocks (`is_from_block`), at any time after the block is known.
* A walk past the anchor is a `KeyError` in the code; here it yields `ZeroRoot`,
  which no comparison matches.
* The anchor lies at the start of an epoch, where the code makes a checkpoint of it.
* `StatesOnChain` says what the chains of the tree guarantee of the post-states, as
  far as a chain guarantees it. `UndoesJustification` is what it does not: a block in
  the epoch of its parent may carry slashings against validators whose votes the parent
  counts, and its own pulled-up justification is then older than the parent's.

### CheckpointView
The abstract specification: the epochs of a store's justified and finalized
checkpoints are the greatest among the voting sources of the blocks known, given the
clock's epoch. It has no unrealized checkpoints, no ticks within an epoch and no
order of arrival. `ForkChoice!ImplementsView` is the refinement.

### LightClient
The chain is the constant schedule `history` of what it has finalized in the state
of each header; updates are about this chain, so a header is its slot and a
committee the period it serves. A Merkle branch proves what `Update` says of the
attested state, and a signature verifies when the store has the committee of the
signature slot's period. An update is delivered in any order, late or twice, with any number of
participants, with or without the next committee and finality.
`validate_light_client_update` collects the asserts; `rotated`, `applied`, `noted`
are the steps of `apply_light_client_update` and `process_light_client_update` in
their order. A forced update takes its attested header as final when it has no newer
one. The in-place change of the caller's update object by the forced update (line
480) has no counterpart since updates are values here. Headers of other chains, which
need a dishonest committee, are left out.

### Registry
The beacon state is a record of the fields the queues touch; operators give the state
after a function, as in BeaconChain. `AdvanceSlot` is a turn of `process_slots`,
with `process_epoch` at an epoch's end in the order of the code;
`process_withdrawals` begins a block and `stage` keeps its operations in the order of
`process_operations`. The loops with a `break` are folds whose accumulator says
whether they are done. `Booked` is `compute_exit_epoch_and_update_churn`, and with
the other accumulator its twin for consolidations. Three histories are
kept: `booked` of each churn, with the limit it was booked at, and `net`, the gwei that
went out less those that came in. `BeaconState` and the sets it is made of are the
containers of the code, and `IndicesExist` says that every index names a validator.

Left out: rewards and the size of penalties (`AdvanceSlot` takes any loss of
`0..Penalties` from one validator, and the slashing penalties are computed), the
rewards of proposers and whistleblowers, deposits of the former bridge
(`eth1_deposit_index`), changes of credentials. Requests are authorized; one that
the code ignores is no step. `MayLeave` are the conditions that exits, withdrawal
requests and sources of consolidations share.

### SpecParser
A document grows by an element and each is read at once, so that every document of at
most `MaxElements` elements is a behaviour. Elements are records of what `get_spec` asks of
them: kind, name, protocol, version of the source. A table puts its rows in `rows`,
which `ReadRow` takes one by one. Wherever the code raises an exception `pc`
becomes `"failed"`. `WithSetups` is the replacement of the trusted setups at the end, which any constant with
`KZG_SETUP` in its name brings about (`KzgNames`).

### SpecDocuments, SpecBuilders, SpecModule
`SpecDocuments` holds what each document defines, restricted to the definitions the
builders treat by name and one of every other section. `SpecBuilders` has a record per builder
with a field per method, inherited where the class does not override it. A
statement of a module is the pair of names it defines and names it needs;
`ImportModule` runs them from top to bottom and then the assertions on
generalized indices and depths, which are computed from the number of fields the
containers end up with. One document is combined per step.

### DependencyOrder
`place` is the dict's order. `HandleWord` is the body of the inner loop: the word is
one of those left after the three filters of the code; if it names a class that comes
later, `PlaceBehind` is where popping and reinserting puts everything, in closed
form. `PlacementIsReinsertion` compares it with the loop of the code (`PopAndReinsert`:
the keys after each pop, which takes the entry from its position and puts it last).
A word that is no class is the `ValueError` of `index`. `Compare` is the test
of the loop in `build_spec`.

### SpecBuild
Contents are the versions of the documents, the preset and the configuration they
were made of. `pc`, `at` and `tgt` say where the process is; each document is read in a
step of its own, so that an edit may fall between two of them. `OpenFile` empties the file and
`WriteFile` fills it. `Crash` kills the process anywhere, an exception ends it at a
document that does not parse. A dry run, and the trusted setups, which are read when
`setup.py` is loaded, are left out.

### SpecCache
A state is cut into the parts that keys and functions tell apart. A value is the set of
parts, with versions, it was computed from, the strongest distinction a function could make.
`stack` is the Python stack of cached calls: `Hit`, `Miss`, `CallNext` and `Fill`
are the steps of `cache_this` and of the function inside it. A caller that changes a
cached list in place is left out.

## 3. What TLC checks

| run | module, cfg | states | question |
|---|---|---|---|
| `ffg_chain` | `MCFFGChain` | 490 709 | do four bits and two checkpoints do what Casper does? |
| `fork_choice_ffg` | `MCForkChoiceFFG` | 13 358 | do a store's checkpoints and head survive any arrival order? |
| `fork_choice_lmd` | `MCForkChoiceLMD` | 48 194 | are votes, boost and proposer re-orgs consistent? |
| `head_undefined` | `MCForkChoiceFFG`, `MCHeadUndefined` | violation | has a store always a head? |
| `block_twice` | `MCForkChoiceLMD`, `MCBlockTwice` | violation | is a boosted block always timely? |
| `light_client` | `MCLightClient` | 6 294 | do committees, headers and the stored update stay right under any delivery? |
| `registry` | `MCRegistry` | 637 392 | do the queues respect their churn, account for every gwei and drain? |
| `spec_parser` | `MCSpecParser` | 303 640 | is the fold over elements what the document says? |
| `spec_module` | `MCSpecModule` | 364 | does every module import, with the last definitions? |
| `dependency_order` | `MCDependencyOrder` | 47 048 | does the reordering end, in an order? |
| `spec_build` | `MCSpecBuild` | 260 986 | what do edits, exceptions and kills leave behind? |
| `spec_cache` | `MCSpecCache` | 783 040 | can a caller tell a cached function? |

**ffg_chain.** Three validators of equal balance in aggregates of two and one (two
are exactly two thirds, the boundary of the test), two-slot epochs, ten slots, ring
of four roots (the smallest that reaches back two epochs). Five epochs let each of
the four finalization rules fire, on this and on the previous epoch's votes, and let
bits be shifted out. Slots may be empty, votes may be for another fork's target,
validator 2 may be slashed at any block.
`JustifiedIsCasper` and `FinalizedIsCasper` compare the checkpoints with what Casper
derives from all links; `PendingSources`, `CheckpointOrder` and
`FinalityAdvances` are the invariants that make it work.

**fork_choice_ffg.** Nineteen blocks, one of them invalid, drawn in
`MCForkChoiceFFG.tla`: epoch 2 is justified on one branch, a competing branch
justifies epochs 3 and 4 and finalizes 3 by a validator that switches over and breaks
no slashing condition, two side branches carry late votes, and one block slashes a
validator after its parent has counted its vote. The
blocks arrive in any order that keeps parents first, under clocks that skip slots
10 and 12. `ImplementsView`: the checkpoint epochs refine
`CheckpointView`. `JustifiedExtendsFinalized` and `FinalityIsKept`: the checkpoints,
replaced independently, stay on one chain. `HeadIsViableLeaf`: `filter_block_tree`
leaves `get_head` a viable leaf below both checkpoints whenever it is defined and no
known block undoes a justification. The exception is real. The block that slashes
takes the justification back on its branch, the store keeps it (fork-choice.md:528),
no leaf has the store's justified checkpoint any more, and `get_head` returns the
justified root although it has children. No line of the documents says it
must not, so this is in the list of hazards and not a finding.
`MessagesAreSupported`: recorded votes are for known blocks with stored targets.
`JustificationIsRealized` (liveness): what a block justifies takes effect.

**fork_choice_lmd.** The first four slots, balances 1, 3, 8, 8, so that
a head can be weak (below 2), a parent strong (above 16) and the boost (4) decide.
Seven blocks, with a late head, its competitor, two blocks of one proposer, and an
equivocating validator whose evidence comes on the wire and in a block.
`BoostIsFresh`, `BoostIsNotHandedOver`, `MessagesOnlyAdvance`,
`ParentOutweighsChildren`, and `ReorgSucceeds`: a proposer that follows
`get_proposer_head` and is on time has its block as head.

**light_client.** Four periods of two slots, a committee of three, so that one, two and
three participants are below, at and above two thirds; chains that finalize soon,
late and never. `CommitteesMatchPeriod`: the committees are those of the
finalized header's period, also after forced updates. `StoredUpdateIsUseful`: whenever
the timeout strikes, the stored update passes the assert of
`apply_light_client_update` and brings the store on. `HeadersOnlyAdvance`.
`ClientCatchesUp` (liveness): the client gets to within the timeout of the present
even when nothing is finalized.

**registry.** A compounding validator with more than its maximum, one that is not
compounding, one that waits for its activation, and a fourth that a deposit may create; balances in quarters of an increment,
one slot per epoch, an exit churn of up to seven increments, queues and payloads of two and
three, a sweep of one validator per block. Three events (requests, slashings, losses, slots
without a block, epochs that are not finalized) in the first five epochs, in every
combination; the other twelve epochs are quiet (with two fewer the queues may not have
drained). `ChurnRespected`: what is booked over any span of
epochs fits in their churn, but for the first item, which may reach back. The limit follows
the active balance. What is left of an epoch was left at the limit of its first booking,
so after a fall more may fit than the present limit allows, and the property counts with the
highest limit so far, kept with each booking. Here the limit falls from 28 to 8 between
two bookings as a validator leaves, and rises again as another becomes active. `QueuesDrain`: after the quiet epochs every queue is
empty and who has left is paid out; a bounded form of liveness, which also finds an item that
waits for ever. `GweiAccountedFor`: at every step, balances, deposit queue and payments add up
to what they were, whatever is postponed, moved, switched or slashed. One step may add to
the sum, and the property says by how much. In the code the partial withdrawals of one
validator in one payload are each computed from the balance before it
(electra/beacon-chain.md:1126), and the balance may have fallen since they were asked for, by
a loss or because a sweep paid out what was above the maximum. Then they may exceed it. If
the sweep comes to this validator in the same block, line 1146 underflows and the block is
refused; otherwise `decrease_balance` stops at zero, and the payload has paid `Overdraft` more
than the balances lost. It makes that and no more: the sweep never pays again what
the partial withdrawals took. The bounds reach all three cases: two requests of 13 from a
balance of 34, which a sweep takes to 24 before both fall due in slot 9, pay 26 out of 24
if a slot was empty and the sweep of slot 9 is elsewhere, are refused if it is not, and fit if a
deposit came in between. A chain whose block is refused stays in that slot (nothing but the end
of an epoch could change the balance), so `QueuesDrain` says nothing of it. No comment or
test of the repository speaks about the case.

**spec_parser.** Documents of up to four elements out of headings, functions, protocol
functions, classes, dataclasses, comments, blank lines and tables whose rows
hit every branch. `LatestDefinitionWins` compares the dicts with the document
read as a whole; `OneKindPerConstant`; `SetupsReplacedTogether`.

**spec_module.** All ten forks and both targets. `ModulesImport`,
`LatestDefinitions`, `EngineImplementsProtocol`.

**dependency_order.** Four classes in every initial order with every acyclic choice of
references, so that moves of one pass undo each other. `OrderIsTopological`,
`PlacementIsReinsertion`, `OrderingTerminates`.

**spec_build.** Three forks, two of them on the first, two targets, two edits and one kill. One
edit can spoil a document and the other mend it or touch another source.
`CompletedRunsAreCurrent`, `FailedRunsKeepFiles`, `OneConfigurationPerRun`,
`ImportedModulesFirst`, `EventuallyCurrent` (liveness).

**spec_cache.** Two versions of every part, caches of one and two entries, two calls with a
change of the state in between, each call up to nine lookups. `AnswersAreCurrent`.

Bounds: `MaxSlot` (FFGChain, LightClient, Registry), `MaxEvents` and `LastEventSlot` (Registry),
`MaxElements` (SpecParser), `MaxEdits` and `MaxCrashes` (SpecBuild), `MaxCalls` and
`MaxChanges` (SpecCache), `TickTime` and the block tree with its messages
(ForkChoice). A chain stops at `MaxSlot` (in Registry also at a slot whose block is refused), a store when its last tick and all
messages are in, a document at its end and a caller after its last call, so deadlock is
not checked. Apart from time, every store
field ranges over the blocks, messages and validators given, so nothing else needs
a bound. The post-states of the blocks are computed once by `StateByRoot`
and `PulledUpByRoot` in the MC modules.

**Fairness.** In ForkChoice `FairSpec` asks weak fairness of `OnTick` only: the document says that
`on_tick(store, time)` runs whenever `time > store.time` (fork-choice.md:66). No
message is promised to arrive. `JustificationIsRealized` needs no more. In
DependencyOrder `WF(Next)` says that a loop runs on. In SpecBuild `WF(Build)` says that a
process goes on until it ends or is killed, and `WF(StartRun)` that the build is run
again, as every make target that uses the modules does. In LightClient the
servers hold for every period at least an update with the next committee, signed by the fewest
participants that count (`LeastUpdate`; light-client.md has a client ask for one per period),
and the client forces an update when it is stuck; no finality is promised.

**Findings.** Both are violations TLC finds, with the counterexample replaying the
code's own handlers:

* `head_undefined`: `get_weight` reads `checkpoint_states[justified_checkpoint]`,
  an entry only attestations make (`store_target_checkpoint_state`). A
  justification learned from a block or applied by a tick has none until an
  attestation for it is processed, and `get_head` then raises `KeyError`, though
  the document defines the head of a store as `get_head(store)`.
  `HeadIsViableLeaf` and `ReorgSucceeds` are stated under `HeadIsDefined`.
* `block_twice`: `on_block` processes a known block again, and the second delivery
  overwrites `block_timeliness` with `False` while the boost the first one earned
  remains.

**Mutants.** Every property has an operator beside the one it mutates (comment
`Mutant:`), a plausible slip in the code that the run detects.

## 4. What is proved

For every value of the constants that satisfies the assumptions:

* `FFGChain_proofs`: `TypeCorrect`, `CheckpointsOrdered`, `FinalityNeverRegresses`,
  `PendingVotesShareSource`, `JustificationIsCasper` and `FinalizationIsCasper`.
  Assumptions: `SlotsAssumption` (an epoch has
  slots), `HistoricalRootAssumption` (the ring holds two epochs), `InputAssumption`
  (inputs are of their types), `BalanceAssumption` and `RegistryAssumption`
  (balances are natural numbers, and the registry is finite). `CheckpointOrder` is not inductive by itself at an
  epoch boundary, where it talks of the old epoch before `slot + 1` and of the
  new one after; `Ordered(st, clock)` states it of a record and a clock,
  `WeighOrdered` proves that weighing yields it for the clock one epoch on, and
  `AdvanceOneSlotOrdered` puts the loop turn together. It needs `TypeOK`.
  Monotonicity is a consequence: a new justified checkpoint is of the current or
  the previous epoch, and the rules assign old justified checkpoints, which the
  order bounds from below by the finalized one. `PendingVotesShareSource` uses that
  the first boundaries, which do not weigh, still have genesis sources.
  The two Casper theorems rest on the invariant `CasperState`, of three parts.
  `Sources`: the pending votes of an epoch have its justified checkpoint as source.
  `HasRoots` and `Targets`: the ring has a root for the epochs voted on, and a pending
  vote is for the chain's own boundary block or another fork's, so that
  `MatchingTarget` counts exactly the votes of one link (`NewLinksOfEpoch`).
  `CasperAt`: the bits, the two justified checkpoints and the finalized one are what
  the smallest closed set has in these epochs. A boundary adds links with targets in
  the two youngest epochs only, so what was decided of earlier epochs, also of those
  shifted out of the bits, stays so. That the smallest set is meant is what makes the
  converse direction a proof: the set of what the state has ever justified is closed,
  hence contains it.
  The last part is about trees of blocks. `StatesAsAssumed`:
  `BlockTypes /\ StatesAreComputed => StatesOrdered /\ StatesOnChain /\ StatesOfEpoch`,
  which are the assumptions `StateAssumption`, `ChainAssumption` and `EpochAssumption`
  of ForkChoice. It is an induction
  over the tree (`TreeStates`) and, for each block, over the turns of `process_slots`
  (`SlotTurns`, `ChainSlots`), with `ChainInv`: the ring has the block's ancestors, a
  vote of the current epoch is only there after the epoch's first slot, and the
  checkpoints lie on the chain. The second conjunct is what the pulled-up state needs:
  it is weighed at the block's own slot, where the ring may not have the epoch's
  boundary block yet, and then no vote asks for it. `Follows` compares an advanced
  state with the one it came from: within the epoch they have the same votes, so the
  epoch's end justifies in both the same epoch, though the advanced one has more of
  the ring. `StatesOfEpoch` follows from the last turn of the slots (`LastTurn`): two
  blocks of one epoch with the same parent come from the same advanced state
  (`SiblingCheckpoints`), and within the epoch no block moves a checkpoint
  (`EpochKeepsCheckpoints`). The theorem uses `TreeAssumption` and `InclusionDelayAssumption` besides those
  above. `EpochStartsAreAnchors` says that a chain's state at the first slot of an
  epoch is an `AnchorState`, so trees may grow from genesis or any such state.
  `CasperIsSafe`: `BlockTypes /\ StatesAreComputed /\ FewSlashable => AccountableSafety`.
  The anchor's state may justify and finalize what the tree does not show, and has bits and
  pending votes of its own, so nothing is claimed of epochs up to the anchor's but that
  every block descends from the anchor. Every chain has a history
  (`HistoryAt`, found by `TreeHistories`): the links with targets past the anchor that
  `process_slots` weighs along it (`WeighedHistory`), whose votes have the sources
  that the state of their epoch had justified; each counts votes of at least two thirds of
  the balance that blocks of the chain include (`ChainCasper`, `WinIsQuorum`), and what
  the state justifies or finalizes past the anchor's epoch is what they justify
  (`TargetsOf`) and finalize (`FinalizedIn`). Two such quorums share a third of
  the balance (`QuorumsMeet`), so links of different chains break no slashing condition
  against each other (`LinksAgree`): two with targets of one epoch have the same target
  (`JustifiedAgree`), and none surrounds another. From there it is Casper's argument, by
  induction on the epoch of the later checkpoint (`FinalizedBelow`): the link that
  finalizes a checkpoint passes over justified epochs only, so that a link to a later
  target that starts below the checkpoint would surround it.
  Balances are constant here, which is what lets quorums of different chains be
  compared, and votes that a chain weighs under different rings are the same votes. The
  sums over validators are folds; the lemmas from `FoldExists` to `BalanceSums` say
  what they need of them.
* `ForkChoice_proofs`: `TypeCorrect`, `BoostStaysFresh`, `BoostStaysWithFirst`,
  `VotesOnlyAdvance`, `VotesAreSupported`, `Implementation`,
  `FinalizedNotAfterJustified`, `ParentsOutweigh`, `CheckpointsStayTogether`,
  `FinalityStays`, `HeadViable`, `FinalityIsSafe`, `HeadIsSafe`, `ReorgWins`. Assumptions: `TreeAssumption`,
  `StateAssumption` (weighing never lowers a checkpoint and finality does not pass
  justification), `ChainAssumption` (the checkpoints are blocks of the chain, and a
  child starts from what its parent has justified) and `EpochAssumption` (siblings of
  an epoch have the same checkpoints), all three proved of computed trees by
  `StatesAsAssumed`, `WireAssumption` (SSZ types), `TimeAssumption`, `RegistryAssumption`, `BoostAssumption`.
  `Implementation` needs the invariant `CheckpointInv`: the store's epochs are the
  greatest candidates for its clock, *and* its unrealized epochs are the greatest
  of all pulled-up ones. Without the second half a tick could not be shown to move
  the checkpoints to the right place. `EpochStartBetween` shows that the catch-up
  loop meets an epoch's first slot exactly when the epoch changes.
  `FinalizedNotAfterJustified` follows, since each candidate for finality comes with
  one for justification at least as high.
  `ParentsOutweigh`: the walk of `get_ancestor` passes at most one child of a block,
  so the supporters of siblings are disjoint, also the boost's; `SumOfDisjoint` and
  its neighbours do the sums. `get_ancestor`, `filter_block_tree` and the walk of
  `get_head` are functions with recursion along the tree; that they exist and satisfy
  their equations follows from the order of slots (`RankRecursion`,
  `RankInduction`, from the library's `NatLessThanWellFounded`).
  `CheckpointsStayTogether`, `FinalityStays` and `HeadViable` are about the chains the
  checkpoints lie on, and hold only if few
  validators are slashable. `AccountableSafety` is that hypothesis, in Casper's words: of all
  checkpoints that blocks of the tree justify or finalize, each as late as one that some
  block finalizes descends from it. It is a hypothesis of these theorems and no assumption on
  the constants. `FinalityIsSafe` and `HeadIsSafe` do without: their hypotheses are those of
  `CasperIsSafe`, that the state transition has computed the states from a trusted
  anchor (`BlockTypes /\ StatesAreComputed`) and that few validators are slashable
  (`FewSlashable`). They are the two specifications put together. `Chains` is an instance of
  FFGChain_proofs whose assumptions are discharged from the ones here
  (`ComputedTreesAreSafe`; the lemmas named `Same...` say that the operators of the instance
  are those of the module). `TreeIsComputed` and `TreeIsSafe` in `MCForkChoiceFFG` say that
  the run's tree meets the hypotheses. The mutant of `FinalityIsKept` with a quorum of a
  third shows what goes wrong in a tree that is not accountably safe. The two theorems
  also use the assumptions of BeaconChain: `BalanceAssumption`,
  `HistoricalRootAssumption`, `InclusionDelayAssumption`.
  `SourceInv` adds to `CheckpointInv` the blocks from whose states the store's
  checkpoints come. `HeadViable` follows the descent of `get_head`: the
  justified root is in the filtered tree since the block that justified it has a leaf
  above it which no rule discards (`SpeakersGoOn`, `SpeakersViable`), a filtered node
  is a leaf or has a filtered child, and the descent ends since slots grow. The
  anchor is genesis there. For another, whose state justifies an older epoch than the
  anchor's, it is false (the hazard at fork-choice.md:161).
  `ReorgWins` proves `ReorgSucceeds`, for any anchor and without that hypothesis. The
  new block and the late head it orphans are siblings of one epoch: the new
  block moves no checkpoint of the store (`JustifiedEpochIsOver`) and is as viable as
  the head it replaces (`SiblingAdopted`). The walks of `get_head` before and after are
  then compared block by block (`IsHeadWalk`, the walk as a relation): above the parent
  the branch of the head was heaviest and gains the boost, the others
  keep their weight (`AdoptedWeight`, `AdoptedChildren`); at the parent the boost alone
  outweighs the head (`WeakHeadIsOutweighed`), and the old head outweighed its
  siblings. Of the conditions of `get_proposer_head` the proof uses that the shuffling is
  stable, the slots are successive, the head is weak and the proposer on time. The other
  four protect something else, a head that was not late for instance, and no reorg
  fails without them. Two conditions on the constants are hypotheses of the
  theorem: `REORG_HEAD_WEIGHT_THRESHOLD` is at most `PROPOSER_SCORE_BOOST` (20 and
  40 in the code), and a slot has at least a second per interval
  (3 intervals of 12 or 6 seconds): otherwise the quotient of the two is zero, and at the
  start of the slot `is_proposing_on_time` holds while no block is timely.
* `LightClient_proofs`: `StoreSound`, `CommitteesSound`, `StoredUpdateSound`,
  `HeadersSound`, `ApplySound`, `BetterIsStrictOrder`. The inductive invariant is
  `TypeOK` with `StoreInv`: the committees match the finalized header, the optimistic
  header is not behind it, and the best update, if any, is usable. The last
  part is what makes the assert of `apply_light_client_update` hold of an update that
  was validated against an older store. Assumptions: periods have slots, and a state
  does not finalize the future.
* `SpecParser_proofs`: `ConstantsHaveOneKind`, `ClassesKeepTheirNames`,
  `SetupsComeTogether` and `LastDefinitionCounts`, for documents of
  any length: every reading step puts a key into one dict only, under the checks
  of the code. `Finish` is the only step that makes a document read, and it replaces
  every table it has a placeholder for, all from one trusted setup or none
  (`FinishLoads`). `LastDefinitionCounts` compares the dicts with the document as a
  whole. Its invariant ties the one bit get_spec remembers to the skip comments that stand
  right before the next element (`Reading`: the bit is the parity of their number); from
  that follows which elements are heard (`ReadOn`), and an element that is heard replaces
  the definition of its name and no other (`LatestMore`).
* `DependencyOrder_proofs`: `OrderedClassesAreTopological`, for any number of classes. A pass
  stops the loop when the order after it is the order before; two of its moves
  may cancel, so one has to show that they never all do. The invariant
  `MovesAreVisible` says that of the moved classes each is accounted for by one, ranked
  at least as high in some ranking of the acyclic references, that now stands behind an
  unmoved class it stood before. Hence an unchanged order means that nothing moved
  (`SameOrderMeansUnmoved`), and then every word handled names a class in front.
  `MovesAreReinsertions` proves `PlacementIsReinsertion`. A pop moves one position
  (`MoveToEndPlacesLast`); `Behind` gives where every class stands after n pops, `BehindSteps`
  is one of them, and after the last `Behind` is `PlaceBehind` (`BehindEnds`). That an order
  uses every position is the pigeonhole of the library (`KeyListOfOrder`).
* `SpecCache_proofs`: `CachedAnswersAreCurrent`, for any number of calls, changes and
  cache sizes. `EqualKeysEqualValues` shows function by function, callees first, that
  states with equal keys give equal values; the invariant is that every entry and every
  unfinished call on the stack holds the value of the function it belongs to.
* `SpecBuild_proofs`: `TypeCorrect`, `BuildInvariant`, `QuietRunsBuildEverything`,
  `FilesSurviveFailures`, `RunsHaveOneConfiguration`, `ImportsAreWrittenFirst`, for any forks,
  targets and number of edits and kills. The invariant relates the caches and the
  contents in memory to the sources (`MemoryInv`), the files written to the run's
  progress (`DoneInv`), their configuration to the caches (`ConfigurationInv`), empty
  files to kills (`EmptyInv`), and quiet runs to the present versions (`QuietInv`).
* `Registry_proofs`: `RegistryWellFormed`, `ChurnIsRespected`, `GweiAreAccountedFor`, for any number of validators, queues of any length, any slots, requests
  and losses. The inductive invariant `Inv` says that the state is `Sound`: every record has its
  fields, every index is one, and both churn queues keep their `Backlog`: at the highest
  limit so far, what was booked since any booking and what is left of the last epoch fit in the
  epochs in between (`Fits`). `BookingRespectsChurn` and `BookingKeeps` show this of one
  booking, for any amount and limit: the limit may have risen or fallen since the last.
  `Wealth` is the sum of `GweiAccountedFor`. For each handler of a block and each pass of
  `process_epoch` a lemma shows that it keeps the state `Sound` and the sum the same
  (`Conserving`). The loops are folds of the community modules: `FoldRegistry` to
  `FoldPunished` unfold them into a run, turn by turn, and an invariant of the turn holds at its
  end; for the deposits it says that the loop holds exactly what it has taken
  from the queue. For the withdrawals `Excess` is what is withdrawn from each balance
  beyond it: a turn of the sweep does not change it (`SweepOneKeeps`), and paying costs
  what is paid but for the excess (`PaidKeeps`), so that a payload makes the excess of its partial
  withdrawals, which is `Overdraft`. Nothing is assumed about the sizes of requests. Assumptions:
  `ConstantsAssumption` (the divisors and `MAX_WITHDRAWALS_PER_PAYLOAD` are not 0, and the
  least churn is an increment at least, so that no churn is 0), `InitialAssumption` (a
  registry without a past: no deposits queued, nothing booked) and `RequestsAssumption`.
  The presets of the repository satisfy the first. Numbers are unbounded: that no
  sum passes 2^64 is not shown.

Only model-checked: the properties of SpecModule (about given documents, which the run
checks in full), `QueuesDrain` of Registry (a bounded drain), and liveness (temporal
reasoning with `ENABLED` is out of reach).

## 5. What is not modelled

See the statuses and notes in `PROJECT.json`.

* Out of reach of these tools: KZG and sampling arithmetic, SSZ encoding, hashing,
  signatures, swap-or-not shuffling (a permutation drawn by a hash).
* Closed arithmetic without a history: rewards and penalties, inactivity scores, weak
  subjectivity, `integer_squareroot`, the terminal difficulty of the merge.
* Prose with little code: networking, validator duties, optimistic sync.
* Other programs: the deposit contract, the test generators, the execution engine.
* Research drafts, among them the fork choice of EIP-7732.
* Of modelled parts: in phase 0's state transition, everything that does not bear on
  finality; in the registry what section 2 names; of `checkpoint_states` only the keys (its
  values are block states advanced to an epoch start, which have the slashed flags
  of the block state, and balances and the active set are constant there).
* Known gaps of the code that no property states: a dataclass may be filed under a
  stale name (`setup.py:231` has no check), and of classes that name each other in a
  circle, which Python could not define, the loop finds no order (two of them swap
  twice in a pass, and it stops as if done); `DocumentsAssumption` excludes them.

## 6. Plan

What would come next, most useful first.

1. `Registry`: widths of 64 bits.
2. Anchors that are not at the start of an epoch.
3. Balances that change between epochs, where safety weakens with the change.
4. Optimistic sync over ForkChoice, with verdicts of the engine that come late.
5. The deposit contract's tree at depth three; the test generator's `INCOMPLETE` tag
   under kills and retries.
6. The fork choice of EIP-7732, once it leaves the drafts.
