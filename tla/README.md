# SmartOracle in TLA+

SmartOracle mines invariants of smart contracts from past transactions and
reports later transactions that break them. This directory holds TLA+ models of
its core, the TLC configurations that check them, and TLAPS proofs about all of the
modelled parts: the task pool and its totals, the substate database, the tracer, the
miner, the replay over RPC, the StateDB, and the driver with its caches of extracted
calls.

Paths below are relative to `src/`; `backend` stands for `SmartOracle_backend`
(a fork of go-ethereum with recorded transactions) and `miner` for `SmartOracle`
(Python). `PROJECT.json` maps every definition to the lines it models.

## 1. Inventory

The way of a transaction through the system:

    recorded substates --> task pool --> replay-inv --> JSON call trees
    (LevelDB)              (goroutines)  (TxTracer)          |
                                                             v
    alarms <-- checkInvs <-- mined relations <-- InvHunter <-- Contract
                                                 (miner)      (cache of calls)

    a node (RPC) --> replay-block, replay-txhash --> dump of one block
                     (AccountState and hooks in the interpreter)

| Component | State | Operations | Interacts with |
|---|---|---|---|
| substate task pool (`backend/research/substate_task.go`) | three bounded channels, a shared counter, the index and `waitMap` of the caller | `Execute`, `ExecuteWithTx`, `ExecuteTest`; goroutines for producing and working, a deferred shutdown | calls `ExecuteBlock`, `ExecuteBlockTx` in the workers |
| replay of a block or of an entry (same file) | none | `ExecuteBlock`, `ExecuteBlockTx` | reads the substate database, calls `TaskFunc` |
| AccountState and hooks (`backend/hunter/trace/account_state.go`, `backend/core/vm/interpreter.go`, `backend/core/state_transition.go`) | StateDB with journal, touched and committed overlays, one snapshot per open call | a hook before and after every instruction, `RevertAccountState`, the beginning and end of a transaction | fetches cells from a node, is read by the gas rules |
| TxTracer (`backend/eth/tracers/txTracer`) | call stack, list of stated calls, the states before and after them, created and deleted accounts | `CaptureStart`, `CaptureState`, `CaptureEnter`, `CaptureExit`, `CaptureEnd` | called by the EVM, reads the StateDB |
| substate database and types (`backend/research/substate*.go`) | LevelDB keys for transactions and for code | put, get, delete, iterate, compact | read by the pool, written by a recording node |
| StateDB (`backend/core/state`) | objects with three layers of storage, journal with counts, revisions, destroyed accounts, refund, logs, transient storage, access list | setters, creation, destruction, `Snapshot`, `RevertToSnapshot`, `Prepare`, `Finalise` | under every replay; read by TxTracer and the hooks |
| replay-inv, token balances (`backend/hunter/cmd/replayInv.go`, `backend/hunter/cmd/utils.go`) | tokens and addresses met in logs | replay with TxTracer, `balanceOf` before and after | writes the JSON files |
| call extraction (`miner/extractTxs.py`) | none | `extractcall` over a call tree | called by Contract |
| contract and cache (`miner/contract.py`) | a cache file of decoded calls per mode | `readVarDict`, `extractDtrace` | gives traceDicts to the miner |
| driver (`miner/main.py`, `miner/run_RQ1.py`) | result files per number of transactions | `Dapp.run` for each number | reads through the caches, mines, checks, writes |
| invariant miner and patterns (`miner/inv_miner.py`, `miner/patterns.py`) | relations with counters, per method | `incrementalAlg`, `checkInvs` | fed by the driver |
| layout extractor, RPC provider, command line, rest of go-ethereum | | | see section 6 |

What is hard in it, and hard to test:

- *goroutines*: everything is bounded (channels of `Workers*10`, stop tokens in a
  channel of `Workers`), results come in any order, and a failure stops the call
  while workers go on;
- *two undo mechanisms in one replay*: the journal of the StateDB undoes what
  the hooks fetched, and `RevertAccountState` must bring it back, with snapshots
  taken at slightly different moments;
- *undo of the StateDB itself*: entries, counts, markers and tables are kept in
  step by convention, through nested reverts and resurrected accounts;
- *files written without atomicity*: records and codes under separate keys, caches
  emptied before they are written, results taken as done because they exist;
- *lazy recording*: TxTracer reads the "state before" of a call long after the
  call began, between effects of nested and failing calls;
- *incremental mining*: relations are searched in the first calls and counted in
  later ones, with names inferred from the call in which they were found.

The hazards, each with its line and its properties, are listed in
`PROJECT.json`; those without a property have a note and a place in the plan.

## 2. Modules

| Module | Models |
|---|---|
| `TaskBatch` | abstract: what a call of the pool promises |
| `TaskPool` | the goroutines of `Execute`, `ExecuteWithTx`, `ExecuteTest`; refines `TaskBatch` |
| `BlockTasks` | `ExecuteBlock` and `ExecuteBlockTx` as sets of possible results |
| `BlockPool` | the pool with these tasks: `Execute` over a range of blocks, `ExecuteWithTx` over a list |
| `MCTaskPool`, `MCBlockPool` | instances of `TaskPool` and `BlockPool` |
| `EvmState` | cells (slot, balance, nonce, code of an account) and the effect of instructions on them, shared by the next two |
| `AccountState`, `MCAccountState` | replay of the transactions of a block over RPC |
| `TxTracer`, `MCTxTracer` | the tracer during one transaction |
| `InvMiner`, `MCInvMiner` | mining and checking of one method |
| `SubstateStore` | abstract: a map of transactions with atomic puts, reads of one moment, and crashes |
| `SubstateDB`, `MCSubstateDB` | records and codes in LevelDB; refines `SubstateStore` |
| `WorldState` | abstract: the state of the chain as plain values, snapshots as copies |
| `StateJournal`, `MCStateJournal` | the StateDB with objects, layers and journal, run side by side with `WorldState` |
| `TxExtractor` | `extractcall` as a function of a call tree, and what it amounts to call by call |
| `DappRun`, `MCDappRun` | `readVarDict` and `Dapp.run` over cache and result files, killed and restarted |
| `TaskPool_proofs`, `SubstateDB_proofs`, `TxTracer_proofs`, `InvMiner_proofs`, `AccountState_proofs`, `DappRun_proofs` | the theorems about a component; `TaskPool_proofs` has those about `BlockPool`, `DappRun_proofs` those about `TxExtractor` too |
| `StateJournal_proofs` | lemmas about the StateDB: its journal is sound and undoing an operation brings back what was there |
| `StateWorld_proofs` | the theorems about the StateDB: it answers as `WorldState` does |

**TaskPool.** A channel is the sequence of its buffered values; `stopChan`
carries no data and is a number. There is one action per case of a select and
per blocking statement: `Produce`, `ProducerStop`, `ProducerFinish`;
`WorkerTake`, `WorkerExecute`, `WorkerReport`, `WorkerStop`; `MainCount`,
`MainReceive`, `MainFinish`, `MainSendStop`, `MainReturn`. The three Go functions
differ only in what a task is, which is the constant `TaskOutcomes`. `received`
and `verdict` are history variables. `ChanFactor` is the literal 10 of the code.

**BlockTasks.** `ExecuteBlock` visits a Go map in random order, so its model is
the set of results over all orders and all decisions of `TaskFunc`: without an error
the number of inner transactions, with one any number up to it. The result
"not inner" takes a transaction out of the count in `ExecuteBlock` and is an
error like any other in `ExecuteBlockTx`, as in the code. That this set is what the loop
can give, with its `numTx--` and `numTx++`, is a property of its own
(`LoopGivesResults`): `ExecuteBlockLoop` is the loop as written, visited in every order.

**AccountState.** The state of the EVM is a map from cells to numbers. `acct` has
the StateDB and the two overlays; `world` is the same execution as the chain
performs it, from the same instructions. Each action is an instruction with its
hook before, its effect, and its hook after, or the beginning or the end of a
transaction. Code is a number of copies, since `UpdateTouchedCode` appends. `lost`
collects the cells that met one of the *named* ways in which this design loses
a value (`Unfetched`, `Overwritten`, `Unread`, `Unfetch`, `Revived`, `Refetched`,
`Stale`); `Faithful` says that there is no other way, and each finding below says
that one of these ways contradicts a statement of the repository.

**TxTracer.** `callstack` and `statedCall` are those of the code (pointers are
positions). Actions are instructions: `CaptureState` before, effect, and
`CaptureEnter` or `CaptureExit` where the EVM calls them. Instructions that fail
because of write protection are actions of their own, because the tracer has
taken note of them by then. A step counter stands for the program counter.
`CreateUnseen` is a CREATE2 on which `CaptureState` gives up: it runs before the memory
of the instruction is allocated, and `GetMemoryCopyPadded` refuses init code that ends
more than 1 MiB beyond what is there (such memory costs some 2.2 million gas, and before
Shanghai init code has no size limit). The new contract is then neither looked up nor
put into `Created`, and the history `unseen` of the stated calls keeps its address: the
properties name these contracts as their exception.

**InvMiner.** A variable name is a base and a key: an address, or the name of the
variable that inference put in its place. `Mine(t)` is one round of
`incrementalAlg`: search in the first calls, else count and remove; at the last
call the key invariants are selected. Iteration over a Python set is a choice
(`Models`). Thresholds are exact fractions, where `inv_miner.py:465` computes in floating
point: with 10 calls and threshold 0.9 its bar is 0.9999999999999998, and a relation that
fails once is removed. What is shown about thresholds is shown of the exact bar.

**SubstateDB.** `versions` holds the contents of LevelDB since the last flush; the
last one is the present, and `Crash` goes back to any of them, since LevelDB
writes its log in order and without sync. A call of `PutSubstate` is a sequence of
steps, one per key: `PutSubstate` begins it, `PutCode` writes one code (in any order
within an alloc, which is a Go map), `PutRecord` the record. `GetSubstate` and
`GetBlockSubstates` take the records of one moment and `ReadRecord` decodes them one
by one, looking up codes in the database of its own moment. A code stands for its
hash. A record has the number of fields of its `Env` and `Message` lists, by which
RLP tells the three formats apart, and `of`, a history of what was recorded. What is read
back is compared with `of` itself; `AccessListDropped` names the one case in which they differ.

**StateJournal.** A state object has the code's three maps of slots (`dirty`,
`pending`, `origin`); an entry of the journal has what its revert needs. Operators in
lower case (`createObject`, `listSlot`, `undo`) are the internal functions of the code
on a value of the StateDB; actions are the methods of the interface. Its field `disk` is
what the tries hold: the alloc after `state.New` over a root, nothing after
`MakeOffTheChainStateDB`, whose comment promises to re-open the state after the
commit and whose code uses the committed one. Every action takes its step in
`WorldState` too; the properties compare them. `Prepare` has two guards that the code has not: no
revision is open, and the journal has no entry for the access list or for transient storage. They
stand for its use, after a `Finalise` or at the beginning. `getBalance`
(`backend/hunter/cmd/utils.go:186`) does otherwise: it prepares one StateDB for message after
message without a `Finalise`, and revisions and entries of the last message are then still there. To revert across
such a `Prepare` would be wrong (the entries are of a list that is gone), but nothing does: only
`Call` and its like revert (`backend/core/vm/evm.go:251`, `304`, `348`, `404`, `499`), each to the revision
it took itself, and `statedb.go:893` forbids it.

**TxExtractor and DappRun.** A transaction is a tree of calls; of a call there is
its type, target, kind of input, error and log. `extractcall` is a function by
recursion over the tree; `Recorded` and `EventsOf` say what it should give for a
call without following its recursion. `InOrder` puts a finite set in an order given as a
set of pairs, which is what the sorts of the code do. In `DappRun` a file is missing, torn (opened
and not yet written) or whole, and there is an action between any two file
operations, at each of which `Crash` may come. `Again` is the user who starts a
process that an exception has ended. Names of files are compared digit by digit as
the strings of the code are; `NoGap` compares blocks only, since positions are not filled up, and the
order inside a list after the final sort is modelled but nothing is claimed of it. Mining and checking are functions of the calls given
to them (`InvMiner`), so a verdict is known by these calls.

## 3. Runs

Passing runs:

| Run | Instance | Shows |
|---|---|---|
| `pool_blocks` | 2 workers, 5 recorded blocks (mixed, empty, three that may fail), channels of 2 slots | `TasksConserved`, `CountedSucceeded`, `StopTokensSuffice`, `QuietAfterReturn`, `BlockTotal`, `LoopGivesResults`, refinement `ImplementsBatch`, and `SoundTermination`: the call returns unless a task fails |
| `pool_list` | 2 workers, 5 entries, channels of 4 slots, which is the limit `Workers*ChanFactor + 1` | `SendersNeverStuck`, `ListTotal`, and `Termination`: at this size the call returns even after failures |
| `state_storage` | 2 transactions of 3 instructions, 2 calls deep, an account, a contract with a slot, a coinbase | `Faithful`; `StorageExact`: storage and committed values are exact while no inner call fails |
| `state_ether` | 2 transactions of 2 instructions with ether, creation and self-destruction; the coinbase is a contract, and the address of the new contract already holds ether | `Faithful` for balances, nonces and code |
| `tracer` | 1 transaction of 4 instructions, 3 calls deep, two contracts, an account, a new contract; the target is a contract or the new one | `PreIsEntry`, `DiffExact`, `StatedAligned`, `LocationFresh`, `PanicOnlyUnseen` |
| `miner` | 4 mined calls and 1 checked call of six kinds of token transfers, thresholds 1 and 1/2 | `KeptExactly`: mining call by call gives what a look at all calls gives; `NoFalseAlarm` |
| `substate` | 1 writer, 1 reader, 2 transactions of a block, a creation and a call that share code, old records of both formats, 2 unflushed writes | `RecordsReadBack` after every crash: in every format as recorded, but a Berlin record without its access list;  `ReadersNeverPanic`, refinement `ImplementsStore` |
| `journal` | 3 operations, 2 snapshots, 2 transactions; a contract and the precompile of the touch exception, two slots; both ways of opening | `DirtiesExact`, `AccessTableSound`, `ReadsAsWorld`: the getters answer as plain values would; `SnapshotsKept`: every open snapshot could be restored exactly |
| `dapp` | numbers 1 and 3 over six files, one of them any of 522 call trees, 1 kill | `CallsExact`, `NoGap`, `OneVerdict`, `CacheKept`, and `DoneOrStuck`: if all transactions decode, only a torn cache or a log without topics keeps the work from ending |

Runs that end with a violation, each against a statement of the repository:

| Run | Statement | What happens |
|---|---|---|
| `pool_stuck` | an error is returned immediately (`backend/research/README.md:33`) | after an error nobody reads `doneChan`; with more than `Workers*10 + 1` tasks all workers may block on it, and the call with them |
| `state_slot_lost` | `Call` reverses the state on failure (`backend/core/vm/evm.go:178`) | a slot first read inside a failing inner call reads 0 afterwards |
| `miner_nested` | relations within the threshold are collected (`miner/inv_miner.py:354`) | a relation with two inferred addresses is removed although every call shows it |

Other disagreements met while modelling, without a run:

- `lookupStorage` "assumes `lookupAccount` has been performed on the contract before"
  (`txTracer.go:362`). It has not after a `CreateUnseen`: `CaptureState` returns at
  `txTracer.go:189`, the CREATE2 runs all the same, and the first SLOAD or SSTORE of the
  constructor follows a nil pointer. In the model this is the behaviour `Start`,
  `CreateUnseen`, `Sload`, after which `phase` is `panicked`; `PanicOnlyUnseen` says that
  there is no other way to such a panic;
- the access list of a Berlin record is dropped when it is read
  (`backend/research/substate_rlp.go:233`, which `berlinSubstateMessageRLP` has at `:217`), where
  `substate.go:207` has nil mean that EIP-2930 is not active. `RecordsReadBack` names it
  (`AccessListDropped`) and says that nothing else is lost; the instance has such a record;
- the sender of a failed transaction gets the price of its gas back, against
  `backend/core/state_transition.go:478`: `RevertAccountState` writes a balance older
  than the purchase (`Stale` in `AccountState`);
- after a failed creation the sender's next transaction is rejected by its nonce, or
  the process ends with a nil pointer, and `replay-block` does not return the
  whole block (`backend/hunter/cmd/replayBlock.go:31`); phases `aborted` and `panicked`;
- accounts whose SELFDESTRUCT failed or was undone are pruned from `post`, against
  `txTracer.go:373`; `DiffExact` has the other half, that no deleted one is missed;
- `MakeOffTheChainStateDB` does not re-open the state (`backend/hunter/cmd/utils.go:70`);
  `ReadsAsWorld` shows that no getter tells the difference;
- the list of sub-calls that `extractcall` returns is never filled, against the
  comment at `extractTxs.py:294`, so no program point inside a call is mined;
- a cache torn by a kill makes every later run of the contract raise, and a log
  without topics does the same (`DoneOrStuck` names both);
- option `-ignore_exist` is read and then overwritten (`main.py:182`);
- a created contract whose constructor touched a slot stays in `PreState`, against
  the comment at `txTracer.go:393`;
- of several events of one name the last wins, where the comment at
  `contract.py:452` says the first is recorded;
- membership relations are never counted (`inv_miner.py:602`), and the
  arithmetic models are never constructed because their exceptions are swallowed.

**Bounds.** Two workers and a producer are the smallest pool in which goroutines
take each other's stop tokens and results overtake each other. Five tasks exceed
the channels of `pool_blocks` and meet the limit of `pool_list` exactly.
`pool_stuck` uses the real factor 10, with one worker and the smallest number of
tasks that gets stuck. Two transactions are needed for what one leaves to the
next; depth 2 gives a failing inner call, depth 3 a stated call inside another
call inside a stated one. One slot per account suffices, since hooks and
tracer treat cells one by one. In `journal` three operations are
the shortest sequence in which an account is destroyed or replaced, written and
reverted over; two snapshots give an inner and an outer revert, two transactions a
resurrected account. Its behaviours combine operations on accounts with those on
storage, or those on access list, refund, logs and transient storage (`Mixes`): the two
groups share only the journal. In `dapp` two numbers give a cache that one run leaves
to the next, one kill suffices to tear any file, and the blocks 9 and 10 with `Width`
2 stand for 9,999,999 and 10,000,000 with 8. In `substate` two unflushed writes are
a code and its record. Four calls under threshold 1/2 give two that are searched
and two that are counted, with removal. `MaxOps`, `MaxDepth`, `MaxTxs`, `MaxSnapshots`,
`MaxUnflushed`, `MaxCrashes`, `NumCalls` and `NumChecks` are the named bounds, and appear
only in guards. The symmetry of `journal` permutes the slots, which no definition
tells apart.

**Deadlock** is checked in `pool_list` and `substate`. Elsewhere a behaviour may end: the bounds
of the instance are used up, the process has ended (`dapp`), or, in `pool_blocks`, a failed task was met with
more tasks than the limit, which `pool_stuck` is about.

**Fairness.** The pool and the driver have fairness. In the pool: weak fairness of each goroutine, since
the Go scheduler runs every goroutine that can run. It says nothing about which
case of a select is chosen when two are ready; `Termination` does not need it and
`pool_stuck` is a behaviour with this fairness. A task is assumed to end, as each
is the replay of transactions with a gas limit. In `DappRun`: a process that is
neither killed nor ended takes its next step (`StepsOn`, which is `WF_vars(Step)` with
its `ENABLED` written out), and the user starts a process again that an exception
ended. Kills are bounded by `MaxCrashes` and not forced.

**Mutants.** Each property of a passing run has a mutant, an operator that changes
a definition in the way a plausible bug would (a report that is dropped when the
channel is full, a revert that forgets the StateDB, a state read before the
journal undoes it, a search that counts anew), under which TLC finds the
property violated. They are marked `Mutant:` and used nowhere else.

## 4. Proofs

TLC checks an instance; the theorems below hold for every value of the constants,
with any number of workers, readers, instructions, snapshots or calls.

| Module | Theorem | States |
|---|---|---|
| `TaskPool_proofs` | `TypeCorrect` | `TypeOK`, in particular that no channel overflows |
| | `TasksAreConserved` | `TasksConserved` |
| | `CountedTasksSucceeded` | `CountedSucceeded` |
| | `SendersAreNeverStuck` | `SendersNeverStuck` |
| | `StopTokensAlwaysSuffice` | `StopTokensSuffice` |
| | `NothingAfterReturn` | `QuietAfterReturn`, an action property |
| | `PoolImplementsBatch` | refinement of `TaskBatch` |
| | `BlockTotalExact` | `BlockTotal`, when the tasks are the blocks of the range |
| | `ListTotalExact` | `ListTotal`, when the tasks are the entries of the list |
| `SubstateDB_proofs` | `TypeCorrect` | `TypeOK` |
| | `RecordsAlwaysReadBack` | `RecordsReadBack` |
| | `NoReaderPanics` | `ReadersNeverPanic` |
| | `ImplementsTheStore` | refinement of `SubstateStore` |
| `TxTracer_proofs` | `TypeCorrect` | `TypeOK` |
| | `RecordedStateIsTheEntry` | `PreIsEntry` |
| | `DifferenceIsComplete` | `DiffExact` |
| | `PointersMatchTheStack` | `StatedAligned` |
| | `LocationsAreFresh` | `LocationFresh` |
| | `NilAccountOnlyUnseen` | `PanicOnlyUnseen` |
| `InvMiner_proofs` | `TypeCorrect` | `TypeOK` |
| | `MiningIsExact` | `KeptExactly` |
| | `NoFalseAlarms` | `NoFalseAlarm` |
| `AccountState_proofs` | `TypeCorrect` | `TypeOK` |
| | `StorageIsExact` | `StorageExact` |
| | `CellsFollowChain` | the invariant `FaithInv` (below) |
| | `ReplayIsFaithful` | `Faithful` |
| `StateWorld_proofs` | `TypeCorrect` | `TypeOK` |
| | `GettersReadAsWorld` | `ReadsAsWorld` |
| | `RevertsBringBack` | `SnapshotsKept` |
| | `CountsOfChangesExact` | `DirtiesExact` |
| | `SlotTableSound` | `AccessTableSound` |
| `DappRun_proofs` | `TypeCorrect` | `TypeOK` |
| | `CallsAreExact` | `CallsExact` |
| | `NoGapIsLeft` | `NoGap` |
| | `VerdictIsOfDumps` | `OneVerdict` |
| | `CachesAreKept` | `CacheKept`, an action property |

Each but the first module has a theorem `InductiveInvariant`, from which the
others follow. None of the properties is inductive as it stands; what has to be added
is the substance of the proof.

**TaskPool.** Three layers:

1. `TypeInv`: `TypeOK`, at most `Workers` tokens sent before the caller waits
   (`SentBound`), and a task in the hands of every busy worker (`BusyHasTask`).
2. `PoolInv` adds the homes of a task: `workChan` holds the consecutive indexes
   up to `pNext` (`WorkOrder`); the hands of workers, the reports in `doneChan` and
   what the caller acknowledged are disjoint (`HandsApart`, `ReportsApart`,
   `AckTaken`), and together with tasks whose error was read they are all the
   tasks taken (`NoneLost`). `VerdictsAgree` ties what a report or a worker says to
   `verdict`, and `ReturnMeaning` ties `retErr` and `mIndex` to the state of the
   caller. Conservation, counting, silence and refinement follow.
3. `CountInv` adds cardinalities: reports, hands and received results add up to
   the tasks taken (`ReportCount`), tokens in the channel and tokens taken add up
   to `sent` (`TokenCount`), nobody is left after the return (`AllGone`). With the former a full `doneChan` and a blocked worker
   need more than `ChanCap + 1` tasks; with the latter each goroutine alive has a
   token.

The totals need one more: as long as no task has failed, `totalNumTx` is the number of
elements of the disjoint finite sets that the tasks done so far have counted (`TotalInv`).
For `Execute` such a set is that of the inner transactions of a block, for
`ExecuteWithTx` it is the entry itself or nothing.

**SubstateDB.** A record is *complete* when its codes are in the database. Every
record of every version since the last flush is (`RecordsComplete`), so a crash
may go back to any of them; what a writer has yet to put, together with the codes
that are there, covers the record it will write (`WritersReady`); the records an
iterator holds are complete in the present (`ReadersReady`), which survives
because codes are only removed by a crash, which ends the readers too. Reading back is then a fact about the encoding: the three
formats differ in the length of a list, so a decoder accepts only its own, and only the Berlin
decoder gives up something that its record may have. The
refinement maps the records of each version to what they read as (`ReadAs`).

**TxTracer.** Of every open stated call (`Good`): a cell that is recorded has its value at
entry, and a cell that is *not* recorded still has it in the StateDB (`SeenAtEntry`,
`Untouched`): lazily read "before" values are right because nobody wrote the cell
before the tracer saw the instruction. The writes of a call that fails are undone
to a state that the call above has seen, which keeps `Untouched` for it. `Aligned` has the
pointers in `statedCall` enumerate the stated calls of the stack in order, `Located`
their call sites, and `DeletedKnown` that an account that destroyed itself is known to every
call that can see it. The exceptions are named: the nonce of the contract created by the
transaction itself (`LateIn`), and the contracts in `unseen`. A call knows (`Known`) what it
has recorded or what was made unseen during it, and every contract that runs is known to
every stated call that is open (`Visible`); so a nil account can only be one made unseen.

**InvMiner.** For a relation with at most one inferred address: what an entry counts is the number of calls minus the
calls that missed it (`CountsExact`); the entries are those found in some searched
call and, once the search has ended, missed no more often than the threshold permits (`KeptSoFar`); an
entry is checked with a model that means what its text says (`EntriesFit`), which
needs that names of inferred addresses are names of the call in which they were
inferred. `AllSatisfied` is the case of threshold 1: every mined call satisfies every
entry that is left. `Verdicts` ties the reports to the key invariants.

**AccountState.** Until an inner call fails or a contract destroys itself
(`StorageInv`): a slot not yet touched is on the chain as it was before the block and before the
transaction; a touched one is the same in the StateDB, in the overlay and on the chain,
and its committed value is the one before the transaction (`Exact`); the snapshot of the outermost
call has the storage before the transaction (`Entered`), so that a failed transaction brings
it back. Inner snapshots are not needed while no inner call fails.

`Faithful` has no such condition: inner calls fail and contracts destroy themselves. Its
invariant `FaithInv` is, inside and between transactions, `Linked`:

- `Follows`: a cell that met no loss, if it was touched, is in the StateDB as on the chain; if
  not, the two differ by what the node has, which the hook will add (`CellOK`; for code: the
  StateDB has it, or the node does and `CheckAndSetCode` will put it back);
- `Kept`: whatever was lost, code that is in the StateDB is in the AccountState too, which never
  has fewer copies of it than were committed, and what was not touched has no committed value but
  that of the node;
- `Unwritten`: a cell that was not touched is 0 in the StateDB, or belongs to an account under
  construction; `GoneOK`: the code of an account marked as destroyed shows the mark;
- `StackOK`: the same correspondence of what each open call has saved, so that
  `RevertAccountState` and the journal together lead back to it, and which accounts on the
  stack have code.

**StateDB.** The largest argument, in two modules. `StateJournal_proofs` shows each
internal function to keep `Sound`, which is `Good` of the StateDB and `Kept` of everything a revert
could still return to:

- `Present`: an object that an entry changed is there; `Counted`: the counts of changes are
  the numbers of entries (the precompile's may be larger); `Listed`: what an entry put into the
  access list is there, and no other entry put it. `DeleteSlot` cuts the table of slots at the position of
  an address, which loses the slots of others unless that position is the last one. `Ordered` is why it is: of two
  addresses with slots, the one with the smaller position has a slot that was listed before any slot of
  the other and is undone after them.
- `Kept`: in the state undone to any earlier length of the journal, an account that no remaining
  entry concerns is as the transaction found it (`Clean`): not destroyed, not new, its slots as committed.
- `Follows(t, s, d)`: the state `t` after an operation, undone to any length at which `s`
  can be undone, reads as `s` undone to it (`Same`); `d` allows for the touch of the
  precompile, which the journal leaves in the counts on purpose.

`StateWorld_proofs` then shows of every method that it does on the StateDB what
`WorldState` does on plain values (`Does(s, t, d, w)`). The invariant `Consistent` says that the
StateDB is sound, that it reads as `world`, that revisions have increasing ids and positions within the
journal (`Revisions`), and that the world saved at each open snapshot is what
`revert` to its position would give (`Snapshots`). `FinaliseDoes` also shows that the guard of
`WorldState`'s `Finalise`, by which only the precompile may stay touched, never blocks.

**DappRun.** Three layers:

1. *Extraction.* `extractcall` recurses over the tree; its function is shown to exist and
   to have its defining equation, from the last call to the first, since a call is numbered below
   the calls made in it. Of each call that is visited (`VisitOK`): its list has the recorded
   calls inside it, each once (`Labelled`), with the events that are theirs, and hands up the events that no
   recorded call inside took (`LeftOver`). For the outermost call this is `ExtractExact`: the list
   agrees with `Recorded` and `EventsOf`, which do not follow the recursion.
2. *Names.* Strings of digits are ordered as strings. `KeyOrder`: two block numbers filled up to
   the same width compare as the numbers do; `KeysDiffer`: a name determines its file, because the
   separator ends the first number. So `Ahead` is a strict total order of files (`AheadStrict`), which the
   sort can put in a sequence (`InOrderEnumerates`).
3. *Lists.* `Made(f, m, l, S)`: the list `l` has the calls of the transactions in `S`, each once and
   with its own events, all in the range of the mode, and with a transaction `S` has all that are ahead
   of it and have calls (`NoneAhead`). A sort keeps this (`SortedOK`), and `Selection` makes such a
   list from a cache that is one (`SelectionMade`): the cached transactions are left out of
   those to be read, and those read are a prefix of their order. It yields `CallsExact` and `NoGap`
   of the list.

The invariant `Inv` has this of every list that exists (`ListsOK`, `DumpsOK`), and of the run: a number
that is run has no verdict (`Running`); what is dumped is the sorted list in
memory (`InHand`), so that the verdict written next belongs to it; a cache that is about to be
emptied is in memory (`KeepAll`); what is torn was torn by a kill or is about to be written
(`TornCaches`, `TornVerdicts`).

**Induction.** The library's induction theorem has a predicate as parameter, which the
provers cannot instantiate. The proofs derive from well-foundedness that a set of
numbers with 0 and the successor of each element is `Nat` (`SetInduction`); with it, functions defined by
recursion over a length or a tree (`revert` over the journal, the union of what a writer has to put,
`FlattenSeq`, `Digits`, `extractcall`) are shown to
exist and to have their defining equation, and facts about them are proved step by step.

**Assumptions** on the constants, all evaluated by TLC on the instances: at least
one worker, a factor of at least 1 and an outcome for every task (`PoolAssumption`); the
empty code is a code, old records are records of the older formats, and the marker of an
absent value is no value (`SubstateAssumption`); accounts that are to be created have neither code nor
nonce, senders have no code, a depth of at least 1, a positive gas limit
(`EvmAssumption`, `TracerAssumption`, `StateAssumption`); the variables of a call are names with
values, thresholds are fractions of at most 1 (`MinerAssumption`); zero is a value, the
marker of an absent object is neither a value nor an object, an alloc maps addresses to accounts
(`JournalAssumption`); the recorded transactions of a block are numbered from 0 (a block with a gap, of which
`substate_task.go:112` would pass over the last entries, is outside of the model), and whether one
is inner does not depend on the worker that replays it (`BlockAssumption`); the list is a
sequence of pairs (`ListAssumption`); there are finitely many files, each a tree of calls that are
numbered as they begin (`DappAssumption`), the markers of a missing and of a torn file are neither
lists nor verdicts (`FileAssumption`), and block numbers have at most `Width` digits, which
is 8 in `getTxKey` (`WidthAssumption`).

**What proving showed about the models.** Two lemmas were false at first. In
`InvMiner`, the cases by which the side of a relation is chosen overlapped (now they
exclude each other), and the text of a relation need not hold of a call whose sides have no such
names, so `EntriesFit` has to say where they come from. The assumptions of `StateJournal` did not say that the marker of an absent
object differs from the objects. In `AccountState` the account of losses was not complete: too
few of the cells whose fetch a failing call undoes were named (`Unfetch`), and a
self-destruction hands a lost balance on to the account that takes the ether; the instance now
has a new contract whose address already holds ether. `ExecuteBlock` and the sorts of
`DappRun` are now stated as the sets and orders they amount to, which can be reasoned about (for
`ExecuteBlock` TLC found the set equal to what the loop gives), and the final sort of `DappRun` as
stable, which Python's is: calls with equal names keep their order.

**Only model-checked:** liveness (`Termination`, `SoundTermination`, `DoneOrStuck`), since fairness
and `ENABLED` are beyond this prover; `LoopGivesResults`, whose loop is a recursion over data; and the three runs that end
with a violation, which are about an instance by nature. Every other invariant and every action property that a passing
run checks, and both refinements, are proved.

## 5. Plan

What could be modelled next: in `AccountState` an RPC answer that is lost and becomes zero, and the
replay command without RPC, which keeps one AccountState for many blocks; the
logs and the tree of finished calls of TxTracer; in `InvMiner` arrays, byte strings,
membership relations and `removeRedundantInvs`; `StateJournal` under `AccountState`
in place of its map of cells. With each, the invariants of section 4 are to be
extended before the model is.

## 6. Not modelled

- *The rest of go-ethereum.* The repository is a fork: of its more than 200,000 lines
  of implementation all but some 9,000 (`hunter`, `research`, `txTracer`, the hooks and
  the Python miner) are go-ethereum, and most of these are a node (networking,
  synchronisation, transaction pools, block processing, databases, wallets, RPC
  server, command line) that no command of SmartOracle runs. What SmartOracle added or changed, and the
  StateDB and call frames it runs on, are modelled; the share of all lines that the map
  covers is therefore small and will stay so.
- *In the StateDB*: `IntermediateRoot`, `Commit` and `Copy` (tries and hashes), the caches
  for the snapshot tree, preimages, `SetStorage`, which the replay avoids.
- *Substate types*: fields that are copied, `Equal` functions, JSON.
  `NewSubstateEnvRLP` builds a list that it means to sort and does not; no reader
  depends on its order.
- *Token balances* (`getBalance`, `getBalanceTree`): `balanceOf` over recorded state, a
  conversion of data; `os.Exit` in it ends the process from inside a worker.
- *RPC provider*: requests to a node; its answers are the constant `Chain`.
- *EVM*: precompiles, gas and return data.
- *Storage layout extractor* and `extractDtrace`: hashes and byte offsets, conversions
  without control that TLC could explore.
- *Regression models* of the patterns: floating point. Only one side of the
  difference is compared with the tolerance (`patterns.py:331`).
- *Command line and scripts*: flags, files and printing. `runerc20.py` and
  `runerc20_tx.py` import a module that is not in the repository, so the cached
  storage they ask `extractDtrace` for is never used.
- *Trace parser of hunter*: no command uses it.
