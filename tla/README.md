# A TLA+ development of tiny-coin

tiny-coin is a small Bitcoin node in C++23. This directory holds TLA+ modules that model it,
TLC configurations that check them on small instances, and proofs checked by TLAPS.
Paths such as `core/chain.cpp` are under `src/tiny-lib/`.

## 1. The system

A process is a *miner* or a *wallet* node (`NodeConfig::type`; full nodes are declared but not
written). All state is static and guarded by recursive mutexes. A miner has two threads: the main
thread in `PoW::mine_forever` and the one `io_thread` of Boost.Asio, which runs every message
handler. A wallet node's main thread runs the commands. The sandbox starts the network *before*
`mine_forever`, so peers' blocks arrive while the chain is still being loaded.

| Component | State | Operations | Correct when |
| --- | --- | --- | --- |
| Chain (`core/chain.cpp`) | `active_chain`, `active_chain_index`, `side_branches`, `orphan_blocks`, `last_saved_height`, `chain.dat` | `connect_block`, `disconnect_block`, `reorg_if_necessary`, `try_connect_orphans`, `save_to_disk`, `load_from_disk`, `reset` | one linked chain with the most work; index, coins, pool and file follow it |
| UTXO map (`core/unspent_tx_out.cpp`) | outpoint → output, height, coinbase mark | `add_to_map`, `remove_from_map`, lookups | exactly the unspent outputs of the active chain |
| Transactions (`core/tx.cpp`) | — | `validate_basics`, `validate`, lock times, sequence locks | no spend of a missing, immature, locked or foreign coin |
| Mempool (`core/mempool.cpp`) | id → entry, size | add, replace by fee, limits, eviction, block assembly | disjoint from the chain, no conflicts, within its limits |
| Proof of work (`mining/pow.cpp`) | `mine_interrupt` | retarget, work, subsidy, fees, assemble, mine, initial download | rules as the protocol states them; a stale block is not mined on |
| Fee estimator (`mining/fee_estimator.cpp`) | last recorded blocks | record, unrecord, estimate | follows the active chain |
| Mining backends | nonce search | CPU threads, CUDA, Metal | a found nonce satisfies the target |
| Merkle tree | — | root | same root for same transactions |
| Network client (`net/net_client.cpp`) | `connections`, `miner_connections` | connect, accept, hello, remove, send | lists agree with open sockets |
| Block messages | — | `BlockInfoMsg`, `InvMsg`, `GetBlockMsg` | nodes come to the same chain |
| Query messages, `MsgCache` | one slot per answer | `Get*`/`Send*` | an answer is that of the question |
| Wallet, HD wallet | key files, next indices | coin selection, build, send, replace, status | valid transactions, no address lost |
| Signature cache, crypto, util, CLI | — | — | not part of the protocol |

Interaction: `connect_block` changes the UTXO map, the pool and the fee estimator, sets
`mine_interrupt`, announces the block to a random miner, and calls itself through
`reorg_if_necessary` (`doing_reorg`) and `try_connect_orphans`. Validation reads the UTXO map and,
for fees, the pool. The callers (`BlockInfoMsg::handle`, `InvMsg::handle`, `mine_forever`,
`load_from_disk`) hold no lock of their own and save the chain in a second critical section.

What is hard here: branches that arrive in any order and are abandoned half way; bookkeeping kept
beside the chain through pushes, pops and rollbacks; two threads between connecting and saving;
crashes and a load that races with peers; limits of the orphan pool; a pool of transactions that
spend each other's outputs; nodes that ask one random peer, once; a miner that reads its parts one
lock at a time while the io thread changes them; commands that wait for answers without a request
id. `PROJECT.json` lists each hazard at its line.

## 2. The modules

| Module | Role |
| --- | --- |
| `PoW` | retargeting and block work (`mining/pow.cpp`) |
| `Ledger` | transactions, their validity and fees, and what connecting or disconnecting a block does to the UTXO map |
| `Powers` | powers of two, as a recursive function. EXTENDED by `PoW` and `Mining` |
| `Chain` | the node's chain: state, one action per step, specification, properties; instantiates `BestChain` over its settled chain. EXTENDS `Ledger`, `PoW` |
| `BestChain` | abstract specification: a linked chain replaced only by one with more work |
| `Mempool` | the pool: add, replacement, limits, eviction, block assembly, and what blocks do to it. EXTENDS `Ledger` |
| `Sync` | several nodes: connections, block messages, start, load, initial download, crashes |
| `Mining` | one miner: assembly, `mine()`, the backends, the interrupt, and the io thread beside it |
| `Wallet` | a wallet node: commands, questions and their slots, coin selection, HD wallet and its file |
| `MCMempool`, `MCSync`, `MCMining`, `MCWallet` | small universes for them |
| `MCChain` | small universes of blocks, and that they are `Orderly` and `SpendOnce` |
| `DataProofs` | lemmas about sums over finite sets, folds, recursive functions and sequences |
| `ChainProofs` | chain and index, orphan pool, types of `Chain` |
| `CoinsProofs` | what follows the chain: UTXO map, pool, file, fee history. EXTENDS `ChainProofs` |
| `ReorgProofs` | reorganisations: rollback, refinement of `BestChain`, kept blocks, orphans, money. EXTENDS `CoinsProofs` |
| `MempoolProofs`, `MiningProofs`, `SyncProofs`, `WalletProofs` | theorems about the module of that name |

### How `Chain` corresponds to the code

Every function of `chain.cpp` holds the recursive `Chain::mutex`, so a call of `connect_block` with
all it leads to is one critical section. It is modelled in steps of one block, so that every
intermediate state is visible to the invariants (and to a crash): `at` is the place in the call,
`frames` the calls the caller still makes, `frozen`, `branch`, `startWork`, `forkBlock`, `old`, `pos`
the locals of `reorg_if_necessary`, `try_reorg` and `rollback_reorg`. Environment actions that
need the mutex wait for `Quiet`.

- `ReceiveBlock` starts the connection of a block of `BlockInfoMsg`, or one of an `InvMsg`;
  `ConnectMined` that of the miner; `LoadFromDisk` that of every block of the file.
- `IgnoreSeen`, `RejectBlock`, `StoreOrphan`, `ConnectToActive`, `ConnectAside` are the outcomes of
  `connect_block`; `validate_block` is the five predicates `IsInvalid`, `IsOrphan`, `ExtendsBranch`,
  `OpensBranch`, `ExtendsActive`, which exclude one another.
- `SkipBranch`, `StartReorg`, `ReadOutOfBounds`, `ScanDone` are the scan of the branches;
  `DisconnectTip`, `ForkReached`, `ExtendReorg`, `AbandonReorg`, `CommitReorg`, `RestoreOld`,
  `RollbackDone` the reorganisation. `connect_block(_, true)` is `ConnectInReorg` or `FailInReorg`.
- `ReturnConnected` is the end of a `connect_block`: the interrupt flag, the announcement and the
  orphans that wait for the block, in any order (`unordered_multimap`).
- `SaveToDisk`: by a thread, after its call and in a critical section of its own (`toSave`), or
  inside the loop over the orphans. `FinishLoad` and `FailLoad` end a load.
- `AddTx` is a transaction that enters the pool. The code holds `Mempool::mutex` for the whole of
  it and takes `Chain::mutex` inside, `connect_block` takes them the other way round: apart from
  the deadlock this allows (section 5), an add falls entirely before or after a call.
- `StartMining` clears the interrupt; `Tick` is time;
  `Restart` is a crash at any step and a new start, which keeps only the file.

Abstractions. A block is an id with a parent, transactions, timestamp and claimed difficulty; the
checks that need no chain (hash, Merkle root, form of the coinbase, repeated ids) are the set
`Sound`. Signatures are the set `Signed`. Difficulty is the number of leading zero bits, whose
arithmetic is exact for 17 < bits < 254. `chainFile` is the sequence of blocks in `chain.dat` (an empty one is no
file). Asserts are compiled out in the release build and not modelled. `active_chain[-1]`
(`chain.cpp:526`) is undefined: the model lets it end the process (`at = "crashed"`). The
assume-valid hash is empty in `NetParams`. Rates in the fee estimator and entries' fees are left
out. Coinbases of different heights have different ids (`Tx::create_coinbase` puts the height in
the input). The outputs of the genesis block are not in the map, as in the code.

`Ledger` gives the per-transaction loops in closed form by the last event that touches an outpoint,
which is exact because the ids of a block are distinct (`chain.cpp:110`) and inputs of one
transaction too.

### `Mempool`

`Mempool::mutex` is held for the whole of `add_tx_to_mempool` and of `select_from_mempool`; their
loops are cut into one step a turn and `stage` says which of them holds the mutex.

- `AddFresh` and `ReplaceByFee` are the two ways through `add_tx_to_mempool`, with
  `violates_chain_limits` (`TooDeep`), `has_dust_outputs`, `find_conflicting_txs` and
  `try_replace_by_fee`; both end in `enforce_size_cap` (`EvictWorst`, `EvictionDone`). A refused
  transaction changes nothing that is read again: nobody takes anything out of `orphaned_txs`.
- `StartAssembly`, `PickBest`, `SkipInput`, `AddParentFirst`, `GiveUpAssembly`, `PlaceTx`,
  `FinishAssembly` are `select_from_mempool` with its recursion `try_add_to_block` as `stack`. The
  map has no order, so ties are broken either way.
- `PeerBlock` and `MinedBlock` connect a block, `DisconnectTip` opens a reorganisation of two
  (`owed`), with the order in which `disconnect_block` treats a transaction: the entry and its fee
  first, then the map. Validity, fees and the map come from `Ledger`.

### `Sync`

A node has two threads. The io thread handles one message at a time (`job`), the main thread of a
miner is at `phase`: load, download, mine. Each block is a step, and between two of them
`Chain::mutex` is free, except inside a release of orphans (`calls`) and a load (`loading`).
What `connect_block` does inside one node is the subject of `Chain`: here a block is thrown out by a
node before its parent is looked for (`Refused`, the checks of `chain.cpp:100-153`), or it is valid
wherever it stands. All are of equal difficulty, so work is length and a side branch is the path
from its fork.

- `Boot`, `Crash`: a process starts (main: connect to all that run, both ends say hello) and dies.
  A connection is the peer and which pair of processes it belongs to (`Con`), so a dead one stays
  in the lists until a read (`ReadError`) or a write (`SendTo`) fails. `send_msg_random`, which
  also announces blocks, picks one random miner (`SendRandom`).
- `HandleHello`, `HandleBlockInfo`, `HandleInv`, `HandleGetBlock` with `Answer`,
  `ConnectReceived`, `FinishReceived` are the handlers, cut where they let go of the mutex.
- `StartLoad` to `GiveUp`, `MineBlock` and `SaveMined` are `mine_forever`. Waiting is abstract: `AskNobody` and
  `Stall` may happen whenever their clocks could have run out.

### `Mining`

`ReadTip`, `Select`, `ReadFees`, `MakeCoinbase` are the critical sections of
`assemble_and_solve_block`; `StartSearch` and `CheckResult` the two ends of `mine()`;
`Try`, `Store`, `Poll`, `Join` the CPU threads, whose `found` and `found_nonce` are two atomics set
one after the other; `RunBatch`, `GpuInterrupted`, `CudaFails` the GPU loops with their 64-bit
wrap. `PeerBlock`, `PeerReorg`, `AddTx` are the io thread. A reorganisation holds `Chain::mutex`
from end to end and is cut into one step a block: `ReorgStarts` disconnects the tip, `ReorgConnects`
connects a block of the branch, `ReorgFails` is a block that is refused, `ReorgRollsBack` is
`rollback_reorg`. What takes that mutex waits (`Unlocked`); `Select` and `ReadFees` take only
`Mempool::mutex` and `UTXO::mutex` (`mempool.cpp:46`, `pow.cpp:97`) and may fall between two of the
steps. Time is one bit of the draft: `late` says that the miner's clock is not above the median time
of the blocks below, which may happen to any draft and which only `validate_block` looks at. Hashing
is a set of nonces that solve the header. `stage = "dead"` are the two ways assembly ends a miner for good: a pool that does not
fit into a block, from which `select_from_mempool` never returns, and a coinbase that makes the
block too large, an exception nothing catches (`pow.cpp:108`).

### `Wallet`

The main thread is at `command`, the lines still to be typed are `todo`; a question empties its slot
of `MsgCache`, goes to a random miner and is waited for. Neither questions nor answers carry a
number, as in the code. Miners are external: a pool and the transactions they mined. Steps are the
looks at the slot (`TakeStatus`, `TakeOther`, `SendValue`, `SendValueHd`, `Timeout`), the two halves
of `HDWallet::save` (`Truncate`, `Write`), `Boot` with `init_hd_wallet`, `Crash`, and what the io
thread and the miners do. `BranchAndBound` and `LargestFirst` are the coin selection as recursive
functions; coins are met in the order of the code's search, which keeps the first of the best.
An address is its seed, chain and index. The HD commands are modelled as the library offers them
(`send_value_hd`, `get_new_address`): the sandbox uses the plain wallet.

## 3. What is checked

| Run | Question | States |
| --- | --- | --- |
| `chain_fork` | a non-mining node, any order of the blocks of three branches and of two transactions | ~82 000 |
| `chain_restart` | a miner that dies twice at any step and loads its file while peers send blocks | ~20 000 |
| `chain_child` | (violation) the UTXO map after a block with a parent and its child is disconnected | |
| `chain_twig` | (violation) a fork inside a side branch | |
| `chain_file` | (violation) a failed load followed by an append | |
| `pool` | eight transactions in families and conflicts, any order, with assembly, blocks and reorganisations | ~172 000 |
| `pool_twice` | (violation) two spends of one coin after a reorganisation | |
| `sync` | a miner that stays up and one that dies and returns, with a chain each, in four pairs of files | ~308 000 |
| `sync_reset` | (violation) the first miner of a network | |
| `sync_trio` | (violation) three miners, two of them new | |
| `mining` | a miner on each backend while blocks and transactions come and reorganisations succeed or are rolled back | ~1 537 000 |
| `wallet` | a wallet node and two miners, with losses, late answers and a crash | ~631 000 |

**Properties of `chain_fork`.** `ChainIndexed`: linked chain and exact index at every step.
`UtxoExact`: the map is what the chain alone determines. `PoolIsUnmined`, `FeeHistoryOnChain`,
`FileMatchesChain`: pool, fee history and file follow the chain through reorganisations.
`OrphansWait`, `OrphansBounded`: no orphan is left that could go, and the pool keeps its limit.
`HeaviestIsActive`: between calls no known valid chain has more work, in whatever order blocks came.
`NoInflation`: coins never exceed subsidies. `NoBlockForgotten`: a block put in a chain stays
in one. `OnlyMoreWork`: `Chain` refines `BestChain` — inside a reorganisation the chain counts as
the one it would go back to, so a failed reorganisation must restore it exactly.
`RollbackSucceeds`: `rollback_reorg` does not look at what `connect_block` answers, and need not.
`CallsReturn`: every call ends, and none ends the process by reading outside `active_chain`, unless
the node knows a block that no valid chain leads to. That excuse is taken: the branch of X4 claims
enough work to outweigh the chain after its fork has gone.

**Properties of `pool`.** `BytesExact`: the size kept beside the map is never below the sum of the
entries, or the cap would not hold, and is that sum until a reorganisation. After one it may drift
upwards: `disconnect_block` adds a transaction's size without asking whether its entry is there
already, as a resubmitted transaction that a block with an equal coin had left behind may be
(`chain.cpp:428`). It also checks no cap, so the pool may be over its size until the next add.
`NoDoubleSpendPending`, `FamiliesBounded` and `TemplateConnects` hold until a reorganisation:
after one, `disconnect_block` has put entries back unchecked. `TemplateConnects` says that a
block the assembly is content with has parents first, spends nothing twice and fits.
`NoChildLeftBehind`: whatever is added, replaced or evicted, what could be mined and stays can still
be mined, and a newcomer can be mined too. The one exception is a replacement that spends an output
of what it pushes out: nothing in `try_replace_by_fee` looks for it, and in this run s does it when it
replaces a. It stays without its parent, and assembly gives up at it.
`ReplacementPays`: what pushes others out pays more than all of them. `LoopsEnd`: eviction ends, and
so does assembly *while everything pending fits into one block* — the code's loop has no end when
the best transaction does not fit (`mempool.cpp:366` leaves it among the candidates).

**Properties of `sync`.** `CatchUp`: whenever nothing is under way and no thread has anything to do
but to mine, no miner's chain is shorter than that of a node that stays up, whatever died, was lost,
came late or was mined meanwhile. It is about every state of rest and not only the last, and leaves
out what the code does not recover from:

- a node that, since its start, gave its download up or failed to load (`cleared`): it starts from
  the genesis block while answers to older questions come in, and one of those may end the download;
- two nodes one of which refuses a block on the other's chain (`AtOdds`);
- a last block that was announced into a connection already dead (`dropped`): nobody repeats it, and
  the next block heals it, since its parent is missing and the answer to that makes the node ask
  for the rest;
- a node whose tip the other does not have and that is `CHUNK_SIZE` blocks high or more (`Apart`): the
  answer starts at height 1 (`get_block_msg.cpp:20`) and brings nothing new or nothing heavier,
  however much the two share, and the one after it ends the download (`inv_msg.cpp:29`). TLC finds
  the counterexample as soon as this exemption is dropped; one block lower the node catches up.

`Silence`: the exchange of `InvMsg` and `GetBlockMsg` ends, also between nodes on different branches.
Between two nodes `AtOdds` it does not: the refused block is new in every `InvMsg`, so `GetBlockMsg`
asks for it again, for ever (`inv_msg.cpp:29-58`). `StartsMining`: every miner comes to mine.
`MinersConnected`: no removed connection stays where random sends look.

**Properties of `mining`.** `SolutionIsValid`: the nonce `mine()` reads solves the header, however
threads race. `ExhaustionIsHonest`: "No nonce satisfies required bits" is said only when none does;
exempt are failures of a GPU, among them the weak exchange in the Metal kernel
(`mining_kernel.metal:175`), which may lose a nonce, and the last few nonces the CPU's equal chunks
leave out. `OwnBlockValid`: although the tip, the pool, the fees and the subsidy are read one lock
at a time, some of them inside a reorganisation, a block still on the tip is valid — because the tip
is read first, and because fees read while the tip is disconnected are at most too low. Two kinds of
blocks are lost, and exempt: one whose transactions were picked inside a reorganisation that was
then rolled back, for the pool then held what the old tip has mined (`mempool.cpp:46`,
`chain.cpp:428`), and one whose clock is behind the median time, which nothing compares before the
search (`pow.cpp:91`, `chain.cpp:152`). `InterruptSeen`: from the moment `mine()` has cleared the
flag every change of the chain interrupts the search, once the mutex is free again. A block that comes between the read of the tip and that moment is forgotten; the stale search then
runs to its end. `Mines`: with headers that can be solved and a clock that is right again and again the miner
gets on, or is dead, if reorganisations do not go on for ever.

**Properties of `wallet`.** `StatusHonest`: "not found" after two answers of one miner means that the
miner did not hold the transaction at some moment of the command, or moved it from its chain back to
its pool. A block between the two answers hides nothing, since the pool is asked for before the
chain, and an answer that an earlier command left in its slot is not taken. The code keeps no
more: a reorganisation between the two answers hides a transaction the miner held throughout
(`disconnect_block` puts it into the pool before the block leaves the chain); an answer that comes
after its wait was given up is taken by the next `tx_status`; and two miners need not agree. `CoinsVisible`: after any crash the wallet
that is loaded knows every address it gave out or sent change to, because the lookahead covers the
index that was not saved. `SelectionOptimal`: a transaction without change wastes least, and one
with change could not have done without. `CommandsEnd`: every command ends.

**Bounds.** The three branches of `chain_fork` are of lengths 2 (after `A2`), 3 (`B2 B3 B4`, the
heaviest) and 2 (`X3 X4`): two reorganisations, a rollback (X4 claims work it may not), a branch
whose fork has left the active chain, and orphans two deep. Retargets fall on height 3, the halving too; coins
mature after one block; t1 spends a coinbase and t2 spends t1. The orphan pool takes two blocks and
expires them after one tick, so it overflows and expires. `B5` is too far in the future until the clock moves.
The file, the fee window of 3 and the median of 3 are all exceeded. Time stops at `MaxTime`; `MaxRestarts` bounds crashes.
`chain_fork` has `CHECK_DEADLOCK FALSE` because an out-of-bounds read ends the process.

`pool`: two coins, a chain of three (a, b, e), a child of two parents (d), rivals of a (r, and s,
which also spends an output of a), one with dust; the families, the pool (4 bytes) and the block
(5) overflow; four blocks, two disconnections. In `sync` node A has
the branch `c1 c2 c3 c4`, or nothing and mines `m1 m2`, or has `x1`, which B refuses, and mines `x2`; B
comes with one block of its own on the genesis block or on `c1`, or with two on `c1`; answers
hold three blocks (`CHUNK_SIZE`), so that the last of the four comes with a second answer and the
third pair of files is `Apart`; one retry, one death of the node that is not `Steady`. In `mining` there are 8 nonces, two threads that poll every two tries, batches of
4, so the offset wraps; chains of at most three blocks with the halving inside, two transactions
that spend one coin, one of which fits only without the coinbase; reorganisations one block deep by
branches of two, any of whose blocks may be refused, as often as they come; one GPU failure. In
`wallet` there are three scripts of three or four commands, two transactions, one crash, of the node
or of a miner, and a wait that may run out at its first look (`MAX_AWAIT = 0`); the lookahead is 2, more than what can be unsaved. With as many unsaved addresses as `LOOKAHEAD`
(20) `CoinsVisible` would fail: `get_new_address` never saves. `GivenAddressesFound` has the exact
bound as its hypothesis.

`CHECK_DEADLOCK FALSE` is in the configurations of `Sync`, `Mining` and `Wallet` because these
systems come to rest at the bounds.

**Fairness.** `WF(Connect \/ Reorg)`: a thread that holds the mutex goes on, nothing in the call
waits for anyone (sends are synchronous writes whose result is ignored). Nothing is assumed of the environment.
`Mempool`: the same for the loops under `Mempool::mutex`. `Sync`: each node's io thread and
main thread go on, and who stopped a node starts it again; nobody need mine. `Mining`: the miner
and its worker threads get their turn; no peer need speak and no GPU need fail. `Mines` assumes besides
that the mutex is free from some time on, since a thread that wants it has no claim to it while one
failing branch follows another. `Wallet`: the
main thread runs and time passes; no miner need answer. All are what a scheduler grants a thread
that is not blocked for ever; lock waits are steps that are not enabled.

**Violations.** Each is a disagreement with a sentence of `src/README.md`.

- `chain_child` (line 14, "faithful Unspent Transaction Output tracking"): `disconnect_block`
  undoes transactions first to last. Disconnecting `c3, t1, t2`, where t2 spends t1, removes t1's
  output, then t2 puts it back; it stays unspent though t1 is on no chain.
- `chain_twig` (line 17, "side-branch tracking, fork detection, and automatic chain
  reorganisation"): C3's parent B2 is inside the branch `B2 B3`, and C3 is appended after B3. The
  mixed branch cannot be connected, so the heavier `B2 C3 C4` is never adopted. `chain_fork`
  checks the same property where branches only fork from the active chain.
- `chain_file` (line 19, "restores on startup"): peers' blocks A1 B2 are connected and saved before
  `mine_forever` loads. The load finds A1 known, gives up and clears the chain, but keeps
  `last_saved_height = 2`; a batch A1 A2 A3 is then saved by appending A3 to A1 B2.
  `chain_restart` checks the same property where peers know only one branch, and `chain_fork`'s
  `FileMatchesChain` holds for a node that never loads.
- `pool_twice` (line 48, "Max supply"): r is pending, a block with its rival a is disconnected and
  `disconnect_block` puts a back beside it without looking. Assembly takes both, `validate_block`
  checks each against the coins before the block, and the block connects: coins are made.
- `sync_reset` (line 19, "restores on startup"): a miner with nobody to ask gives up after its
  retries and calls `Chain::reset`, which removes the genesis block too. It mines a block without a
  previous hash at height 0; `save_to_disk` writes from height 1, so that block is never saved and
  the file never loads again.
- `sync_trio` (line 31, "new nodes sync the full chain from peers"): a new node asks one random
  miner, another new one; its answer holds nothing new, which ends the download for good.

## 4. What is proved

Every theorem is for all values of the constants that meet the assumptions the modules declare
(TLC evaluates those in every run), and for every behaviour of `Spec`, without fairness.

### Assumptions

`TxAssumption`, `PeriodAssumption`, `BlockAssumption`, `ParameterAssumption`, `SoundAssumption`,
`PoolAssumption`, `MiningAssumption`, `SyncAssumption`, `WalletAssumption` give types, state what
`validate_basics` and the context-free part of `validate_block` have checked, and that
transactions cannot spend each other in a circle (`PoolAssumption`), nor blocks follow each other in
one (`SyncAssumption`), since an id is a hash of what is spent or followed.

Some theorems about `Chain` need more, always as a hypothesis they name:

- `Orderly(height)`: blocks have heights and those of different heights have different coinbases
  (`Tx::create_coinbase` puts the height in), the genesis block has only its own, other transactions
  have inputs, and in a block a parent stands before its child. The code makes such blocks and does not
  check that others do. `UniverseAssumption` of `MCChain` lets TLC evaluate it on every universe.
- `KinStay`: no disconnected block holds a transaction and its child. Run `chain_child` shows
  that `UtxoExact` fails without it.
- `LoadsFirst`: a load comes before the first block of a peer. Run `chain_file` shows that
  `FileIsChain` fails without it.
- `LoadsSucceed`, `StaysUp`: no load fails (nor, for the second, does the process start over). A
  failed load resets the chain but not the fee estimator, and gives up work by design.
- `SpendOnce`: transactions of one block spend different outputs. Run `pool_twice` shows that nothing
  checks it and that money is made.

Two of `Mempool` and `Sync`, likewise:

- `Orderly` of `Mempool` and `KeepsParents`: see `FamiliesStayBounded` below. `MCMempool` lets TLC evaluate the first.
- `Rooted` of `Sync`: the genesis block is the only one without a previous block, and the files given hold
  chains on it. Run `sync_reset` shows that `Restorable` fails without it: after `Chain::reset` a miner makes
  a block that names none. `MCSync` lets TLC evaluate it on the other universes.

### Theorems and their inductive invariants

**`ChainProofs`**: `ChainAndIndexAgree`, `OrphanPoolBounded`, `TypeCorrect`, `ForkIsMet`. Nothing is
assumed of the tree of blocks (cycles included) or of which blocks are valid.
`IInv == TypeOK /\ ChainIndexed /\ ForkStaysActive /\ LoopsInBounds`. `ChainIndexed` is not inductive
alone: `DisconnectTip` pops the tip, and is right only if the chain stays non-empty. That needs
the fork block to be on the chain, which holds at `StartReorg` because the fork comes out of the
index, and is kept because pops stop at it and a block that is pushed was not on the chain.
Returning from a call needs a frame, and walking `frozen`, `old` and `side_branches` needs
positions in range (`LoopsInBounds`).

**`CoinsProofs`**, on top of `IInv`:

- `UtxoIsTheChains` (`UtxoExact`) and `PoolNeverMined` (`PoolIsUnmined`), if `Orderly` and `KinStay`.
  `CoinInv` says that the map *is* `CoinsOf(activeChain)`, a function of the chain alone, that
  every block on the chain spends what those below it left (`SpendsRight`), is sound and at its
  height (`Placed`), and that the pool has nothing mined. `ConnectExact` and `DisconnectExact`: a
  block more and a block less do to `CoinsOf` what `connect_block` and `disconnect_block` do to
  the map. That a new block brings only new transactions (`ExtensionFindsCoins`) needs the
  heights for coinbases and the order in the block for the others.
- `FileFollowsChain` (`FileMatchesChain`) and `FileRestores` (`FileIsChain`), if `LoadsFirst`. `FileInv`
  adds what the stack of a load looks like: the frames left are the blocks of the file that come
  next, in order, and the active chain is the part already read.
- `FeeHistoryFollows` (`FeeHistoryOnChain`), if `LoadsSucceed`.

**`ReorgProofs`**, if `Orderly` and `KinStay`:

- `RollbackConnects` (`RollbackSucceeds`) and `RollbackRestores`: a rollback connects every block it
  took off and ends with exactly the old chain. `ReorgInv` says that the active chain and the
  settled chain (the one a reorganisation would go back to) are `Good`: each of their blocks would be
  accepted on the blocks below it, by conditions that depend on the chain alone and on a clock that only
  goes on. For that the fees of a block must be a function of the chain: they are if all its
  transactions are in the pool, where `disconnect_block` put them, and `PoolKeeps` says they are still
  there, or in blocks of the new branch, which are disconnected first.
- `ChainRefinesBestChain` (`OnlyMoreWork`), if also `StaysUp`: the initial state maps to the initial
  state, and each step to `Adopt` or a stutter. `Weighs` in `ReorgInv` carries the comparison of
  works from the scan to the commit; a block more is more work (`MoreWork`).
- `BlocksAreKept` (`NoBlockForgotten`). `HeldInv`: while the scan walks over a copy, a side branch holds
  what its copy holds, and beyond that only blocks of branches tried in vain.
- `OrphansAreFetched` (`OrphansWait`). `WaitInv`: no orphan is in a chain, and one whose parent is waits
  for the very block that is being connected, so the return of that call takes it; for this
  every block of a branch must follow one of that branch (`BranchesLinked`).
- `CoinsAreMined` (`NoInflation`), if also `SpendOnce`: along a good chain each block adds to the
  worth of the coins its coinbase and what its transactions make, less what they spend; fees are
  the difference, and the coinbase is allowed subsidy and fees (`BlockWorth`).

**`MempoolProofs`**: `TypeCorrect`, `PoolWeighed` (`BytesExact`), `NoConflictsPending`
(`NoDoubleSpendPending`), `ReplacementsPay`, `ChildrenGoAlong` (`NoChildLeftBehind`), `TemplatesConnect`,
`FamiliesStayBounded` (`FamiliesBounded`).
`PoolInv` is types, sizes and conflicts together; `ChildrenGoAlong` and `ReplacementsPay` are action
properties from it, the former for the newcomer as well (what it spends is in the map or pending and
is not among what goes, unless `ReplacesParent`), the latter comparing sums of fees over sets of descendants that overlap.
`AsmInv` follows the recursion of `try_add_to_block`: what is placed comes after what it spends unless that
is lost for this block, each call on the stack is for a parent of the one below it, and what a
call has seen to is placed, lost, or the next call's business.
`FamiliesStayBounded` is the claim of `src/README.md:59` (25 ancestors, 25 descendants). It holds until
a reorganisation, if `Orderly` (the transactions below are closed under what they spend, and in a block
a parent stands before its child) and if no replacement spends an output of what it pushes out
(`KeepsParents`). `FamInv` says that what is mined or below is closed under what it spends and does not
come back to the pool (`ChainClosed`, `PoolClosed`); so a newcomer has no pending children, and the only
families it makes larger are those that `violates_chain_limits` has looked at. TLC finds that the
hypotheses are needed. Without `KeepsParents`: `t` spends `a`, which spends `c`, and conflicts with `c`, so it
replaces both; `u` and `v` spend `t`; a block brings `c`, `a` is accepted again and has three below it.
Without `ParentsFirst`: in a block `<<b, a>>` where `b` spends `a`, the outputs of `a` go in after `b` took them; `u` and
`v` spend the output of `b`, `b` is accepted a second time, and has both below it unseen.

**`MiningProofs`**: `TypeCorrect`, `SolutionsAreValid`, `ExhaustionHonest`, `OwnBlocksValid`,
`InterruptsSeen`. `IInv` has four parts. `ReorgShape` says where a reorganisation is and what it goes back
to; `Base` is the active chain, or
the one a reorganisation that is going on began with. `DraftBehind` and `DraftCurrent`: `Base`
never returns to the draft's tip once it has left it, so while the tip is the one that was read the
transactions picked outside a reorganisation and the subsidy are still right, and fees that were
read inside one are not too high (`FeesLeftOut`: at worst a coin that the branch has spent is left out).
`SolutionKept`: a thread about to store stands at a solution, and a flag without
a stored solution has a thread about to store. `ThreadsSwept` and `BatchesSwept`: no nonce passed
solves the header.

**`SyncProofs`**: `RemovedForGood` (`MinersConnected`), with the types of the lists and that a stopped node
has none. `TypeCorrect` and `FilesRestore` (`Restorable`), if `Rooted`, from `SyncInv`. The path to a block is
unique (`PathUnique`) and stays inside what the node knows (`PathInside`), so the rival chain
that a reorganisation adopts is linked from the genesis block on (`RivalRight`), nothing known is
lost by it, and an orphan that is not released has still no parent (`AcceptedHolds`). `Staged` ties the main
thread to this: a file is only read before the download, and the chain is only empty after one that
failed, so a failed load goes back to a genesis block that no orphan waits for.

**`WalletProofs`**: `TypeCorrect`, `SelectionsOptimal` (`SelectionOptimal`), `GivenAddressesFound`
(`CoinsVisible`, if fewer addresses than `LOOKAHEAD` were asked for) from `KeyInv`, which relates memory,
file and given addresses in each half of a save; `NotFoundIsHonest` (`StatusHonest`) from `QueryInv`:
of the kinds never given up at most one message is under way or in a slot, that of the present
question (`OneQuestion`), though nothing in a message says so; and each answer is followed from what its
miner held when it gave it (`Followed`), unless the miner let go of the transaction or took it off
its chain since. `WalletInv` is the types together with where things come from: every
transaction in a message, a slot, a pool or a chain was made, so the coins that a peer offers are
coins of made transactions, and sizes and amounts are known. `SelectionsOptimal` is then about the search
alone, for every sequence of coins and every target: below each branch the search meets, for
each selection that reaches the target, that selection or one that is not larger, by induction over
the depth (smallest counterexample). It covers searches that end within `MAX_TRIES`; one that is
cut off gives what it has found, or falls back, as the code does. Ties in the sort do not matter.

**`DataProofs`** is what the others rest on. Induction over data is by smallest counterexample: a set
of subsets of a finite set, or of naturals, each of whose members has a smaller one is empty
(`NoSmallest`, `NoLeast`, from the library's `WFMin`, which speaks of sets and not of operators).
From it: the fold that `MapThenSumSet` chooses exists and is unique, so sums can be split, compared
and rearranged, and recursive functions on naturals meet their equations (`PowersOfTwo`).

### Only model-checked

- `CallsReturn`, `LoopsEnd`, `Silence`, `StartsMining`, `Mines`, `CommandsEnd`: liveness under fairness
  is outside the prover.
- `CatchUp`: an invariant of states at rest, but what makes it true is every message that is still under
  way in the states before, between nodes that reorganise, crash and forget.
- `HeaviestIsActive`: false in general (`chain_twig`); it holds where branches only fork from the active
  chain, and that is a fact about an order of events rather than about a universe.

## 5. What is left

Every invariant that a passing run checks is proved, but `CatchUp` and `HeaviestIsActive`; the latter would
first have to be restated for a class of histories in which it is true.

**Not modelled, and why.**

- Lock order. `connect_block` takes `Chain::mutex` then `Mempool::mutex`, `add_tx_to_mempool` the
  other way round: a deadlock that is plain from the two lines. Every module takes a critical
  section for one step or shows its holder, so waiting for a second lock is not seen.
- A crash inside `save_to_disk` and a file that does not parse: byte layout. The block count is
  written before the blocks, so a torn append makes the node start from the genesis block.
- The dependence of a side block's verdict on the median time when it arrives, and of a verdict on
  fees on the pool: they need universes in which two nodes judge the same block differently.
- Replacement from a wallet node. `rbf_tx` looks for the transaction in the node's own pool,
  which nothing fills (`wallet.cpp:237`), so the command ends there (`TakeOther`); its builder, which
  takes the last output for the change even when it is the payment (`wallet.cpp:296`), is
  reached only through the variants for miners, which only tests call.
- A second send before the first is mined picks the same coins, since the question is for the UTXO
  set; `Wallet` makes such transactions, and miners replace one by the other.
- Two losses of the HD wallet that its properties exempt or its bounds exclude: a crash between the
  two halves of a save loses the seed, and the next start writes a new one (`wallet.cpp:798`); as
  many unsaved requested addresses as the lookahead.
- Late or mixed answers: a status after an answer to a question that was given up, or of two
  different miners, may be wrong and `StatusHonest` leaves it out; so may "not found" of a
  transaction that its miner moved from the chain to the pool between its two answers. The run has
  no second send before a status, so that a rival replaced meanwhile is covered by the proof only.
- A replacement that spends an output of what it pushes out, blocks of a miner with a slow clock or
  with transactions picked inside a reorganisation that was rolled back, a node that refuses a block of
  another or whose own tip is too high for the first answer: the code has no guard, the
  properties say so (section 3) and hold for the rest.
- `active_chain[-1]` read by valid blocks alone: it takes a branch heavier than the whole active chain
  whose fork has gone, longer than the universes of `Chain`.
- SHA-256 on devices and elsewhere, signatures, key derivation, Merkle roots, encodings, byte
  formats, logging and option parsing: no protocol state. The signature cache changes no verdict.
- Retargeting outside 17 < bits < 254, time locks in seconds, and the fee estimates, which only
  print. `expire_old_transactions` has no caller, and
  `orphaned_txs` is filled and never read.
- A chain in a wallet node: only `mine_forever` loads or downloads one, and blocks are announced to
  miners only.
- Full nodes, which the code declares and does not implement; `PeerAddMsg` and `broadcast_msg`,
  which nothing sends.

## 6. Running

    tlc -workers 2 -config MCChainFork.cfg MCChain      # likewise the other MCChain*.cfg
    tlc -workers 2 -config MCMempool.cfg MCMempool      # MCMempoolTwice.cfg
    tlc -workers 2 -config MCSync.cfg MCSync            # MCSyncReset.cfg, MCSyncTrio.cfg
    tlc -workers 2 -config MCMining.cfg MCMining
    tlc -workers 2 -config MCWallet.cfg MCWallet
    tlapm ReorgProofs.tla        # likewise DataProofs, ChainProofs, CoinsProofs, MempoolProofs,
                                 # MiningProofs, SyncProofs, WalletProofs
