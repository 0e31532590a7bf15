------------------------------- MODULE Chain --------------------------------
(***************************************************************************)
(* One node's block chain: src/tiny-lib/core/chain.cpp with the parts of   *)
(* the UTXO map, the memory pool, the fee estimator and the chain file     *)
(* that it changes.                                                        *)
(*                                                                         *)
(* Every function of chain.cpp holds the recursive mutex Chain::mutex, so  *)
(* one call of connect_block, with the reorganisation it may make and the  *)
(* orphans it may connect, is one critical section.  It is cut here into   *)
(* steps that connect or disconnect one block each.  "at" says where the   *)
(* running call is, "frames" is what remains of its call stack, and no     *)
(* other call starts before it returns.  The thread that made the call     *)
(* (the network's or the miner's) saves the chain afterwards, in a second  *)
(* critical section ("toSave").                                            *)
(*                                                                         *)
(* Heights are those of the code, counted from 0 at the genesis block;     *)
(* activeChain[h + 1] is the block at height h.                            *)
(***************************************************************************)
EXTENDS Ledger, PoW, SequencesExt

CONSTANTS Blocks,           \* block ids
          Genesis,          \* genesis_block
          Parent,           \* prev_block_hash of every other block
          TxsOf,            \* the transactions of each block, coinbase first
          Stamp,            \* timestamp of each block
          Bits,             \* difficulty each block claims
          Honest,           \* blocks all of whose chain is valid
          Sound,            \* blocks that pass the checks that need no chain
          InitialSubsidy,   \* 50 * COIN
          HalvingBlocks,    \* HALVE_SUBSIDY_AFTER_BLOCKS_NUM
          MtpWindow,        \* the 11 of get_median_time_past(11)
          MaxFuture,        \* MAX_FUTURE_BLOCK_TIME_IN_SECS
          MaxOrphans,       \* MAX_ORPHAN_BLOCKS
          OrphanExpiry,     \* ORPHAN_BLOCK_EXPIRE_SECS
          FeeWindow,        \* MAX_HISTORY_BLOCKS of the fee estimator
          IsMiner,          \* the node runs mine_forever
          MaxTime,          \* bound: the clock stops here
          MaxRestarts       \* bound: how often the process may be restarted

NonGenesis == Blocks \ {Genesis}

ASSUME BlockAssumption ==
  /\ Genesis \in Blocks
  /\ Parent \in [NonGenesis -> Blocks]
  /\ TxsOf \in [Blocks -> Seq(Txs)]
  /\ Stamp \in [Blocks -> Nat]
  /\ Bits \in [Blocks -> Nat]
  /\ Sound \subseteq Blocks /\ Honest \subseteq Blocks

\* What the checks without context of validate_block leave.
ASSUME SoundAssumption ==
  \A b \in Sound :
    /\ TxsOf[b] # <<>>
    /\ TxsOf[b][1] \in Coinbases
    /\ \A i \in DOMAIN TxsOf[b] : i > 1 => TxsOf[b][i] \notin Coinbases
    /\ IsInjective(TxsOf[b])

ASSUME ParameterAssumption ==
  /\ {InitialSubsidy, MaxFuture, OrphanExpiry, MaxTime, MaxRestarts} \subseteq Nat
  /\ {HalvingBlocks, MtpWindow, MaxOrphans, FeeWindow} \subseteq Nat \ {0}
  /\ IsMiner \in BOOLEAN

(***************************************************************************)
(* What else is true of blocks that miners running this code make, and is  *)
(* not checked by it: a coinbase holds its height (Tx::create_coinbase),   *)
(* so blocks of different heights have different ones, and the genesis     *)
(* block has only its own; Tx::validate_basics refuses a transaction       *)
(* without inputs; and a transaction stands in its block after those of    *)
(* the block that it spends.  Only theorems that name it depend on it.     *)
(***************************************************************************)
IsHeight(height) ==
  /\ height \in [Blocks -> Nat] /\ height[Genesis] = 0
  /\ \A b \in NonGenesis : height[b] = height[Parent[b]] + 1

Orderly(height) ==
  /\ IsHeight(height)
  /\ \A a, b \in Sound \cup {Genesis} :
       Elements(TxsOf[a]) \cap Elements(TxsOf[b]) \cap Coinbases # {}
         => height[a] = height[b]
  /\ Elements(TxsOf[Genesis]) \subseteq Coinbases
  /\ \A t \in Txs \ Coinbases : Ins[t] # {}
  /\ \A b \in Sound : \A i, j \in DOMAIN TxsOf[b] :
       Ins[TxsOf[b][i]] \cap OutsOf(TxsOf[b][j]) # {} => j < i

\* No two transactions of a block spend the same output.  Nothing checks it:
\* each is validated against the map as it is before the block.
SpendOnce ==
  \A b \in Sound : \A t, u \in Elements(TxsOf[b]) :
    t # u => Ins[t] \cap Ins[u] = {}

VARIABLES
  activeChain,       \* active_chain
  activeChainIndex,  \* active_chain_index: block id to height
  sideBranches,      \* side_branches
  orphans,           \* orphan_blocks: blocks with the time they were kept at
  utxo,              \* UTXO::map
  mempool,           \* ids in Mempool::map
  feeHistory,        \* ids in FeeEstimator::block_fee_history
  mineInterrupt,     \* PoW::mine_interrupt
  chainFile,         \* blocks in chain.dat, from height 1 (empty: no file)
  lastSaved,         \* last_saved_height
  loaded,            \* load_from_disk has been called by this process
  toSave,            \* threads between their connect_block and their save_to_disk
  now,               \* the clock
  restarts,          \* restarts so far
  sent,              \* block messages the last step gave to NetClient
  at,                \* where the running connect_block is
  frames,            \* calls that remain to be made by the running call
  landed,            \* chain_idx of the running connect_block is the active chain's
  frozen,            \* frozen_side_branches of reorg_if_necessary
  branch,            \* branch_idx
  startWork,         \* active_chain_work
  forkBlock,         \* fork_block
  old,               \* old_active_chain (disconnected_chain while it grows)
  pos                \* position in the loop over the branch, or over old

chainVars  == <<activeChain, activeChainIndex, sideBranches>>
ledgerVars == <<utxo, mempool, feeHistory>>
fileVars   == <<chainFile, lastSaved, loaded>>
diskVars   == <<fileVars, toSave>>
envVars    == <<now, restarts>>
callVars   == <<at, frames, landed>>
reorgVars  == <<frozen, branch, startWork, forkBlock, old, pos>>

vars == <<chainVars, orphans, ledgerVars, mineInterrupt, diskVars, envVars,
          sent, callVars, reorgVars>>

-----------------------------------------------------------------------------
(* Lookups. *)

Tip == activeChain[Len(activeChain)]

\* locate_block_in_active_chain goes through the index.
OnActive(b) == b \in DOMAIN activeChainIndex

\* locate_block_in_chain over each side branch: the first branch that has b.
BranchesWith(b) == {i \in DOMAIN sideBranches : Contains(sideBranches[i], b)}
IsFirstBranchWith(i, b) ==
  /\ i \in BranchesWith(b)
  /\ \A j \in BranchesWith(b) : i <= j

\* locate_block_in_all_chains.
Known(b) == OnActive(b) \/ BranchesWith(b) # {}

\* The middle one, the later of two, of the last n times of the chain.
MedianTime(chain, n) ==
  LET I == Len(chain) - n + 1 .. Len(chain)
      Before(t) == Cardinality({i \in I : Stamp[chain[i]] < t})
      UpTo(t) == Cardinality({i \in I : Stamp[chain[i]] <= t})
  IN  CHOOSE t \in {Stamp[chain[i]] : i \in I} :
        Before(t) <= n \div 2 /\ UpTo(t) > n \div 2

\* get_median_time_past(11) is 0 until the chain is that long.
MedianTimePast ==
  IF MtpWindow > Len(activeChain) THEN 0 ELSE MedianTime(activeChain, MtpWindow)

\* get_next_work_required for a block on the tip.
NextBits ==
  IF Len(activeChain) % PeriodBlocks # 0
  THEN Bits[Tip]
  ELSE LET first == Max({Len(activeChain) - PeriodBlocks + 1, 1})
       IN  Retarget(Bits[Tip], Stamp[Tip] - Stamp[activeChain[first]])

Subsidy(height) == InitialSubsidy \div TwoTo[height \div HalvingBlocks]

ChainWork(chain) ==
  MapThenSumSet(LAMBDA i : BlockWork(Bits[chain[i]]), DOMAIN chain)

-----------------------------------------------------------------------------
(* validate_block: exactly one of the next five holds of a block. *)

\* The checks made before the previous block is looked up.
Timely(b) ==
  /\ b \in Sound
  /\ Stamp[b] - now <= MaxFuture
  /\ Stamp[b] > MedianTimePast

IsOrphan(b) == Timely(b) /\ ~Known(Parent[b])

\* The previous block is in a side branch, at its end or not: that branch.
ExtendsBranch(b, i) ==
  /\ Timely(b)
  /\ ~OnActive(Parent[b])
  /\ IsFirstBranchWith(i, Parent[b])

\* The previous block is inside the active chain: a new branch.
OpensBranch(b) == Timely(b) /\ OnActive(Parent[b]) /\ Parent[b] # Tip

(***************************************************************************)
(* The checks made only of a block that would be the next of the active    *)
(* chain: its difficulty, its transactions, each against the map as it is  *)
(* before the block and the other transactions of the block, and what its  *)
(* coinbase takes.                                                         *)
(***************************************************************************)
ValidOnTip(b) ==
  LET txs    == NonCoinbase(TxsOf[b])
      height == Len(activeChain)
  IN  /\ Bits[b] = NextBits
      /\ \A t \in txs : ValidTx(t, utxo, OutsOfAll(txs), height)
      /\ TotalValue(OutsOf(TxsOf[b][1]))
           <= Subsidy(height) + TotalFees(txs, utxo, mempool)

ExtendsActive(b) ==
  /\ Timely(b)
  /\ OnActive(Parent[b]) /\ Parent[b] = Tip
  /\ ValidOnTip(b)

IsInvalid(b) ==
  \/ ~Timely(b)
  \/ OnActive(Parent[b]) /\ Parent[b] = Tip /\ ~ValidOnTip(b)

-----------------------------------------------------------------------------
(* The changes the functions of chain.cpp make, one block at a time. *)

BlockInfo(b) == [type |-> "BlockInfo", block |-> b]
GetBlock(b) == [type |-> "GetBlock", block |-> b]

\* Mutant of IndexBlock: the size before the push, less one twice.
IndexTooLow(b, height) ==
  activeChainIndex' = [a \in DOMAIN activeChainIndex \cup {b} |->
                         IF a = b THEN height - 2 ELSE activeChainIndex[a]]

IndexBlock(b, height) ==
  activeChainIndex' = [a \in DOMAIN activeChainIndex \cup {b} |->
                         IF a = b THEN height ELSE activeChainIndex[a]]

\* Mutant of UnindexBlock: the block stays in the index.
KeepIndexed(b) == UNCHANGED activeChainIndex

UnindexBlock(b) ==
  activeChainIndex' = [a \in DOMAIN activeChainIndex \ {b} |-> activeChainIndex[a]]

\* rebuild_active_chain_index, only called of the genesis block alone.
RebuildIndex == activeChainIndex' = [b \in {Genesis} |-> 0]

\* Mutant of ForgetUtxo.
KeepUtxo == UNCHANGED utxo

ForgetUtxo == utxo' = <<>>

\* Mutant of RemoveFromPool.
KeepInPool(b) == UNCHANGED mempool

\* Mempool::remove_entry of each transaction of a block.
RemoveFromPool(b) == mempool' = mempool \ Elements(TxsOf[b])

(***************************************************************************)
(* FeeEstimator::record_block and unrecord_block; the rates it keeps with  *)
(* each block are left out, only later estimates read them.                *)
(***************************************************************************)
RecordBlock(b) ==
  feeHistory' =
    IF Contains(feeHistory, b) THEN feeHistory
    ELSE LET longer == Append(feeHistory, b)
             from == Max({Len(longer) - FeeWindow + 1, 1})
         IN  SubSeq(longer, from, Len(longer))

\* Mutant of UnrecordBlock.
KeepRecorded(b) == UNCHANGED feeHistory

UnrecordBlock(b) ==
  \/ \E i \in DOMAIN feeHistory :
       feeHistory[i] = b /\ feeHistory' = RemoveAt(feeHistory, i)
  \/ ~Contains(feeHistory, b) /\ UNCHANGED feeHistory

\* connect_block: the block becomes the tip and its transactions take effect.
PushOnActive(b) ==
  /\ activeChain' = Append(activeChain, b)
  /\ IndexBlock(b, Len(activeChain))
  /\ RemoveFromPool(b)
  /\ utxo' = ConnectTxs(utxo, TxsOf[b], Len(activeChain) + 1)
  /\ RecordBlock(b)
  /\ UNCHANGED <<sideBranches, orphans>>

PushOnBranch(b, i) ==
  /\ sideBranches' = [sideBranches EXCEPT ![i] = Append(@, b)]
  /\ UNCHANGED <<activeChain, activeChainIndex, orphans, ledgerVars>>

PushOnNewBranch(b) ==
  /\ sideBranches' = Append(sideBranches, <<b>>)
  /\ UNCHANGED <<activeChain, activeChainIndex, orphans, ledgerVars>>

\* A block goes to a side branch, old or new.
PushAside(b) ==
  \/ \E i \in DOMAIN sideBranches : ExtendsBranch(b, i) /\ PushOnBranch(b, i)
  \/ OpensBranch(b) /\ PushOnNewBranch(b)

(***************************************************************************)
(* connect_block of an orphan: the expired orphans go, then the oldest     *)
(* while the pool is full (the code does not say which of two equally old  *)
(* ones), then the block is kept and its parent asked for, unless it is    *)
(* still there.                                                            *)
(***************************************************************************)
Unexpired == {o \in orphans : now - o.since <= OrphanExpiry}

\* Mutant of KeptOrphans: room is made only when the pool is over its size.
KeptOneTooMany ==
  {kept \in SUBSET Unexpired :
     /\ Cardinality(kept) = Min({Cardinality(Unexpired), MaxOrphans})
     /\ \A o \in kept, gone \in Unexpired \ kept : gone.since <= o.since}

KeptOrphans ==
  {kept \in SUBSET Unexpired :
     /\ Cardinality(kept) = Min({Cardinality(Unexpired), MaxOrphans - 1})
     /\ \A o \in kept, gone \in Unexpired \ kept : gone.since <= o.since}

KeepOrphan(b) ==
  /\ \E kept \in KeptOrphans :
       IF \E o \in kept : o.block = b
       THEN orphans' = kept /\ sent' = {}
       ELSE /\ orphans' = kept \cup {[block |-> b, since |-> now]}
            /\ sent' = {GetBlock(Parent[b])}
  /\ UNCHANGED <<chainVars, ledgerVars>>

NothingConnected ==
  sent' = {} /\ UNCHANGED <<chainVars, orphans, ledgerVars>>

(***************************************************************************)
(* Where an outpoint was made: find_tx_out_for_tx_in_in_active_chain       *)
(* looks from the genesis block up and stops at the first transaction with *)
(* the id.                                                                 *)
(***************************************************************************)
HeightsOf(t) == {i \in DOMAIN activeChain : t \in Elements(TxsOf[activeChain[i]])}

EntryInActiveChain(p) ==
  [coinbase |-> p[1] \in Coinbases, height |-> Min(HeightsOf(p[1]))]

\* Mutant of ForgetSaved.
KeepSaved == UNCHANGED lastSaved

ForgetSaved == lastSaved' = 0

\* disconnect_block, of the tip.
PopTip ==
  LET txs   == TxsOf[Tip]
      found == {p \in PutBack(txs) : HeightsOf(p[1]) # {}}
      entry == [p \in found |-> EntryInActiveChain(p)]
  IN
  /\ activeChain' = Front(activeChain)
  /\ UnindexBlock(Tip)
  /\ mempool' = mempool \cup NonCoinbase(txs)
  /\ utxo' = DisconnectTxs(utxo, txs, entry)
  /\ UnrecordBlock(Tip)
  /\ ForgetSaved
  /\ sent' = {}
  /\ UNCHANGED <<sideBranches, orphans, mineInterrupt, chainFile, loaded, toSave>>

-----------------------------------------------------------------------------
(* Calls and returns. *)

Frame(op, b) == [op |-> op, block |-> b]

SaveFrame == Frame("save", Genesis)
LoadedFrame == Frame("loaded", Genesis)
WipeFrame == Frame("wipe", Genesis)

\* No call is running: the mutex is free.
Quiet == at = "idle" /\ frames = <<>>

\* The next thing the running call does is op (on the block b).
NextCallIs(op) == at = "idle" /\ frames # <<>> /\ Head(frames).op = op

\* connect_block runs for a peer's block, the miner's, an orphan or load_from_disk.
Connecting(b) ==
  /\ \E op \in {"receive", "mine", "orphan", "load"} : NextCallIs(op)
  /\ b = Head(frames).block

(***************************************************************************)
(* connect_block returns -1.  load_from_disk stops there and gives         *)
(* everything up; the miner saves the chain even so.                       *)
(***************************************************************************)
ReturnFailure ==
  LET op == Head(frames).op IN
  /\ frames' = IF op = "load" THEN <<WipeFrame>> ELSE Tail(frames)
  /\ toSave' = toSave \cup (IF op = "mine" THEN {"miner"} ELSE {})

(***************************************************************************)
(* The end of a connect_block that put the block into a chain: the orphans *)
(* that wait for it are taken out of the pool, to be connected one after   *)
(* the other, and then the caller goes on.  try_connect_orphans saves the  *)
(* chain at once; load_from_disk wants the block on the active chain.      *)
(***************************************************************************)
CallerGoesOn ==
  LET op == Head(frames).op
  IN  CASE op = "orphan"            -> <<SaveFrame>> \o Tail(frames)
        [] op = "load" /\ ~landed   -> <<WipeFrame>>
        [] OTHER                    -> Tail(frames)

SavesNext ==
  CASE Head(frames).op = "receive" -> {"net"}
    [] Head(frames).op = "mine"    -> {"miner"}
    [] OTHER                       -> {}

\* The local variables of reorg_if_necessary and try_reorg are gone.
NoReorg ==
  /\ frozen = <<>> /\ branch = 0 /\ startWork = 0
  /\ forkBlock = Genesis /\ old = <<>> /\ pos = 0

ForgetReorg ==
  /\ frozen' = <<>> /\ branch' = 0 /\ startWork' = 0
  /\ forkBlock' = Genesis /\ old' = <<>> /\ pos' = 0

\* Mutant of Waiting: try_connect_orphans is not called.
NoneWaiting(b) == {}

Waiting(b) == {o.block : o \in {p \in orphans : Parent[p.block] = b}}

ReturnConnected(reorganised) ==
  LET b == Head(frames).block IN
  /\ at' = "idle"
  /\ \E candidates \in SetToSeqs(Waiting(b)) :
       frames' = [i \in DOMAIN candidates |-> Frame("orphan", candidates[i])]
                   \o CallerGoesOn
  /\ toSave' = toSave \cup SavesNext
  /\ orphans' = {o \in orphans : o.block \notin Waiting(b)}
  /\ mineInterrupt' = (mineInterrupt \/ reorganised \/ landed)
  /\ sent' = {BlockInfo(b)}
  /\ landed' = FALSE
  /\ ForgetReorg

-----------------------------------------------------------------------------
Init ==
  /\ activeChain = <<Genesis>>
  /\ activeChainIndex = [b \in {Genesis} |-> 0]
  /\ sideBranches = <<>>
  /\ orphans = {}
  /\ utxo = <<>>
  /\ mempool = {}
  /\ feeHistory = <<>>
  /\ mineInterrupt = FALSE
  /\ chainFile = <<>> /\ lastSaved = 0 /\ loaded = FALSE /\ toSave = {}
  /\ now = 0 /\ restarts = 0
  /\ sent = {}
  /\ at = "idle" /\ frames = <<>> /\ landed = FALSE
  /\ NoReorg

-----------------------------------------------------------------------------
(* What the rest of the node does to the chain. *)

\* BlockInfoMsg::handle: a peer's block is connected, and the chain saved if
\* the block went into a chain.  InvMsg::handle connects several before it saves.
ReceiveBlock(b) ==
  /\ Quiet
  /\ frames' = <<Frame("receive", b)>>
  /\ sent' = {}
  /\ UNCHANGED <<chainVars, orphans, ledgerVars, mineInterrupt, diskVars, envVars,
                 at, landed, reorgVars>>

\* mine_forever: the node's own block is connected, and the chain saved
\* whatever came of it.
ConnectMined(b) ==
  /\ Quiet
  /\ IsMiner /\ loaded /\ "miner" \notin toSave
  /\ b \in Sound
  /\ frames' = <<Frame("mine", b)>>
  /\ sent' = {}
  /\ UNCHANGED <<chainVars, orphans, ledgerVars, mineInterrupt, diskVars, envVars,
                 at, landed, reorgVars>>

(***************************************************************************)
(* Mempool::add_tx_to_mempool of a transaction that conflicts with none of *)
(* the pool and that the policies (dust, limits, size) let in.             *)
(***************************************************************************)
AddTx(t) ==
  /\ Quiet
  /\ t \notin Coinbases \cup mempool
  /\ ValidTx(t, utxo, OutsOfAll(mempool), Len(activeChain))
  /\ \A m \in mempool : Ins[m] \cap Ins[t] = {}
  /\ mempool' = mempool \cup {t}
  /\ sent' = {}
  /\ UNCHANGED <<chainVars, orphans, utxo, feeHistory, mineInterrupt, diskVars,
                 envVars, callVars, reorgVars>>

\* PoW::mine clears the request to stop and starts on a new block.
StartMining ==
  /\ IsMiner /\ loaded
  /\ mineInterrupt
  /\ mineInterrupt' = FALSE
  /\ sent' = {}
  /\ UNCHANGED <<chainVars, orphans, ledgerVars, diskVars, envVars, callVars,
                 reorgVars>>

\* load_from_disk, called once by a mining node while peers already talk to
\* it.  Nothing happens when there is no file.
LoadFromDisk ==
  /\ Quiet
  /\ IsMiner
  /\ ~loaded
  /\ loaded' = TRUE
  /\ frames' = IF chainFile = <<>> THEN <<>>
               ELSE [i \in DOMAIN chainFile |-> Frame("load", chainFile[i])]
                      \o <<LoadedFrame>>
  /\ sent' = {}
  /\ UNCHANGED <<chainVars, orphans, ledgerVars, mineInterrupt, chainFile, lastSaved,
                 toSave, envVars, at, landed, reorgVars>>

Tick ==
  /\ Quiet
  /\ now < MaxTime
  /\ now' = now + 1
  /\ sent' = {}
  /\ UNCHANGED <<chainVars, orphans, ledgerVars, mineInterrupt, diskVars, restarts,
                 callVars, reorgVars>>

\* The process dies at any point and is started again.  Only the file stays.
Restart ==
  /\ restarts < MaxRestarts
  /\ restarts' = restarts + 1
  /\ activeChain' = <<Genesis>>
  /\ activeChainIndex' = [b \in {Genesis} |-> 0]
  /\ sideBranches' = <<>>
  /\ orphans' = {}
  /\ utxo' = <<>>
  /\ mempool' = {}
  /\ feeHistory' = <<>>
  /\ mineInterrupt' = FALSE
  /\ lastSaved' = 0 /\ loaded' = FALSE /\ toSave' = {}
  /\ sent' = {}
  /\ at' = "idle" /\ frames' = <<>> /\ landed' = FALSE
  /\ ForgetReorg
  /\ UNCHANGED <<chainFile, now>>

-----------------------------------------------------------------------------
(* connect_block(block), not called by a reorganisation. *)

IgnoreSeen(b) ==
  /\ Connecting(b)
  /\ Known(b)
  /\ NothingConnected
  /\ ReturnFailure
  /\ UNCHANGED <<mineInterrupt, fileVars, envVars, at, landed, reorgVars>>

RejectBlock(b) ==
  /\ Connecting(b)
  /\ ~Known(b)
  /\ IsInvalid(b)
  /\ NothingConnected
  /\ ReturnFailure
  /\ UNCHANGED <<mineInterrupt, fileVars, envVars, at, landed, reorgVars>>

StoreOrphan(b) ==
  /\ Connecting(b)
  /\ ~Known(b)
  /\ IsOrphan(b)
  /\ KeepOrphan(b)
  /\ ReturnFailure
  /\ UNCHANGED <<mineInterrupt, fileVars, envVars, at, landed, reorgVars>>

\* reorg_if_necessary begins: it works on a copy of the side branches.
StartScan ==
  /\ at' = "scan"
  /\ frozen' = sideBranches'
  /\ branch' = 1
  /\ startWork' = ChainWork(activeChain')
  /\ UNCHANGED <<frames, forkBlock, old, pos>>

ConnectToActive(b) ==
  /\ Connecting(b)
  /\ ~Known(b)
  /\ ExtendsActive(b)
  /\ PushOnActive(b)
  /\ landed' = TRUE
  /\ sent' = {}
  /\ StartScan
  /\ UNCHANGED <<mineInterrupt, diskVars, envVars>>

ConnectAside(b) ==
  /\ Connecting(b)
  /\ ~Known(b)
  /\ PushAside(b)
  /\ landed' = FALSE
  /\ sent' = {}
  /\ StartScan
  /\ UNCHANGED <<mineInterrupt, diskVars, envVars>>

\* Mutant of SavedFile: the append starts one block early.
SavedTwice ==
  IF lastSaved > 0 /\ lastSaved < Len(activeChain) - 1
  THEN chainFile \o SubSeq(activeChain, lastSaved + 1, Len(activeChain))
  ELSE Tail(activeChain)

\* chain.dat after a save: the new blocks at its end, or all of them.
SavedFile ==
  IF lastSaved > 0 /\ lastSaved < Len(activeChain) - 1
  THEN chainFile \o SubSeq(activeChain, lastSaved + 2, Len(activeChain))
  ELSE Tail(activeChain)

WriteFile ==
  /\ lastSaved' = Len(activeChain) - 1
  /\ chainFile' = SavedFile
  /\ sent' = {}
  /\ UNCHANGED <<chainVars, orphans, ledgerVars, mineInterrupt, loaded, envVars, at,
                 landed, reorgVars>>

\* save_to_disk, called by a thread, or in the loop over the orphans.
SaveToDisk ==
  \/ /\ Quiet
     /\ \E thread \in toSave : toSave' = toSave \ {thread}
     /\ WriteFile
     /\ UNCHANGED frames
  \/ /\ NextCallIs("save")
     /\ frames' = Tail(frames)
     /\ WriteFile
     /\ UNCHANGED toSave

FinishLoad ==
  /\ NextCallIs("loaded")
  /\ frames' = Tail(frames)
  /\ lastSaved' = Len(activeChain) - 1
  /\ sent' = {}
  /\ UNCHANGED <<chainVars, orphans, ledgerVars, mineInterrupt, chainFile, loaded,
                 toSave, envVars, at, landed, reorgVars>>

\* A block of the file did not become the tip: everything is given up, but for
\* the orphans, the fee history and last_saved_height.
FailLoad ==
  /\ NextCallIs("wipe")
  /\ frames' = <<>>
  /\ activeChain' = <<Genesis>>
  /\ RebuildIndex
  /\ sideBranches' = <<>>
  /\ ForgetUtxo
  /\ mempool' = {}
  /\ sent' = {}
  /\ UNCHANGED <<orphans, feeHistory, mineInterrupt, diskVars, envVars, at, landed,
                 reorgVars>>

-----------------------------------------------------------------------------
(* reorg_if_necessary, try_reorg and rollback_reorg. *)

Scanning == at = "scan" /\ branch <= Len(frozen)

\* The height of the block the branch forks from, -1 if the active chain has no
\* such block; and the work of the branch on the chain up to there.
ForkHeight ==
  LET p == Parent[frozen[branch][1]]
  IN  IF OnActive(p) THEN activeChainIndex[p] ELSE -1

\* Mutant of FullBranch: the chain up to the fork is not counted.
BranchAlone == frozen[branch]

FullBranch == SubSeq(activeChain, 1, ForkHeight + 1) \o frozen[branch]

\* Mutant of Heavier: a branch as heavy as the active chain is adopted.
AsHeavy == ChainWork(FullBranch) >= startWork

Heavier == ChainWork(FullBranch) > startWork

\* Mutant of NextBranch.
SameBranch == UNCHANGED branch

NextBranch == branch' = branch + 1

SkipBranch ==
  /\ Scanning
  /\ frozen[branch] # <<>>
  /\ ~Heavier
  /\ NextBranch
  /\ sent' = {}
  /\ UNCHANGED <<chainVars, orphans, ledgerVars, mineInterrupt, diskVars, envVars,
                 callVars, frozen, startWork, forkBlock, old, pos>>

StartReorg ==
  /\ Scanning
  /\ frozen[branch] # <<>>
  /\ Heavier
  /\ ForkHeight >= 0
  /\ at' = "disconnect"
  /\ forkBlock' = activeChain[ForkHeight + 1]
  /\ old' = <<>>
  /\ sent' = {}
  /\ UNCHANGED <<chainVars, orphans, ledgerVars, mineInterrupt, diskVars, envVars,
                 frames, landed, frozen, branch, startWork, pos>>

\* chain[0] of an empty branch, or active_chain[-1]: undefined behaviour, taken
\* to end the process.
ReadOutOfBounds ==
  /\ Scanning
  /\ \/ frozen[branch] = <<>>
     \/ frozen[branch] # <<>> /\ Heavier /\ ForkHeight < 0
  /\ at' = "crashed"
  /\ sent' = {}
  /\ UNCHANGED <<chainVars, orphans, ledgerVars, mineInterrupt, diskVars, envVars,
                 frames, landed, reorgVars>>

ScanDone ==
  /\ at = "scan"
  /\ branch > Len(frozen)
  /\ ReturnConnected(FALSE)
  /\ UNCHANGED <<chainVars, ledgerVars, fileVars, envVars>>

\* disconnect_to_fork, for try_reorg ("disconnect") and rollback_reorg.
DisconnectTip ==
  /\ at \in {"disconnect", "rollback"}
  /\ Tip # forkBlock
  /\ PopTip
  /\ old' = IF at = "disconnect" THEN <<Tip>> \o old ELSE old
  /\ UNCHANGED <<envVars, callVars, frozen, branch, startWork, forkBlock, pos>>

ForkReached ==
  /\ at \in {"disconnect", "rollback"}
  /\ Tip = forkBlock
  /\ at' = IF at = "disconnect" THEN "extend" ELSE "restore"
  /\ pos' = 1
  /\ sent' = {}
  /\ UNCHANGED <<chainVars, orphans, ledgerVars, mineInterrupt, diskVars, envVars,
                 frames, landed, frozen, branch, startWork, forkBlock, old>>

(***************************************************************************)
(* connect_block(block, doing_reorg): only the active chain is searched    *)
(* for the block, no reorganisation is started and no orphan connected.    *)
(***************************************************************************)
ConnectInReorg(b) ==
  ~OnActive(b) /\ ExtendsActive(b) /\ PushOnActive(b) /\ sent' = {BlockInfo(b)}

FailInReorg(b) ==
  \/ OnActive(b) /\ NothingConnected
  \/ ~OnActive(b) /\ IsInvalid(b) /\ NothingConnected
  \/ ~OnActive(b) /\ IsOrphan(b) /\ KeepOrphan(b)
  \/ ~OnActive(b) /\ PushAside(b) /\ sent' = {BlockInfo(b)}

Extending == at = "extend" /\ pos <= Len(frozen[branch])

ExtendReorg ==
  /\ Extending
  /\ ConnectInReorg(frozen[branch][pos])
  /\ pos' = pos + 1
  /\ mineInterrupt' = TRUE
  /\ UNCHANGED <<diskVars, envVars, callVars, frozen, branch, startWork, forkBlock, old>>

AbandonReorg ==
  /\ Extending
  /\ FailInReorg(frozen[branch][pos])
  /\ at' = "rollback"
  /\ UNCHANGED <<mineInterrupt, diskVars, envVars, frames, landed, reorgVars>>

\* Mutant of SwapBranches: the old chain is dropped.
DropOldChain == sideBranches' = RemoveAt(sideBranches, branch)

\* The branch leaves side_branches, and the old chain joins it.
SwapBranches == sideBranches' = Append(RemoveAt(sideBranches, branch), old)

\* try_reorg succeeds.
CommitReorg ==
  /\ at = "extend"
  /\ pos > Len(frozen[branch])
  /\ SwapBranches
  /\ ReturnConnected(TRUE)
  /\ UNCHANGED <<activeChain, activeChainIndex, ledgerVars, fileVars, envVars>>

\* rollback_reorg connects the old blocks again, whatever connect_block says.
RestoreOld ==
  /\ at = "restore"
  /\ pos <= Len(old)
  /\ \/ ConnectInReorg(old[pos]) /\ mineInterrupt' = TRUE
     \/ FailInReorg(old[pos]) /\ UNCHANGED mineInterrupt
  /\ pos' = pos + 1
  /\ UNCHANGED <<diskVars, envVars, callVars, frozen, branch, startWork, forkBlock, old>>

RollbackDone ==
  /\ at = "restore"
  /\ pos > Len(old)
  /\ at' = "scan"
  /\ NextBranch
  /\ sent' = {}
  /\ UNCHANGED <<chainVars, orphans, ledgerVars, mineInterrupt, diskVars, envVars,
                 frames, landed, frozen, startWork, forkBlock, old, pos>>

-----------------------------------------------------------------------------
Connect ==
  \/ \E b \in Blocks : \/ IgnoreSeen(b)
                       \/ RejectBlock(b)
                       \/ StoreOrphan(b)
                       \/ ConnectToActive(b)
                       \/ ConnectAside(b)
  \/ SaveToDisk
  \/ FinishLoad
  \/ FailLoad

Reorg ==
  \/ SkipBranch
  \/ StartReorg
  \/ ReadOutOfBounds
  \/ ScanDone
  \/ DisconnectTip
  \/ ForkReached
  \/ ExtendReorg
  \/ AbandonReorg
  \/ CommitReorg
  \/ RestoreOld
  \/ RollbackDone

Environment ==
  \/ \E b \in Blocks : ReceiveBlock(b) \/ ConnectMined(b)
  \/ \E t \in Txs : AddTx(t)
  \/ StartMining
  \/ LoadFromDisk
  \/ Tick
  \/ Restart

Next == Connect \/ Reorg \/ Environment

Spec == Init /\ [][Next]_vars

\* A call that has the mutex runs to its end: nothing in it waits.
FairSpec == Spec /\ WF_vars(Connect \/ Reorg)

-----------------------------------------------------------------------------

Places == {"idle", "scan", "disconnect", "extend", "rollback", "restore", "crashed"}
Ops == {"receive", "mine", "orphan", "load", "save", "loaded", "wipe"}

ChainTypeOK ==
  /\ activeChain \in Seq(Blocks)
  /\ DOMAIN activeChainIndex \subseteq Blocks
  /\ \A b \in DOMAIN activeChainIndex : activeChainIndex[b] \in Nat
  /\ sideBranches \in Seq(Seq(Blocks))

OrphansTypeOK ==
  /\ orphans \subseteq [block : Blocks, since : Nat]
  /\ IsFiniteSet(orphans)

LedgerTypeOK ==
  /\ DOMAIN utxo \subseteq Outpoints
  /\ mempool \subseteq Txs
  /\ feeHistory \in Seq(Blocks)

NodeTypeOK ==
  /\ mineInterrupt \in BOOLEAN
  /\ chainFile \in Seq(Blocks) /\ lastSaved \in Nat /\ loaded \in BOOLEAN
  /\ toSave \subseteq {"net", "miner"}
  /\ now \in Nat /\ restarts \in Nat
  /\ sent \subseteq [type : {"BlockInfo", "GetBlock"}, block : Blocks]

CallTypeOK ==
  /\ at \in Places /\ landed \in BOOLEAN
  /\ frames \in Seq([op : Ops, block : Blocks])
  /\ frozen \in Seq(Seq(Blocks)) /\ branch \in Nat
  /\ forkBlock \in Blocks /\ old \in Seq(Blocks) /\ pos \in Nat

\* Every variable has the type of the field it stands for, and the orphan pool
\* is finite.
TypeOK ==
  ChainTypeOK /\ OrphansTypeOK /\ LedgerTypeOK /\ NodeTypeOK /\ CallTypeOK

-----------------------------------------------------------------------------
(* Safety. *)

\* The active chain starts at the genesis block, every other block follows its
\* parent, and the index that is updated beside it (index_block, unindex_block,
\* rebuild_active_chain_index) holds exactly its blocks with their heights, at
\* every step of a reorganisation.  So no block is on the chain twice.
ChainIndexed ==
  /\ activeChain # <<>> /\ activeChain[1] = Genesis
  /\ \A i \in 2 .. Len(activeChain) :
       /\ activeChain[i] # Genesis
       /\ Parent[activeChain[i]] = activeChain[i - 1]
  /\ DOMAIN activeChainIndex = Elements(activeChain)
  /\ \A i \in DOMAIN activeChain : activeChainIndex[activeChain[i]] = i - 1

\* Inside try_reorg or rollback_reorg.
Reorganising == at \in {"disconnect", "extend", "rollback", "restore"}

\* The fork block is on the active chain all through a reorganisation, so
\* disconnect_to_fork meets it before it runs out of blocks.
ForkStaysActive == Reorganising => OnActive(forkBlock)

\* The loops of reorg_if_necessary and try_reorg index what they walk over within
\* its bounds, side_branches too, though connect_block lengthens it meanwhile.
LoopsInBounds ==
  /\ at # "idle" => frames # <<>>
  /\ at = "scan" \/ Reorganising =>
       branch >= 1 /\ Len(frozen) <= Len(sideBranches)
  /\ Reorganising => branch <= Len(frozen)
  /\ at \in {"extend", "restore"} => pos >= 1

Mined == UNION {Elements(TxsOf[activeChain[i]]) : i \in 2 .. Len(activeChain)}

\* The map of unspent outputs is what the active chain made and has not spent,
\* with the height and the coinbase mark of the transaction that made each,
\* however the chain came about (connect_block and disconnect_block only ever
\* change the map by one block).
UtxoExact ==
  /\ DOMAIN utxo = (UNION {OutsOf(t) : t \in Mined}) \ (UNION {Ins[t] : t \in Mined})
  /\ \A p \in DOMAIN utxo : utxo[p] = EntryInActiveChain(p)

\* A transaction is never both on the active chain and in the pool, though
\* blocks are taken off the chain and put back.
PoolIsUnmined == mempool \cap Mined = {}

\* Between calls no orphan is kept whose parent, or which itself, is in a chain:
\* try_connect_orphans always empties the pool of the blocks that can go.
OrphansWait ==
  Quiet => \A o \in orphans : ~Known(Parent[o.block]) /\ ~Known(o.block)

\* The orphan pool never outgrows MAX_ORPHAN_BLOCKS and keeps a block once.
OrphansBounded ==
  /\ Cardinality(orphans) <= MaxOrphans
  /\ \A o, p \in orphans : o.block = p.block => o = p

\* chain.dat holds the active chain up to last_saved_height whenever that is not
\* 0, so that appending to the file is right.
FileMatchesChain ==
  lastSaved > 0 => /\ lastSaved < Len(activeChain)
                   /\ chainFile = SubSeq(activeChain, 2, lastSaved + 1)

\* chain.dat always holds a chain that starts on the genesis block.
FileIsChain ==
  \A i \in DOMAIN chainFile :
    Parent[chainFile[i]] = IF i = 1 THEN Genesis ELSE chainFile[i - 1]

\* The fee estimator's history holds blocks of the active chain in its order.
FeeHistoryOnChain ==
  \A i, j \in DOMAIN feeHistory :
    /\ OnActive(feeHistory[i])
    /\ i < j => activeChainIndex[feeHistory[i]] < activeChainIndex[feeHistory[j]]

\* The chain the node answers for: inside a reorganisation, the one it would go
\* back to.
SettledChain ==
  IF Reorganising
  THEN SubSeq(activeChain, 1,
              IF at = "disconnect" THEN Len(activeChain)
              ELSE activeChainIndex[forkBlock] + 1) \o old
  ELSE activeChain

Promise == INSTANCE BestChain WITH chain <- SettledChain, WorkOf <- ChainWork

\* The settled chain is only ever replaced by a linked chain with more work: a
\* failed reorganisation gives back exactly the chain it took apart.
OnlyMoreWork == Promise!Spec

\* rollback_reorg does not look at what connect_block answers.  It need not: the
\* old blocks are always connected again, though the branch that failed, the pool
\* and the clock are not what they were when they were first connected.
RollbackSucceeds == [][RestoreOld => PushOnActive(old[pos])]_vars

PathTo[b \in Blocks] ==
  IF b = Genesis THEN <<Genesis>> ELSE Append(PathTo[Parent[b]], b)

\* Between calls no chain of valid blocks that are all in the node's chains has
\* more work than the active one, in whatever order the blocks came.
HeaviestIsActive ==
  Quiet => \A b \in Honest :
             (\A a \in Elements(PathTo[b]) : Known(a))
               => ChainWork(PathTo[b]) <= ChainWork(activeChain)

\* The coins in the map are never worth more than the subsidies of the blocks.
NoInflation ==
  TotalValue(DOMAIN utxo)
    <= MapThenSumSet(Subsidy, 1 .. Len(activeChain) - 1)

Held ==
  Elements(activeChain) \cup Elements(old)
    \cup UNION {Elements(sideBranches[i]) : i \in DOMAIN sideBranches}

\* A block that has been put in a chain stays in one, or among the blocks a
\* reorganisation has set aside, as long as the process does not start over.
NoBlockForgotten ==
  [][Held \subseteq Held' \/ NextCallIs("wipe") \/ restarts' # restarts]_vars

(* Liveness. *)

\* Every call of connect_block, load_from_disk and their reorganisations ends,
\* and none ends the process by reading outside active_chain, unless the node
\* has taken a block that no valid chain leads to into its branches: the work
\* such a block claims makes a branch whose fork is gone the heaviest.
CallsReturn ==
  []<>(Quiet \/ (at = "crashed" /\ \E b \in Blocks \ Honest : Known(b)))

=============================================================================
