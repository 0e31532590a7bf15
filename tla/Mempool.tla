------------------------------ MODULE Mempool -------------------------------
(***************************************************************************)
(* The pool of pending transactions, src/tiny-lib/core/mempool.cpp, with   *)
(* what connect_block and disconnect_block of core/chain.cpp do to it.     *)
(*                                                                         *)
(* Mempool::mutex is held for the whole of add_tx_to_mempool and of        *)
(* select_from_mempool; their loops are cut here into one step a turn, and *)
(* "stage" says which of them holds the mutex.  Blocks are the sequences   *)
(* of their transactions without the coinbase, which never enters the      *)
(* pool; the coins a run starts with stand for mature outputs of the chain *)
(* below.                                                                  *)
(***************************************************************************)
EXTENDS Ledger, SequencesExt

CONSTANTS Coins,          \* what the map holds at first
          BaseHeight,     \* height of the chain at first
          Size,           \* serialised size of each transaction
          Rbf,            \* those with an input whose sequence is not final
          Dust,           \* DUST_THRESHOLD
          MaxAncestors,   \* MAX_ANCESTOR_COUNT
          MaxDescendants, \* MAX_DESCENDANT_COUNT
          MaxPool,        \* MAX_MEMPOOL_SIZE_BYTES
          MaxBlock,       \* MAX_BLOCK_SERIALIZED_SIZE_IN_BYTES
          EmptyBlock,     \* size of a block without transactions
          RelayFee,       \* INCREMENTAL_RELAY_FEE, per 1000 bytes
          Bodies,         \* what blocks of peers may carry
          MaxBlocks,      \* bound: blocks on top of the first ones
          MaxReorgs       \* bound: blocks disconnected

(***************************************************************************)
(* Coins are outputs of transactions.  A transaction has inputs            *)
(* (Tx::validate_basics), and spends others than those that depend on it,  *)
(* since its id is a hash of what it spends.  A block without transactions *)
(* is smaller than the largest one.                                        *)
(***************************************************************************)
ASSUME PoolAssumption ==
  /\ Coins \in [DOMAIN Coins -> [coinbase : BOOLEAN, height : Nat]]
  /\ DOMAIN Coins \subseteq OutsOfAll(Txs)
  /\ \A t \in Txs \ Coinbases : Ins[t] # {}
  /\ \A S \in SUBSET Txs :
       S # {} => \E t \in S : \A p \in Ins[t] : p[1] \notin S
  /\ Size \in [Txs -> Nat \ {0}]
  /\ Rbf \subseteq Txs
  /\ {BaseHeight, Dust, MaxPool, MaxBlock, EmptyBlock, RelayFee} \subseteq Nat
  /\ EmptyBlock < MaxBlock
  /\ {MaxAncestors, MaxDescendants} \subseteq Nat \ {0}
  /\ Bodies \subseteq Seq(Txs \ Coinbases)
  /\ {MaxBlocks, MaxReorgs} \subseteq Nat

VARIABLES
  utxo,        \* UTXO::map
  mined,       \* the blocks above the first ones
  owed,        \* blocks the running reorganisation has still to connect
  reorgs,      \* blocks disconnected so far
  pool,        \* Mempool::map: id to the fee kept in its entry
  poolBytes,   \* total_size_bytes
  sent,        \* TxInfoMsg the last step gave to NetClient
  stage,       \* which loop holds Mempool::mutex: "idle", "evict", "assemble"
  stack,       \* calls of try_add_to_block: a transaction, the inputs left
  draft,       \* new_block->txs; their ids are added_to_block
  template     \* what the last select_from_mempool returned

chainVars == <<utxo, mined, owed, reorgs>>
poolVars  == <<pool, poolBytes>>
asmVars   == <<stack, draft, template>>
vars == <<chainVars, poolVars, sent, stage, asmVars>>

Pending == DOMAIN pool
Height == BaseHeight + Len(mined)

TotalSize(ts) == MapThenSumSet(LAMBDA t : Size[t], ts)
TotalFee(ts) == MapThenSumSet(LAMBDA t : pool[t], ts)

Without(ts) == [t \in Pending \ ts |-> pool[t]]

-----------------------------------------------------------------------------
(* Families. *)

ParentsOf(t) == {p[1] : p \in Ins[t]}

\* The smallest set with these transactions and their parents in the pool.
WithAncestors(ts) ==
  {a \in Pending :
     \A S \in SUBSET Pending :
       /\ ts \cap Pending \subseteq S
       /\ \A t \in S : ParentsOf(t) \cap Pending \subseteq S
       => a \in S}

WithDescendants(ts) ==
  {d \in Pending :
     \A S \in SUBSET Pending :
       /\ ts \cap Pending \subseteq S
       /\ \A t \in Pending : ParentsOf(t) \cap S # {} => t \in S
       => d \in S}

\* find_ancestor_tx_ids and find_descendant_tx_ids.
Ancestors(t) == WithAncestors({t}) \ {t}
Descendants(t) == WithDescendants({t}) \ {t}

\* Mutant of Conflicting: only the first input is compared.
FirstConflicting(t) ==
  {u \in Pending : \E p \in Ins[u] : p = CHOOSE q \in Ins[t] : TRUE}

\* find_conflicting_txs.
Conflicting(t) == {u \in Pending : Ins[u] \cap Ins[t] # {}}

\* Mutant of TooDeep: the transaction itself is not counted.
TooDeepLate(t) ==
  LET parents == ParentsOf(t) \cap Pending
  IN  \/ \E p \in parents : Cardinality(Ancestors(p)) + 1 >= MaxAncestors
      \/ \E a \in WithAncestors(parents) :
           Cardinality(Descendants(a)) >= MaxDescendants

\* violates_chain_limits: the deepest parent, and each ancestor's family.
TooDeep(t) ==
  LET parents == ParentsOf(t) \cap Pending
  IN  \/ \E p \in parents : Cardinality(Ancestors(p)) + 1 >= MaxAncestors
      \/ \E a \in WithAncestors(parents) :
           Cardinality(Descendants(a)) + 1 >= MaxDescendants

HasDust(t) == \E i \in DOMAIN Outs[t] : Outs[t][i] < Dust

-----------------------------------------------------------------------------
(* add_tx_to_mempool.  A transaction it refuses changes nothing that is    *)
(* read again: one without its inputs goes to orphaned_txs, which no code  *)
(* takes it out of.                                                        *)

Acceptable(t) ==
  /\ t \notin Pending
  /\ ~HasDust(t)
  /\ ValidTx(t, utxo, OutsOfAll(Pending), Height)
  /\ ~TooDeep(t)

\* Mutant of Unsize: the bytes are not given back.
KeepBytes(ts) == poolBytes

\* remove_entry takes the size off, never below 0.
Unsize(ts) == Max({poolBytes - TotalSize(ts), 0})

\* The new entry and, in a replacement, without what it replaces.
Insert(t, gone) ==
  /\ pool' = [u \in (Pending \ gone) \cup {t} |->
                IF u = t THEN Fees(t, utxo, Pending) ELSE pool[u]]
  /\ poolBytes' = Unsize(gone) + Size[t]
  /\ stage' = "evict"
  /\ sent' = {t}
  /\ UNCHANGED <<chainVars, asmVars>>

AddFresh(t) ==
  /\ stage = "idle" /\ owed = 0
  /\ Acceptable(t)
  /\ Conflicting(t) = {}
  /\ Insert(t, {})

\* Mutant of ReplacedFees: the fees of the descendants are not counted.
OwnFeesOnly(t) == TotalFee(Conflicting(t))

(***************************************************************************)
(* What a replacement must outbid: the fee of each conflicting transaction *)
(* and those of its descendants, counted again for each.                   *)
(***************************************************************************)
ReplacedFees(t) ==
  MapThenSumSet(LAMBDA c : TotalFee({c} \cup Descendants(c)), Conflicting(t))

Increment(t) == (Size[t] * RelayFee + 999) \div 1000

ReplaceByFee(t) ==
  LET fee == Fees(t, utxo, Pending)
  IN  /\ stage = "idle" /\ owed = 0
      /\ Acceptable(t)
      /\ Conflicting(t) # {}
      /\ Conflicting(t) \subseteq Rbf
      /\ fee > ReplacedFees(t)
      /\ fee >= ReplacedFees(t) + Increment(t)
      /\ Insert(t, WithDescendants(Conflicting(t)))

Rate(t) == pool[t] \div Size[t]

\* Mutant of EvictedWith: children stay behind.
EvictedAlone(t) == {t}

EvictedWith(t) == WithDescendants({t})

\* One turn of enforce_size_cap.
EvictWorst ==
  /\ stage = "evict" /\ poolBytes > MaxPool
  /\ \E worst \in Pending :
       /\ \A t \in Pending : Rate(worst) <= Rate(t)
       /\ pool' = Without(EvictedWith(worst))
       /\ poolBytes' = Unsize(EvictedWith(worst))
  /\ sent' = {}
  /\ UNCHANGED <<chainVars, stage, asmVars>>

EvictionDone ==
  /\ stage = "evict"
  /\ poolBytes <= MaxPool \/ Pending = {}
  /\ stage' = "idle" /\ sent' = {}
  /\ UNCHANGED <<chainVars, poolVars, asmVars>>

-----------------------------------------------------------------------------
(* select_from_mempool. *)

NoTemplate == [status |-> "none", txs |-> <<>>]

Added == Elements(draft)

\* compute_ancestor_package_fee_rate.
PackageRate(t) ==
  LET package == {t} \cup (Ancestors(t) \ Added)
  IN  TotalFee(package) \div TotalSize(package)

EffectiveRate(t) == Max({Rate(t), PackageRate(t)})

\* The miner comes back when it is interrupted, or out of nonces.
StartAssembly ==
  /\ stage = "idle"
  /\ stage' = "assemble"
  /\ draft' = <<>> /\ stack' = <<>> /\ sent' = {}
  /\ template' = NoTemplate
  /\ UNCHANGED <<chainVars, poolVars>>

\* The best one left, any of them when several are (the map has no order).
PickBest ==
  /\ stage = "assemble" /\ stack = <<>>
  /\ \E t \in Pending \ Added :
       /\ \A u \in Pending \ Added : EffectiveRate(u) <= EffectiveRate(t)
       /\ stack' = <<[tx |-> t, inputs |-> Ins[t]]>>
  /\ sent' = {}
  /\ UNCHANGED <<chainVars, poolVars, stage, draft, template>>

Top == stack[Len(stack)]
Pop == SubSeq(stack, 1, Len(stack) - 1)

\* Mutant of MadeAhead: a parent in the pool is taken for one in the map.
MadeAnyhow(p) == p \in DOMAIN utxo \/ p \in OutsOfAll(Pending)

\* The input needs nothing: the map has it, or its parent is in the draft.
MadeAhead(p) ==
  p \in DOMAIN utxo \/ (p \in OutsOfAll(Pending) /\ p[1] \in Added)

SkipInput ==
  /\ stage = "assemble" /\ stack # <<>>
  /\ \E p \in Top.inputs :
       /\ MadeAhead(p)
       /\ stack' = Append(Pop, [Top EXCEPT !.inputs = @ \ {p}])
  /\ sent' = {}
  /\ UNCHANGED <<chainVars, poolVars, stage, draft, template>>

\* try_add_to_block calls itself for the parent.
AddParentFirst ==
  /\ stage = "assemble" /\ stack # <<>>
  /\ \E p \in Top.inputs :
       /\ ~MadeAhead(p)
       /\ p \in OutsOfAll(Pending)
       /\ stack' = Append(Append(Pop, [Top EXCEPT !.inputs = @ \ {p}]),
                          [tx |-> p[1], inputs |-> Ins[p[1]]])
  /\ sent' = {}
  /\ UNCHANGED <<chainVars, poolVars, stage, draft, template>>

\* Neither the map nor the pool has the input: the empty block is returned.
GiveUpAssembly ==
  /\ stage = "assemble" /\ stack # <<>>
  /\ \E p \in Top.inputs : p \notin DOMAIN utxo \cup OutsOfAll(Pending)
  /\ template' = [status |-> "failed", txs |-> <<>>]
  /\ stage' = "idle" /\ stack' = <<>> /\ draft' = <<>> /\ sent' = {}
  /\ UNCHANGED <<chainVars, poolVars>>

\* Mutant of Fits: what is in the block counts twice.
FitsTwice(t) == EmptyBlock + 2 * TotalSize(Added) + Size[t] < MaxBlock

\* check_block_size.
Fits(t) == EmptyBlock + TotalSize(Added) + Size[t] < MaxBlock

\* All inputs are seen to: the transaction goes into the block if it fits.
PlaceTx ==
  /\ stage = "assemble" /\ stack # <<>> /\ Top.inputs = {}
  /\ stack' = Pop
  /\ draft' = IF Fits(Top.tx) THEN Append(draft, Top.tx) ELSE draft
  /\ sent' = {}
  /\ UNCHANGED <<chainVars, poolVars, stage, template>>

FinishAssembly ==
  /\ stage = "assemble" /\ stack = <<>>
  /\ Pending \subseteq Added
  /\ template' = [status |-> "built", txs |-> draft]
  /\ stage' = "idle" /\ draft' = <<>> /\ sent' = {}
  /\ UNCHANGED <<chainVars, poolVars, stack>>

-----------------------------------------------------------------------------
(* Blocks. *)

\* Chain::validate_block: the pool is not looked at, siblings are.
Connectable(txs) ==
  \A t \in Elements(txs) : ValidTx(t, utxo, OutsOfAll(Elements(txs)), Height)

\* Mutant of LeavePool: whether an entry was there is not looked at.
LeaveUnseen(txs) ==
  /\ pool' = Without(Elements(txs))
  /\ poolBytes' = poolBytes - TotalSize(Elements(txs))

\* connect_block takes its own transactions out, and nothing else.
LeavePool(txs) ==
  /\ pool' = Without(Elements(txs))
  /\ poolBytes' = Unsize(Elements(txs) \cap Pending)

Connect(txs) ==
  /\ stage = "idle"
  /\ Len(mined) < MaxBlocks
  /\ Connectable(txs)
  /\ mined' = Append(mined, txs)
  /\ utxo' = ConnectTxs(utxo, txs, Height + 1)
  /\ LeavePool(txs)
  /\ owed' = Max({owed - 1, 0})
  /\ template' = NoTemplate
  /\ sent' = {}
  /\ UNCHANGED <<reorgs, stage, stack, draft>>

PeerBlock(txs) == txs \in Bodies /\ Connect(txs)

\* The miner's own block, when no other came first.
MinedBlock == owed = 0 /\ template # NoTemplate /\ Connect(template.txs)

\* find_tx_out_for_tx_in_in_active_chain: where an output was made, if at all,
\* and what is kept beside it.
Makers(p) == {i \in DOMAIN mined : Contains(mined[i], p[1])}

OnChain(p) == p \in DOMAIN Coins \/ Makers(p) # {}

Origin(p) ==
  IF p \in DOMAIN Coins THEN Coins[p]
  ELSE [coinbase |-> FALSE, height |-> BaseHeight + Min(Makers(p))]

(***************************************************************************)
(* What disconnect_block does for one transaction, in the order of the     *)
(* code.  For an input made nowhere on the chain it puts an entry with     *)
(* index -1 into the map, which nothing can spend.                         *)
(***************************************************************************)
PutBackTx(acc, t) ==
  LET back == {p \in Ins[t] : OnChain(p)}
  IN  [fees  |-> [u \in DOMAIN acc.fees \cup {t} |->
                    IF u = t THEN Fees(t, acc.utxo, DOMAIN acc.fees)
                    ELSE acc.fees[u]],
       bytes |-> acc.bytes + Size[t],
       utxo  |-> [p \in (DOMAIN acc.utxo \cup back) \ OutsOf(t) |->
                    IF p \in back THEN Origin(p) ELSE acc.utxo[p]]]

\* The first step of a reorganisation, which connects two blocks after it.
DisconnectTip ==
  /\ stage = "idle" /\ owed = 0
  /\ mined # <<>> /\ reorgs < MaxReorgs /\ Len(mined) < MaxBlocks
  /\ LET back == FoldLeft(PutBackTx,
                          [fees |-> pool, bytes |-> poolBytes, utxo |-> utxo],
                          mined[Len(mined)])
     IN  /\ pool' = back.fees
         /\ poolBytes' = back.bytes
         /\ utxo' = back.utxo
  /\ mined' = SubSeq(mined, 1, Len(mined) - 1)
  /\ owed' = 2 /\ reorgs' = reorgs + 1
  /\ template' = NoTemplate
  /\ sent' = {}
  /\ UNCHANGED <<stage, stack, draft>>

-----------------------------------------------------------------------------
Init ==
  /\ utxo = Coins /\ mined = <<>> /\ owed = 0 /\ reorgs = 0
  /\ pool = <<>> /\ poolBytes = 0
  /\ sent = {}
  /\ stage = "idle" /\ stack = <<>> /\ draft = <<>> /\ template = NoTemplate

AddTx(t) == AddFresh(t) \/ ReplaceByFee(t)

Evict == EvictWorst \/ EvictionDone

Assemble ==
  \/ PickBest \/ SkipInput \/ AddParentFirst
  \/ PlaceTx \/ GiveUpAssembly \/ FinishAssembly

Next ==
  \/ \E t \in Txs \ Coinbases : AddTx(t)
  \/ Evict
  \/ StartAssembly
  \/ Assemble
  \/ \E txs \in Bodies : PeerBlock(txs)
  \/ MinedBlock
  \/ DisconnectTip

Spec == Init /\ [][Next]_vars

\* A thread that holds Mempool::mutex goes on: neither loop waits for anyone.
FairSpec == Spec /\ WF_vars(Evict \/ Assemble)

-----------------------------------------------------------------------------
(* What the bound on families rests on. *)

(***************************************************************************)
(* The transactions of the chain below: with what they spend they are all  *)
(* of one chain, so none of their inputs is there any more.                *)
(***************************************************************************)
ChainBelow(B) ==
  /\ \A p \in DOMAIN Coins : p[1] \in B
  /\ \A t \in B : Ins[t] \cap DOMAIN Coins = {} /\ ParentsOf(t) \subseteq B

\* What a transaction spends of its own block is made before it.
ParentsFirst(txs) ==
  \A i, j \in DOMAIN txs : txs[j] \in ParentsOf(txs[i]) => j < i

Orderly ==
  /\ \E B \in SUBSET Txs : ChainBelow(B)
  /\ \A txs \in Bodies : ParentsFirst(txs)

-----------------------------------------------------------------------------
(* Properties. *)

\* Every variable keeps its type (mempool.hpp:27-37).
TypeOK ==
  /\ DOMAIN utxo \subseteq Outpoints
  /\ \A p \in DOMAIN utxo : utxo[p] \in [coinbase : BOOLEAN, height : Nat]
  /\ mined \in Seq(Seq(Txs)) /\ owed \in 0..2 /\ reorgs \in Nat
  /\ Pending \subseteq Txs \ Coinbases
  /\ \A t \in Pending : pool[t] \in Nat
  /\ poolBytes \in Nat
  /\ sent \subseteq Txs
  /\ stage \in {"idle", "evict", "assemble"}
  /\ stack \in Seq([tx : Txs, inputs : SUBSET Outpoints])
  /\ draft \in Seq(Txs)
  /\ template \in [status : {"none", "built", "failed"}, txs : Seq(Txs)]

(***************************************************************************)
(* total_size_bytes is kept apart from the entries by add, replacement,    *)
(* eviction, connect_block and disconnect_block.  It never says less than  *)
(* the entries weigh, or the cap would not be enforced, and it is exact    *)
(* until a reorganisation, which adds the size of a transaction without    *)
(* looking whether its entry is there already (chain.cpp:428).             *)
(***************************************************************************)
BytesExact ==
  /\ TotalSize(Pending) <= poolBytes
  /\ reorgs = 0 => poolBytes = TotalSize(Pending)

(***************************************************************************)
(* Until a reorganisation puts transactions back unchecked, no two pending *)
(* transactions spend the same output, whatever is added, replaced,        *)
(* evicted or mined (mempool.cpp:136).                                     *)
(***************************************************************************)
NoDoubleSpendPending ==
  reorgs = 0 =>
    \A t, u \in Pending : t # u => Ins[t] \cap Ins[u] = {}

(***************************************************************************)
(* Until then too, no pending transaction has more descendants than the    *)
(* limit leaves (mempool.cpp:486), though it is checked only from above,   *)
(* when a descendant comes.                                                *)
(***************************************************************************)
FamiliesBounded ==
  reorgs = 0 => \A t \in Pending : Cardinality(Descendants(t)) < MaxDescendants

\* Each transaction finds its inputs in the map or among those before it.
ConnectsInOrder(txs) ==
  \A i \in DOMAIN txs :
    LET before == Elements(SubSeq(txs, 1, i - 1))
        spent  == UNION {Ins[t] : t \in before}
    IN  Ins[txs[i]] \subseteq (DOMAIN utxo \cup OutsOfAll(before)) \ spent

(***************************************************************************)
(* A block the assembly is content with can be connected: parents first,   *)
(* no output spent twice, below the size limit (mempool.cpp:44).  Again    *)
(* until a reorganisation.                                                 *)
(***************************************************************************)
TemplateConnects ==
  template.status = "built" /\ reorgs = 0 =>
    /\ ConnectsInOrder(template.txs)
    /\ EmptyBlock + TotalSize(Elements(template.txs)) < MaxBlock

(***************************************************************************)
(* Transactions never make coins: the outputs in the map are worth no more *)
(* than those the run started with (src/README.md:48).                     *)
(***************************************************************************)
NoCoinsMade == TotalValue(DOMAIN utxo) <= TotalValue(DOMAIN Coins)

\* The pending transactions whose inputs are all there.
Spendable ==
  {t \in Pending : Ins[t] \subseteq DOMAIN utxo \cup OutsOfAll(Pending)}

\* It spends an output of what it conflicts with, or of a descendant of that.
ReplacesParent(t) == ParentsOf(t) \cap WithDescendants(Conflicting(t)) # {}

(***************************************************************************)
(* Whatever is added, replaced or evicted, what could be mined and stays   *)
(* can still be mined, and what comes in can be mined as well              *)
(* (mempool.cpp:217, 529), with one exception: a replacement that spends   *)
(* an output of what it pushes out.  No code looks for that                *)
(* (mempool.cpp:164-241), and it stays, a child without its parent.        *)
(***************************************************************************)
NoChildLeftBehind ==
  [][mined' = mined =>
       \A t \in Pending' \ Spendable' :
         \/ t \in Pending \ Spendable
         \/ t \notin Pending /\ ReplacesParent(t)]_vars

(***************************************************************************)
(* A transaction that pushes others out pays more than all of them did, so *)
(* replacing the same coins again and again is never free                  *)
(* (mempool.cpp:193).                                                      *)
(***************************************************************************)
ReplacementPays ==
  [][sent' # {} /\ ~ Pending \subseteq Pending'
       => TotalFee(Pending) < MapThenSumSet(LAMBDA t : pool'[t], Pending')]_vars

(***************************************************************************)
(* enforce_size_cap ends, and so does select_from_mempool when everything  *)
(* pending fits into one block (mempool.cpp:52, 510).                      *)
(***************************************************************************)
LoopsEnd ==
  (stage = "assemble" => EmptyBlock + TotalSize(Pending) < MaxBlock)
    ~> stage = "idle"

=============================================================================
