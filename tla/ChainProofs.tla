---------------------------- MODULE ChainProofs ----------------------------
(***************************************************************************)
(* Proofs about Chain for every tree of blocks, every set of transactions  *)
(* and every value of the parameters.                                      *)
(*                                                                         *)
(* The invariant proved by induction is IInv.  Its parts need each other:  *)
(* a disconnection keeps the chain and its index right only if the chain   *)
(* is more than the genesis block (ForkStaysActive), the fork block is a   *)
(* block only if the index is right, and the loops read blocks only inside *)
(* their bounds.                                                           *)
(***************************************************************************)
EXTENDS Chain, DataProofs

IInv == TypeOK /\ ChainIndexed /\ ForkStaysActive /\ LoopsInBounds

-----------------------------------------------------------------------------
(* The operators on sequences and sets that the model is built from. *)

LEMMA ElementsTyped ==
  ASSUME NEW S, NEW s \in Seq(S)
  PROVE  Elements(s) \subseteq S
  BY DEF Elements

LEMMA RemoveAtTyped ==
  ASSUME NEW S, NEW s \in Seq(S), NEW i \in 1 .. Len(s)
  PROVE  RemoveAt(s, i) \in Seq(S)
<1>1. Len(s) \in Nat
  BY LenProperties
<1>2. SubSeq(s, 1, i - 1) \in Seq(S)
  BY <1>1, SubSeqTyped, i - 1 \in Int, i - 1 <= Len(s)
<1>3. SubSeq(s, i + 1, Len(s)) \in Seq(S)
  BY <1>1, SubSeqTyped, i + 1 \in Nat \ {0}, Len(s) \in Int, Len(s) <= Len(s)
<1> QED
  BY <1>2, <1>3, ConcatProperties DEF RemoveAt

-----------------------------------------------------------------------------
(* What the blocks and the ledger are made of. *)

LEMMA BlockTyped ==
  ASSUME NEW b \in Blocks
  PROVE  /\ TxsOf[b] \in Seq(Txs)
         /\ Elements(TxsOf[b]) \subseteq Txs
         /\ b # Genesis => Parent[b] \in Blocks
<1>1. TxsOf[b] \in Seq(Txs)
  BY BlockAssumption
<1>2. b # Genesis => Parent[b] \in Blocks
  BY BlockAssumption DEF NonGenesis
<1> QED
  BY <1>1, <1>2, ElementsTyped

LEMMA TxTyped ==
  ASSUME NEW t \in Txs
  PROVE  Ins[t] \subseteq Outpoints /\ OutsOf(t) \subseteq Outpoints
<1>1. Ins[t] \subseteq Outpoints
  BY TxAssumption
<1>2. DOMAIN Outs[t] \subseteq Nat \ {0}
  <2>1. Outs[t] \in Seq(Nat)
    BY TxAssumption
  <2> QED
    BY <2>1, LenProperties
<1>3. OutsOf(t) \subseteq Outpoints
  BY <1>2 DEF OutsOf, Outpoints
<1> QED
  BY <1>1, <1>3

\* Connecting and disconnecting a block keep a map from outpoints.
LEMMA LedgerTyped ==
  ASSUME NEW map, DOMAIN map \subseteq Outpoints, NEW txs \in Seq(Txs),
         NEW h, NEW entry
  PROVE  /\ DOMAIN ConnectTxs(map, txs, h) \subseteq Outpoints
         /\ DOMAIN DisconnectTxs(map, txs, entry) \subseteq Outpoints
<1>1. \A i \in DOMAIN txs : Ins[txs[i]] \subseteq Outpoints /\ OutsOf(txs[i]) \subseteq Outpoints
  BY TxTyped, LenProperties, ElementOfSeq
<1>2. MadeAndKept(txs) \subseteq Outpoints
  BY <1>1 DEF MadeAndKept
<1>3. PutBack(txs) \subseteq Outpoints
  BY <1>1 DEF PutBack
<1> QED
  BY <1>2, <1>3 DEF ConnectTxs, DisconnectTxs

-----------------------------------------------------------------------------
(* The effects of chain.cpp on one block. *)

\* What a step leaves of the active chain that the rest of the proof needs.
ChainStaysRight ==
  /\ ChainTypeOK' /\ ChainIndexed'
  /\ OrphansTypeOK' /\ LedgerTypeOK'
  /\ Len(sideBranches') >= Len(sideBranches)

Messages == [type : {"BlockInfo", "GetBlock"}, block : Blocks]

LEMMA MessageTyped ==
  ASSUME NEW b \in Blocks
  PROVE  {BlockInfo(b)} \subseteq Messages /\ {GetBlock(b)} \subseteq Messages
  BY DEF BlockInfo, GetBlock, Messages

LEMMA SideBranchesBounded ==
  ASSUME IInv
  PROVE  /\ Len(sideBranches) \in Nat
         /\ DOMAIN sideBranches = 1 .. Len(sideBranches)
         /\ \A i \in 1 .. Len(sideBranches) : sideBranches[i] \in Seq(Blocks)
<1>1. sideBranches \in Seq(Seq(Blocks))
  BY DEF IInv, TypeOK, ChainTypeOK
<1> QED
  BY <1>1, LenProperties, ElementOfSeq

\* A step that leaves the chain and the orphans alone keeps what is said of them.
LEMMA ChainUnchanged ==
  ASSUME IInv, UNCHANGED <<chainVars, orphans, ledgerVars>>
  PROVE  ChainStaysRight /\ DOMAIN activeChainIndex \subseteq DOMAIN activeChainIndex'
<1>1. ChainTypeOK' /\ ChainIndexed' /\ OrphansTypeOK' /\ LedgerTypeOK'
  BY DEF IInv, TypeOK, ChainTypeOK, ChainIndexed, OrphansTypeOK, LedgerTypeOK,
         chainVars, ledgerVars, Elements
<1>2. Len(sideBranches') >= Len(sideBranches)
  BY SideBranchesBounded DEF chainVars
<1> QED
  BY <1>1, <1>2 DEF ChainStaysRight, chainVars

\* The genesis block and the tip are on the active chain.
LEMMA ActiveChain ==
  ASSUME IInv
  PROVE  /\ Len(activeChain) \in Nat \ {0}
         /\ DOMAIN activeChain = 1 .. Len(activeChain)
         /\ \A i \in 1 .. Len(activeChain) : activeChain[i] \in Blocks
         /\ Tip \in Blocks /\ OnActive(Tip) /\ OnActive(Genesis)
         /\ \A b : OnActive(b) <=> \E i \in 1 .. Len(activeChain) : activeChain[i] = b
<1> USE DEF IInv, TypeOK, ChainTypeOK, ChainIndexed, Tip, OnActive, Elements
<1>1. activeChain \in Seq(Blocks) /\ activeChain # <<>>
  OBVIOUS
<1>2. /\ Len(activeChain) \in Nat \ {0}
      /\ DOMAIN activeChain = 1 .. Len(activeChain)
      /\ \A i \in 1 .. Len(activeChain) : activeChain[i] \in Blocks
  BY <1>1, LenProperties, ElementOfSeq, EmptySeq
<1>3. Len(activeChain) \in 1 .. Len(activeChain) /\ 1 \in 1 .. Len(activeChain)
  BY <1>2
<1>4. \A b : OnActive(b) <=> \E i \in 1 .. Len(activeChain) : activeChain[i] = b
  BY <1>2, Zenon
<1>5. activeChain[1] = Genesis
  OBVIOUS
<1> HIDE DEF OnActive, Elements
<1>6. Tip \in Blocks /\ OnActive(Tip)
  BY <1>2, <1>3, <1>4, Zenon
<1>7. OnActive(Genesis)
  BY <1>3, <1>4, <1>5, Zenon
<1> QED
  BY <1>2, <1>4, <1>6, <1>7, Zenon

LEMMA PushOnActiveRight ==
  ASSUME IInv, NEW b \in Blocks, ~OnActive(b), ExtendsActive(b), PushOnActive(b)
  PROVE  ChainStaysRight /\ DOMAIN activeChainIndex \subseteq DOMAIN activeChainIndex'
<1> DEFINE n == Len(activeChain)
<1>1. /\ n \in Nat \ {0}
      /\ DOMAIN activeChain = 1 .. n
      /\ \A i \in 1 .. n : activeChain[i] \in Blocks
      /\ \A a : OnActive(a) <=> \E i \in 1 .. n : activeChain[i] = a
      /\ activeChain \in Seq(Blocks)
  BY ActiveChain DEF IInv, TypeOK, ChainTypeOK
<1>2. /\ activeChain' \in Seq(Blocks) /\ Len(activeChain') = n + 1
      /\ \A i \in 1 .. n : activeChain'[i] = activeChain[i]
      /\ activeChain'[n + 1] = b
  BY <1>1, AppendProperties DEF PushOnActive
<1>3. DOMAIN activeChain' = 1 .. n + 1
  BY <1>2, LenProperties
<1>4. /\ DOMAIN activeChainIndex' = DOMAIN activeChainIndex \cup {b}
      /\ activeChainIndex'[b] = n
      /\ \A a \in DOMAIN activeChainIndex : activeChainIndex'[a] = activeChainIndex[a]
  BY DEF PushOnActive, IndexBlock, OnActive
<1>5. ChainTypeOK'
  <2>1. \A a \in DOMAIN activeChainIndex' : activeChainIndex'[a] \in Nat
    BY <1>1, <1>4 DEF IInv, TypeOK, ChainTypeOK
  <2> QED
    BY <1>2, <1>4, <2>1 DEF PushOnActive, ChainTypeOK, IInv, TypeOK
<1>6. ChainIndexed'
  <2>1. activeChain' # <<>> /\ activeChain'[1] = Genesis
    BY <1>1, <1>2 DEF IInv, ChainIndexed
  <2>2. \A i \in 2 .. n + 1 : activeChain'[i] # Genesis /\ Parent[activeChain'[i]] = activeChain'[i - 1]
    <3>1. b # Genesis /\ Parent[b] = activeChain[n]
      BY ActiveChain DEF ExtendsActive, Tip
    <3>2. ASSUME NEW i \in 2 .. n + 1
          PROVE  activeChain'[i] # Genesis /\ Parent[activeChain'[i]] = activeChain'[i - 1]
      <4>1. CASE i = n + 1
        BY <1>1, <1>2, <3>1, <4>1
      <4>2. CASE i \in 2 .. n
        <5>1. i \in 1 .. n /\ i - 1 \in 1 .. n
          BY <1>1, <4>2
        <5> QED
          BY <1>2, <4>2, <5>1 DEF IInv, ChainIndexed
      <4> QED
        BY <1>1, <4>1, <4>2
    <3> QED
      BY <3>2
  <2>3. DOMAIN activeChainIndex' = Elements(activeChain')
    <3>1. \A a : a \in Elements(activeChain') <=> \E i \in 1 .. n + 1 : activeChain'[i] = a
      BY <1>3 DEF Elements
    <3>2. 1 .. n + 1 = 1 .. n \cup {n + 1}
      BY <1>1
    <3> QED
      BY <1>1, <1>2, <1>4, <3>1, <3>2 DEF OnActive
  <2>4. \A i \in 1 .. n + 1 : activeChainIndex'[activeChain'[i]] = i - 1
    <3>1. ASSUME NEW i \in 1 .. n
          PROVE  activeChainIndex'[activeChain'[i]] = i - 1
      BY <1>1, <1>2, <1>4, SMTT(40) DEF IInv, ChainIndexed, OnActive
    <3> QED
      BY <1>1, <1>2, <1>4, <3>1
  <2> QED
    BY <1>2, <1>3, <2>1, <2>2, <2>3, <2>4 DEF ChainIndexed
<1>7. LedgerTypeOK'
  <2>1. DOMAIN utxo' \subseteq Outpoints
    BY BlockTyped, LedgerTyped DEF PushOnActive, IInv, TypeOK, LedgerTypeOK
  <2>2. feeHistory' \in Seq(Blocks)
    <3> DEFINE longer == Append(feeHistory, b)
               from == Max({Len(longer) - FeeWindow + 1, 1})
    <3>1. feeHistory \in Seq(Blocks) /\ longer \in Seq(Blocks)
      BY AppendProperties DEF IInv, TypeOK, LedgerTypeOK
    <3>2. Len(longer) \in Nat /\ from \in Nat \ {0}
      <4>1. Len(longer) \in Nat
        BY <3>1, LenProperties
      <4>2. Len(longer) - FeeWindow + 1 \in Int
        BY <4>1, ParameterAssumption
      <4> QED
        BY <4>1, <4>2, MaxOfTwo
    <3>3. SubSeq(longer, from, Len(longer)) \in Seq(Blocks)
      <4> HIDE DEF longer, from
      <4> QED
        BY <3>1, <3>2, SubSeqTyped
    <3> QED
      BY <3>1, <3>3 DEF PushOnActive, RecordBlock
  <2>3. mempool' \subseteq Txs
    BY DEF PushOnActive, RemoveFromPool, IInv, TypeOK, LedgerTypeOK
  <2> QED
    BY <2>1, <2>2, <2>3 DEF LedgerTypeOK
<1>8. OrphansTypeOK'
  BY DEF PushOnActive, IInv, TypeOK, OrphansTypeOK
<1>9. Len(sideBranches') >= Len(sideBranches)
  BY SideBranchesBounded DEF PushOnActive
<1> QED
  BY <1>4, <1>5, <1>6, <1>7, <1>8, <1>9 DEF ChainStaysRight

\* disconnect_block of a tip that is not the fork block, which is on the chain.
LEMMA PopTipRight ==
  ASSUME IInv, OnActive(forkBlock), Tip # forkBlock, PopTip
  PROVE  /\ ChainStaysRight
         /\ DOMAIN activeChainIndex' = DOMAIN activeChainIndex \ {Tip}
<1> DEFINE n == Len(activeChain)
<1>1. /\ n \in Nat \ {0}
      /\ DOMAIN activeChain = 1 .. n
      /\ \A i \in 1 .. n : activeChain[i] \in Blocks
      /\ \A a : OnActive(a) <=> \E i \in 1 .. n : activeChain[i] = a
      /\ activeChain \in Seq(Blocks)
      /\ Tip \in Blocks /\ Tip = activeChain[n]
  BY ActiveChain DEF IInv, TypeOK, ChainTypeOK, Tip
<1>2. n >= 2 /\ n \in Int
  BY <1>1
<1>3. /\ activeChain' \in Seq(Blocks) /\ Len(activeChain') = n - 1
      /\ \A i \in 1 .. n - 1 : activeChain'[i] = activeChain[i]
  <2>1. activeChain' = SubSeq(activeChain, 1, n - 1)
    BY DEF PopTip, Front
  <2>2. n - 1 \in Int /\ n - 1 <= Len(activeChain) /\ 1 <= n - 1
    BY <1>1, <1>2
  <2>3. \A i \in 1 .. (n - 1) - 1 + 1 : SubSeq(activeChain, 1, n - 1)[i] = activeChain[1 + i - 1]
    BY <1>1, <2>2, SubSeqTyped
  <2>4. /\ SubSeq(activeChain, 1, n - 1) \in Seq(Blocks)
        /\ Len(SubSeq(activeChain, 1, n - 1)) = n - 1
    BY <1>1, <2>2, SubSeqTyped
  <2> QED
    BY <1>1, <2>1, <2>3, <2>4
<1>4. DOMAIN activeChain' = 1 .. n - 1
  BY <1>3, LenProperties
<1>5. /\ DOMAIN activeChainIndex' = DOMAIN activeChainIndex \ {Tip}
      /\ \A a \in DOMAIN activeChainIndex \ {Tip} : activeChainIndex'[a] = activeChainIndex[a]
  BY DEF PopTip, UnindexBlock
<1>6. \A i \in 1 .. n - 1 : activeChain[i] \in DOMAIN activeChainIndex \ {Tip}
  <2> TAKE i \in 1 .. n - 1
  <2>1. i \in 1 .. n /\ n \in 1 .. n /\ i # n
    <3>1. n \in Nat \ {0}
      BY <1>2
    <3> HIDE DEF n
    <3> QED
      BY <3>1
  <2>2. activeChainIndex[activeChain[i]] = i - 1 /\ activeChainIndex[activeChain[n]] = n - 1
    BY <1>1, <2>1 DEF IInv, ChainIndexed
  <2>3. activeChain[i] # Tip
    <3>1. Tip = activeChain[n]
      BY <1>1
    <3>2. i - 1 # n - 1
      <4> HIDE DEF n
      <4> QED
        BY <1>2, <2>1
    <3> QED
      BY <2>2, <3>1, <3>2
  <2> QED
    BY <1>1, <2>1, <2>3 DEF OnActive
<1>7. ChainTypeOK'
  BY <1>3, <1>5 DEF PopTip, IInv, TypeOK, ChainTypeOK
<1>8. ChainIndexed'
  <2>1. activeChain' # <<>> /\ activeChain'[1] = Genesis
    BY <1>1, <1>2, <1>3 DEF IInv, ChainIndexed
  <2>2. ASSUME NEW i \in 2 .. n - 1
        PROVE  activeChain'[i] # Genesis /\ Parent[activeChain'[i]] = activeChain'[i - 1]
    <3>1. i \in 1 .. n - 1 /\ i - 1 \in 1 .. n - 1 /\ i \in 2 .. n
      BY <1>1
    <3> QED
      BY <1>3, <3>1 DEF IInv, ChainIndexed
  <2>3. DOMAIN activeChainIndex' = Elements(activeChain')
    <3>1. \A a : a \in Elements(activeChain') <=> \E i \in 1 .. n - 1 : activeChain[i] = a
      BY <1>3, <1>4 DEF Elements
    <3>2. 1 .. n = 1 .. n - 1 \cup {n}
      BY <1>1
    <3>3. \A a : a \in DOMAIN activeChainIndex <=> \E i \in 1 .. n : activeChain[i] = a
      BY <1>1 DEF OnActive
    <3> QED
      BY <1>1, <1>5, <1>6, <3>1, <3>2, <3>3
  <2>4. \A i \in 1 .. n - 1 : activeChainIndex'[activeChain'[i]] = i - 1
    <3> TAKE i \in 1 .. n - 1
    <3>1. i \in 1 .. n
      BY <1>1
    <3> QED
      BY <1>1, <1>3, <1>5, <1>6, <3>1, ZenonT(40) DEF IInv, ChainIndexed
  <2> QED
    BY <1>3, <1>4, <2>1, <2>2, <2>3, <2>4 DEF ChainIndexed
<1>9. LedgerTypeOK'
  <2>1. DOMAIN utxo' \subseteq Outpoints
    BY <1>1, BlockTyped, LedgerTyped DEF PopTip, IInv, TypeOK, LedgerTypeOK
  <2>2. mempool' \subseteq Txs
    BY <1>1, BlockTyped DEF PopTip, NonCoinbase, IInv, TypeOK, LedgerTypeOK
  <2>3. feeHistory' \in Seq(Blocks)
    <3>1. feeHistory \in Seq(Blocks)
      BY DEF IInv, TypeOK, LedgerTypeOK
    <3>2. \A i \in DOMAIN feeHistory : RemoveAt(feeHistory, i) \in Seq(Blocks)
      BY <3>1, LenProperties, RemoveAtTyped
    <3> QED
      BY <3>1, <3>2 DEF PopTip, UnrecordBlock
  <2> QED
    BY <2>1, <2>2, <2>3 DEF LedgerTypeOK
<1>10. OrphansTypeOK' /\ Len(sideBranches') >= Len(sideBranches)
  BY SideBranchesBounded DEF PopTip, IInv, TypeOK, OrphansTypeOK
<1> QED
  BY <1>5, <1>7, <1>8, <1>9, <1>10 DEF ChainStaysRight

\* connect_block that keeps an orphan.
LEMMA KeepOrphanRight ==
  ASSUME IInv, NEW b \in Blocks, b # Genesis, KeepOrphan(b)
  PROVE  ChainStaysRight /\ UNCHANGED activeChainIndex /\ sent' \subseteq Messages
<1>1. PICK kept \in KeptOrphans :
        IF \E o \in kept : o.block = b
        THEN orphans' = kept /\ sent' = {}
        ELSE /\ orphans' = kept \cup {[block |-> b, since |-> now]}
             /\ sent' = {GetBlock(Parent[b])}
  BY DEF KeepOrphan
<1>2. kept \in SUBSET orphans
  BY DEF KeptOrphans, Unexpired
<1>3. IsFiniteSet(kept) /\ kept \subseteq [block : Blocks, since : Nat]
  BY <1>2, FS_Subset DEF IInv, TypeOK, OrphansTypeOK
<1>4. [block |-> b, since |-> now] \in [block : Blocks, since : Nat]
  BY DEF IInv, TypeOK, NodeTypeOK
<1>5. OrphansTypeOK'
  <2> DEFINE new == [block |-> b, since |-> now]
  <2>1. IsFiniteSet(kept \cup {new})
    <3> HIDE DEF new
    <3> QED
      BY <1>3, FS_AddElement
  <2>2. orphans' = kept \/ orphans' = kept \cup {new}
    BY <1>1
  <2> QED
    BY <1>3, <1>4, <2>1, <2>2 DEF OrphansTypeOK
<1>6. sent' \subseteq Messages
  BY <1>1, BlockTyped, MessageTyped
<1>7. ChainTypeOK' /\ ChainIndexed' /\ LedgerTypeOK'
  BY DEF KeepOrphan, chainVars, ledgerVars, IInv, TypeOK, ChainTypeOK, ChainIndexed,
         LedgerTypeOK, Elements
<1>8. Len(sideBranches') >= Len(sideBranches)
  BY SideBranchesBounded DEF KeepOrphan, chainVars
<1> QED
  BY <1>5, <1>6, <1>7, <1>8 DEF ChainStaysRight, KeepOrphan, chainVars

\* connect_block that puts the block in a side branch.
LEMMA PushAsideRight ==
  ASSUME IInv, NEW b \in Blocks, PushAside(b)
  PROVE  ChainStaysRight /\ UNCHANGED activeChainIndex
<1>1. sideBranches \in Seq(Seq(Blocks))
  BY DEF IInv, TypeOK, ChainTypeOK
<1>2. /\ sideBranches' \in Seq(Seq(Blocks))
      /\ Len(sideBranches') >= Len(sideBranches)
  <2>1. CASE \E i \in DOMAIN sideBranches : PushOnBranch(b, i)
    <3>1. PICK i \in 1 .. Len(sideBranches) : PushOnBranch(b, i)
      BY <2>1, SideBranchesBounded
    <3>2. Append(sideBranches[i], b) \in Seq(Blocks)
      BY SideBranchesBounded, AppendProperties
    <3>3. sideBranches' = [sideBranches EXCEPT ![i] = Append(sideBranches[i], b)]
      BY <3>1 DEF PushOnBranch
    <3> QED
      BY <1>1, <3>2, <3>3, ExceptSeq, SideBranchesBounded
  <2>2. CASE PushOnNewBranch(b)
    <3>1. <<b>> \in Seq(Blocks)
      OBVIOUS
    <3> QED
      BY <1>1, <2>2, <3>1, AppendProperties, SideBranchesBounded DEF PushOnNewBranch
  <2> QED
    BY <2>1, <2>2 DEF PushAside
<1>3. UNCHANGED <<activeChain, activeChainIndex, orphans, ledgerVars>>
  BY DEF PushAside, PushOnBranch, PushOnNewBranch
<1>4. ChainTypeOK' /\ ChainIndexed' /\ OrphansTypeOK' /\ LedgerTypeOK'
  BY <1>2, <1>3
     DEF ledgerVars, IInv, TypeOK, ChainTypeOK, ChainIndexed, OrphansTypeOK,
         LedgerTypeOK, Elements
<1> QED
  BY <1>2, <1>3, <1>4 DEF ChainStaysRight

\* connect_block(block, doing_reorg) that does not extend the active chain.
LEMMA FailInReorgRight ==
  ASSUME IInv, NEW b \in Blocks, FailInReorg(b)
  PROVE  ChainStaysRight /\ UNCHANGED activeChainIndex /\ sent' \subseteq Messages
<1>1. CASE NothingConnected
  BY <1>1, ChainUnchanged DEF NothingConnected, chainVars
<1>2. CASE ~OnActive(b) /\ KeepOrphan(b)
  BY <1>2, ActiveChain, KeepOrphanRight
<1>3. CASE PushAside(b) /\ sent' = {BlockInfo(b)}
  BY <1>3, PushAsideRight, MessageTyped
<1> QED
  BY <1>1, <1>2, <1>3 DEF FailInReorg

-----------------------------------------------------------------------------
(* Calls and returns. *)

Frames == [op : Ops, block : Blocks]

LEMMA FrameTyped ==
  ASSUME NEW op \in Ops, NEW b \in Blocks
  PROVE  Frame(op, b) \in Frames /\ <<Frame(op, b)>> \in Seq(Frames)
  BY DEF Frame, Frames

LEMMA OwnFramesTyped ==
  /\ <<SaveFrame>> \in Seq(Frames) /\ <<LoadedFrame>> \in Seq(Frames)
  /\ <<WipeFrame>> \in Seq(Frames)
<1>1. Genesis \in Blocks /\ {"save", "loaded", "wipe"} \subseteq Ops
  BY BlockAssumption DEF Ops
<1> QED
  BY <1>1, FrameTyped DEF SaveFrame, LoadedFrame, WipeFrame

LEMMA FramesLeft ==
  ASSUME IInv, frames # <<>>
  PROVE  Head(frames) \in Frames /\ Tail(frames) \in Seq(Frames)
  BY HeadTailProperties DEF IInv, TypeOK, CallTypeOK, Frames

LEMMA ReturnFailureTyped ==
  ASSUME IInv, frames # <<>>, ReturnFailure
  PROVE  frames' \in Seq(Frames) /\ toSave' \subseteq {"net", "miner"}
  BY FramesLeft, OwnFramesTyped DEF ReturnFailure, IInv, TypeOK, NodeTypeOK

\* A frame for each block of a sequence.
LEMMA FramesOfBlocks ==
  ASSUME NEW s \in Seq(Blocks), NEW op \in Ops
  PROVE  [i \in DOMAIN s |-> Frame(op, s[i])] \in Seq(Frames)
<1>1. Len(s) \in Nat /\ DOMAIN s = 1 .. Len(s)
  BY LenProperties
<1>2. \A i \in 1 .. Len(s) : Frame(op, s[i]) \in Frames
  BY ElementOfSeq, FrameTyped
<1>3. [i \in 1 .. Len(s) |-> Frame(op, s[i])] \in [1 .. Len(s) -> Frames]
  BY <1>2
<1> QED
  BY <1>1, <1>3, SeqDef

\* The orphans that wait for a block are finitely many blocks.
LEMMA WaitingTyped ==
  ASSUME IInv, NEW b
  PROVE  Waiting(b) \subseteq Blocks /\ IsFiniteSet(Waiting(b))
<1> DEFINE those == {p \in orphans : Parent[p.block] = b}
           f == [o \in those |-> o.block]
<1>1. IsFiniteSet(those)
  BY FS_Subset DEF IInv, TypeOK, OrphansTypeOK
<1>2. f \in Surjection(those, Waiting(b))
  BY DEF Waiting, Surjection
<1>3. IsFiniteSet(Waiting(b))
  BY <1>1, <1>2, FS_Surjection
<1>4. Waiting(b) \subseteq Blocks
  BY DEF Waiting, IInv, TypeOK, OrphansTypeOK
<1> QED
  BY <1>3, <1>4

LEMMA ReturnConnectedRight ==
  ASSUME IInv, frames # <<>>, NEW reorganised \in BOOLEAN, ReturnConnected(reorganised)
  PROVE  /\ CallTypeOK' /\ OrphansTypeOK' /\ mineInterrupt' \in BOOLEAN
         /\ sent' \subseteq Messages /\ toSave' \subseteq {"net", "miner"}
         /\ at' = "idle"
<1> DEFINE b == Head(frames).block
<1>1. CallerGoesOn \in Seq(Frames)
  <2>1. <<SaveFrame>> \o Tail(frames) \in Seq(Frames)
    BY FramesLeft, OwnFramesTyped, ConcatProperties
  <2> QED
    BY <2>1, FramesLeft, OwnFramesTyped DEF CallerGoesOn
<1>2. PICK candidates \in SetToSeqs(Waiting(b)) :
        frames' = [i \in DOMAIN candidates |-> Frame("orphan", candidates[i])] \o CallerGoesOn
  BY DEF ReturnConnected
<1>3. candidates \in Seq(Blocks)
  <2>1. Cardinality(Waiting(b)) \in Nat
    BY WaitingTyped, FS_CardinalityType
  <2>2. candidates \in [1 .. Cardinality(Waiting(b)) -> Blocks]
    BY WaitingTyped DEF SetToSeqs
  <2> QED
    BY <2>1, <2>2, SeqDef
<1>4. frames' \in Seq(Frames)
  <2>1. [i \in DOMAIN candidates |-> Frame("orphan", candidates[i])] \in Seq(Frames)
    BY <1>3, FramesOfBlocks DEF Ops
  <2> QED
    BY <1>1, <1>2, <2>1, ConcatProperties
<1>5. /\ at' = "idle" /\ landed' = FALSE /\ sent' = {BlockInfo(b)}
      /\ toSave' = toSave \cup SavesNext
      /\ frozen' = <<>> /\ branch' = 0 /\ forkBlock' = Genesis /\ old' = <<>> /\ pos' = 0
      /\ mineInterrupt' = (mineInterrupt \/ reorganised \/ landed)
      /\ orphans' \subseteq orphans
  BY DEF ReturnConnected, ForgetReorg
<1>6. CallTypeOK'
  <2>1. <<>> \in Seq(Seq(Blocks)) /\ <<>> \in Seq(Blocks) /\ Genesis \in Blocks
    BY EmptySeq, BlockAssumption
  <2> QED
    BY <1>4, <1>5, <2>1 DEF CallTypeOK, Places, Frames
<1>7. OrphansTypeOK'
  BY <1>5, FS_Subset DEF IInv, TypeOK, OrphansTypeOK
<1>8. mineInterrupt' \in BOOLEAN
  BY <1>5
<1>9. sent' \subseteq Messages
  BY <1>5, FramesLeft, MessageTyped DEF Frames
<1>10. toSave' \subseteq {"net", "miner"}
  BY <1>5 DEF SavesNext, IInv, TypeOK, NodeTypeOK
<1> QED
  BY <1>5, <1>6, <1>7, <1>8, <1>9, <1>10

-----------------------------------------------------------------------------
(* Every action keeps IInv.  First the rest of the node. *)

\* What IInv says of loops and fork survives a step that leaves them alone.
LEMMA LoopsKept ==
  ASSUME IInv, ChainStaysRight, UNCHANGED <<frozen, branch>>
  PROVE  Len(frozen) <= Len(sideBranches) => Len(frozen)' <= Len(sideBranches)'
<1>1. sideBranches' \in Seq(Seq(Blocks)) /\ frozen \in Seq(Seq(Blocks))
  BY DEF IInv, TypeOK, CallTypeOK, ChainStaysRight, ChainTypeOK
<1>2. Len(sideBranches') \in Nat /\ Len(frozen) \in Nat /\ Len(sideBranches) \in Nat
  BY <1>1, LenProperties, SideBranchesBounded
<1> QED
  BY <1>2 DEF ChainStaysRight

LEMMA EnvironmentStep ==
  ASSUME IInv, Environment
  PROVE  IInv'
<1> USE DEF Quiet
<1>1. ASSUME NEW b \in Blocks, ReceiveBlock(b)
      PROVE  IInv'
  <2>1. ChainStaysRight
    BY <1>1, ChainUnchanged DEF ReceiveBlock
  <2>2. frames' \in Seq(Frames)
    BY <1>1, FrameTyped DEF ReceiveBlock, Ops
  <2> QED
    BY <1>1, <2>1, <2>2
       DEF ReceiveBlock, diskVars, fileVars, envVars, reorgVars, ChainStaysRight, IInv, TypeOK,
           NodeTypeOK, CallTypeOK, Frames, ForkStaysActive, LoopsInBounds, Reorganising
<1>2. ASSUME NEW b \in Blocks, ConnectMined(b)
      PROVE  IInv'
  <2>1. ChainStaysRight
    BY <1>2, ChainUnchanged DEF ConnectMined
  <2>2. frames' \in Seq(Frames)
    BY <1>2, FrameTyped DEF ConnectMined, Ops
  <2> QED
    BY <1>2, <2>1, <2>2
       DEF ConnectMined, diskVars, fileVars, envVars, reorgVars, ChainStaysRight, IInv, TypeOK,
           NodeTypeOK, CallTypeOK, Frames, ForkStaysActive, LoopsInBounds, Reorganising
<1>3. ASSUME NEW t \in Txs, AddTx(t)
      PROVE  IInv'
  <2>1. LedgerTypeOK'
    BY <1>3 DEF AddTx, IInv, TypeOK, LedgerTypeOK
  <2> QED
    BY <1>3, <2>1
       DEF AddTx, chainVars, diskVars, fileVars, envVars, callVars, reorgVars, IInv, TypeOK,
           ChainTypeOK, OrphansTypeOK, NodeTypeOK, CallTypeOK, ChainIndexed, Elements,
           ForkStaysActive, OnActive, LoopsInBounds, Reorganising
<1>4. CASE StartMining
  <2>1. ChainStaysRight
    BY <1>4, ChainUnchanged DEF StartMining
  <2> QED
    BY <1>4, <2>1
       DEF StartMining, chainVars, diskVars, fileVars, envVars, callVars, reorgVars, ChainStaysRight,
           IInv, TypeOK, NodeTypeOK, CallTypeOK, ForkStaysActive, OnActive, LoopsInBounds,
           Reorganising
<1>5. CASE LoadFromDisk
  <2>1. ChainStaysRight
    BY <1>5, ChainUnchanged DEF LoadFromDisk
  <2>2. frames' \in Seq(Frames)
    <3>1. chainFile \in Seq(Blocks)
      BY DEF IInv, TypeOK, NodeTypeOK
    <3>2. [i \in DOMAIN chainFile |-> Frame("load", chainFile[i])] \in Seq(Frames)
      BY <3>1, FramesOfBlocks DEF Ops
    <3> QED
      BY <1>5, <3>2, OwnFramesTyped, ConcatProperties, EmptySeq DEF LoadFromDisk
  <2> QED
    BY <1>5, <2>1, <2>2
       DEF LoadFromDisk, envVars, reorgVars, ChainStaysRight, IInv, TypeOK,
           NodeTypeOK, CallTypeOK, Frames, ForkStaysActive, LoopsInBounds, Reorganising
<1>6. CASE Tick
  <2>1. ChainStaysRight
    BY <1>6, ChainUnchanged DEF Tick
  <2> QED
    BY <1>6, <2>1
       DEF Tick, chainVars, diskVars, fileVars, callVars, reorgVars, ChainStaysRight,
           IInv, TypeOK, NodeTypeOK, CallTypeOK, ForkStaysActive, OnActive, LoopsInBounds,
           Reorganising
<1>7. CASE Restart
  <2>1. /\ ChainTypeOK' /\ ChainIndexed' /\ OrphansTypeOK' /\ LedgerTypeOK'
    <3>1. <<Genesis>> \in Seq(Blocks) /\ <<>> \in Seq(Seq(Blocks)) /\ <<>> \in Seq(Blocks)
      BY BlockAssumption
    <3> QED
      BY <1>7, <3>1, FS_EmptySet, BlockAssumption
         DEF Restart, ChainTypeOK, ChainIndexed, OrphansTypeOK, LedgerTypeOK, Elements
  <2>2. CallTypeOK'
    BY <1>7, EmptySeq, BlockAssumption DEF Restart, ForgetReorg, CallTypeOK, Places
  <2>3. NodeTypeOK'
    <3>1. restarts' \in Nat /\ lastSaved' \in Nat
      BY <1>7 DEF Restart, IInv, TypeOK, NodeTypeOK
    <3>2. mineInterrupt' \in BOOLEAN /\ loaded' \in BOOLEAN
      BY <1>7 DEF Restart
    <3>3. chainFile' \in Seq(Blocks) /\ now' \in Nat
      BY <1>7 DEF Restart, IInv, TypeOK, NodeTypeOK
    <3>4. sent' = {} /\ toSave' = {}
      BY <1>7 DEF Restart
    <3> QED
      BY <3>1, <3>2, <3>3, <3>4 DEF NodeTypeOK
  <2> QED
    BY <1>7, <2>1, <2>2, <2>3
       DEF Restart, IInv, TypeOK, ForkStaysActive, LoopsInBounds, Reorganising
<1> QED
  BY <1>1, <1>2, <1>3, <1>4, <1>5, <1>6, <1>7 DEF Environment

\* The rest of the variables when only the chain and the orphans change.
NodeKept == UNCHANGED <<mineInterrupt, fileVars, envVars>> /\ sent' \subseteq Messages

\* reorg_if_necessary begins.
LEMMA ScanStarts ==
  ASSUME IInv, frames # <<>>, ChainStaysRight, StartScan, NodeKept, UNCHANGED toSave,
         landed' \in BOOLEAN
  PROVE  IInv'
<1>1. /\ at' = "scan" /\ frozen' = sideBranches' /\ branch' = 1
      /\ UNCHANGED <<frames, forkBlock, old, pos>>
  BY DEF StartScan
<1>2. CallTypeOK'
  BY <1>1 DEF IInv, TypeOK, CallTypeOK, ChainStaysRight, ChainTypeOK, Places
<1>3. NodeTypeOK'
  BY DEF NodeKept, diskVars, fileVars, envVars, Messages, IInv, TypeOK, NodeTypeOK
<1>4. LoopsInBounds' /\ ForkStaysActive'
  <2>1. Len(sideBranches') \in Nat
    <3>1. sideBranches' \in Seq(Seq(Blocks))
      BY DEF ChainStaysRight, ChainTypeOK
    <3> QED
      BY <3>1, LenProperties
  <2> QED
    BY <1>1, <2>1 DEF LoopsInBounds, ForkStaysActive, Reorganising
<1> QED
  BY <1>2, <1>3, <1>4 DEF IInv, TypeOK, ChainStaysRight

\* connect_block returns -1.
LEMMA CallFails ==
  ASSUME IInv, NEW b \in Blocks, Connecting(b), ChainStaysRight, ReturnFailure,
         NodeKept, UNCHANGED <<at, landed, reorgVars>>
  PROVE  IInv'
<1>1. frames # <<>> /\ at = "idle"
  BY DEF Connecting, NextCallIs
<1>2. frames' \in Seq(Frames) /\ toSave' \subseteq {"net", "miner"}
  BY <1>1, ReturnFailureTyped
<1>3. CallTypeOK'
  BY <1>2 DEF IInv, TypeOK, CallTypeOK, reorgVars, Frames
<1>4. NodeTypeOK'
  BY <1>2 DEF NodeKept, fileVars, envVars, Messages, IInv, TypeOK, NodeTypeOK
<1>5. LoopsInBounds' /\ ForkStaysActive'
  BY <1>1 DEF LoopsInBounds, ForkStaysActive, Reorganising
<1> QED
  BY <1>3, <1>4, <1>5 DEF IInv, TypeOK, ChainStaysRight

LEMMA ConnectBlockStep ==
  ASSUME IInv, NEW b \in Blocks,
         \/ IgnoreSeen(b) \/ RejectBlock(b) \/ StoreOrphan(b)
         \/ ConnectToActive(b) \/ ConnectAside(b)
  PROVE  IInv'
<1>1. CASE IgnoreSeen(b) \/ RejectBlock(b)
  <2>1. ChainStaysRight
    BY <1>1, ChainUnchanged DEF IgnoreSeen, RejectBlock, NothingConnected
  <2> QED
    BY <1>1, <2>1, CallFails DEF IgnoreSeen, RejectBlock, NothingConnected, NodeKept
<1>2. CASE StoreOrphan(b)
  <2>1. b # Genesis
    BY <1>2, ActiveChain DEF StoreOrphan, Known
  <2>2. ChainStaysRight /\ sent' \subseteq Messages
    BY <1>2, <2>1, KeepOrphanRight DEF StoreOrphan
  <2> QED
    BY <1>2, <2>2, CallFails DEF StoreOrphan, NodeKept
<1>3. CASE ConnectToActive(b)
  <2>1. ChainStaysRight
    BY <1>3, PushOnActiveRight DEF ConnectToActive, Known
  <2> QED
    BY <1>3, <2>1, ScanStarts DEF ConnectToActive, NodeKept, diskVars, Connecting, NextCallIs
<1>4. CASE ConnectAside(b)
  <2>1. ChainStaysRight
    BY <1>4, PushAsideRight DEF ConnectAside
  <2> QED
    BY <1>4, <2>1, ScanStarts DEF ConnectAside, NodeKept, diskVars, Connecting, NextCallIs
<1> QED
  BY <1>1, <1>2, <1>3, <1>4

\* save_to_disk, and the end of load_from_disk.
LEMMA DiskStep ==
  ASSUME IInv, SaveToDisk \/ FinishLoad \/ FailLoad
  PROVE  IInv'
<1>1. Len(activeChain) - 1 \in Nat /\ activeChain \in Seq(Blocks) /\ activeChain # <<>>
  BY ActiveChain DEF IInv, TypeOK, ChainTypeOK, ChainIndexed
<1>2. ASSUME FinishLoad \/ FailLoad
      PROVE  frames # <<>> /\ at = "idle" /\ Tail(frames) \in Seq(Frames)
  BY <1>2, FramesLeft DEF FinishLoad, FailLoad, NextCallIs
<1>3. CASE SaveToDisk
  <2>1. WriteFile /\ at = "idle" /\ toSave' \subseteq toSave
    BY <1>3 DEF SaveToDisk, Quiet, NextCallIs
  <2>2. frames' \in Seq(Frames)
    <3>1. CASE UNCHANGED frames
      BY <3>1 DEF IInv, TypeOK, CallTypeOK, Frames
    <3>2. CASE frames # <<>> /\ frames' = Tail(frames)
      BY <3>2, FramesLeft
    <3> QED
      BY <1>3, <3>1, <3>2 DEF SaveToDisk, NextCallIs
  <2>3. ChainStaysRight
    BY <2>1, ChainUnchanged DEF WriteFile
  <2>4. SavedFile \in Seq(Blocks)
    <3>1. chainFile \in Seq(Blocks) /\ lastSaved \in Nat
      BY DEF IInv, TypeOK, NodeTypeOK
    <3>2. SubSeq(activeChain, lastSaved + 2, Len(activeChain)) \in Seq(Blocks)
      BY <1>1, <3>1, SubSeqTyped, lastSaved + 2 \in Nat \ {0}, Len(activeChain) \in Int,
         Len(activeChain) <= Len(activeChain)
    <3>3. Tail(activeChain) \in Seq(Blocks)
      BY <1>1, HeadTailProperties
    <3> QED
      BY <3>1, <3>2, <3>3, ConcatProperties DEF SavedFile
  <2>5. NodeTypeOK'
    BY <1>1, <2>1, <2>4 DEF WriteFile, envVars, IInv, TypeOK, NodeTypeOK
  <2> QED
    BY <2>1, <2>2, <2>3, <2>5
       DEF WriteFile, reorgVars, ChainStaysRight, IInv, TypeOK, CallTypeOK, Frames,
           ForkStaysActive, LoopsInBounds, Reorganising
<1>4. CASE FinishLoad
  <2>1. ChainStaysRight
    BY <1>4, ChainUnchanged DEF FinishLoad
  <2>2. NodeTypeOK'
    BY <1>1, <1>4 DEF FinishLoad, envVars, IInv, TypeOK, NodeTypeOK
  <2> QED
    BY <1>2, <1>4, <2>1, <2>2
       DEF FinishLoad, reorgVars, ChainStaysRight, IInv, TypeOK, CallTypeOK, Frames,
           ForkStaysActive, LoopsInBounds, Reorganising
<1>5. CASE FailLoad
  <2>1. ChainTypeOK' /\ ChainIndexed' /\ OrphansTypeOK' /\ LedgerTypeOK'
    <3>1. <<Genesis>> \in Seq(Blocks) /\ <<>> \in Seq(Seq(Blocks))
      BY BlockAssumption
    <3> QED
      BY <1>5, <3>1, BlockAssumption, SMTT(40)
         DEF FailLoad, RebuildIndex, ForgetUtxo, IInv, TypeOK, ChainTypeOK, ChainIndexed,
             OrphansTypeOK, LedgerTypeOK, Elements
  <2>2. NodeTypeOK'
    BY <1>5 DEF FailLoad, diskVars, fileVars, envVars, IInv, TypeOK, NodeTypeOK
  <2>3. frames' \in Seq(Frames)
    BY <1>5, EmptySeq DEF FailLoad
  <2> QED
    BY <1>2, <1>5, <2>1, <2>2, <2>3
       DEF FailLoad, reorgVars, IInv, TypeOK, CallTypeOK, Frames, ForkStaysActive,
           LoopsInBounds, Reorganising
<1> QED
  BY <1>3, <1>4, <1>5

LEMMA ConnectStep ==
  ASSUME IInv, Connect
  PROVE  IInv'
  BY ConnectBlockStep, DiskStep DEF Connect

\* The actions of reorg_if_necessary that change no chain.
LEMMA ScanStep ==
  ASSUME IInv, SkipBranch \/ StartReorg \/ ReadOutOfBounds \/ ForkReached \/ RollbackDone
  PROVE  IInv'
<1>1. /\ UNCHANGED <<chainVars, orphans, ledgerVars, frozen, frames, landed, startWork>>
      /\ NodeKept /\ UNCHANGED toSave
  BY DEF SkipBranch, StartReorg, ReadOutOfBounds, ForkReached, RollbackDone, NodeKept,
         diskVars, callVars, reorgVars
<1>2. ChainStaysRight
  BY <1>1, ChainUnchanged
<1>3. NodeTypeOK'
  BY <1>1, <1>2 DEF NodeKept, diskVars, fileVars, envVars, Messages, IInv, TypeOK, NodeTypeOK
<1>4. Len(frozen) \in Nat /\ Len(sideBranches) \in Nat
  <2>1. frozen \in Seq(Seq(Blocks))
    BY DEF IInv, TypeOK, CallTypeOK
  <2> QED
    BY <2>1, LenProperties, SideBranchesBounded
<1>5. CASE SkipBranch \/ RollbackDone
  <2>1. at' = "scan" /\ branch' = branch + 1 /\ UNCHANGED <<forkBlock, old, pos>>
    BY <1>5 DEF SkipBranch, RollbackDone, NextBranch, Scanning, callVars
  <2>2. at = "scan" \/ Reorganising
    BY <1>5 DEF SkipBranch, RollbackDone, Scanning, Reorganising
  <2>3. CallTypeOK'
    BY <1>1, <2>1 DEF IInv, TypeOK, CallTypeOK, Places
  <2>4. LoopsInBounds' /\ ForkStaysActive'
    BY <1>1, <2>1, <2>2, SMTT(40)
       DEF IInv, TypeOK, CallTypeOK, LoopsInBounds, ForkStaysActive, Reorganising, chainVars
  <2> QED
    BY <1>2, <1>3, <2>3, <2>4 DEF IInv, TypeOK, ChainStaysRight
<1>6. CASE StartReorg
  <2> DEFINE h == ForkHeight
  <2>1. /\ at = "scan" /\ branch <= Len(frozen) /\ h >= 0 /\ h # -1
        /\ at' = "disconnect" /\ forkBlock' = activeChain[h + 1] /\ old' = <<>>
        /\ UNCHANGED <<branch, pos>>
    <3>1. ForkHeight >= 0
      BY <1>6 DEF StartReorg
    <3>2. ForkHeight # -1
      BY <3>1
    <3> QED
      BY <1>6, <3>1, <3>2 DEF StartReorg, Scanning
  <2>2. h + 1 \in 1 .. Len(activeChain)
    <3>1. PICK p : OnActive(p) /\ h = activeChainIndex[p]
      BY <2>1 DEF ForkHeight
    <3>2. PICK i \in 1 .. Len(activeChain) : activeChain[i] = p
      BY <3>1, ActiveChain
    <3>3. activeChainIndex[p] = i - 1
      BY <3>2, ActiveChain DEF IInv, ChainIndexed
    <3> QED
      BY <3>1, <3>2, <3>3, ActiveChain
  <2>3. forkBlock' \in Blocks /\ forkBlock' \in DOMAIN activeChainIndex
    BY <2>1, <2>2, ActiveChain DEF OnActive
  <2>4. CallTypeOK'
    BY <1>1, <2>1, <2>3, EmptySeq DEF IInv, TypeOK, CallTypeOK, Places
  <2>5. LoopsInBounds' /\ ForkStaysActive'
    BY <1>1, <2>1, <2>3
       DEF IInv, LoopsInBounds, ForkStaysActive, Reorganising, OnActive, chainVars
  <2> QED
    BY <1>2, <1>3, <2>4, <2>5 DEF IInv, TypeOK, ChainStaysRight
<1>7. CASE ReadOutOfBounds
  <2>1. at = "scan" /\ at' = "crashed" /\ UNCHANGED reorgVars
    BY <1>7 DEF ReadOutOfBounds, Scanning
  <2>2. CallTypeOK'
    BY <1>1, <2>1 DEF reorgVars, IInv, TypeOK, CallTypeOK, Places
  <2> QED
    BY <1>1, <1>2, <1>3, <2>1, <2>2
       DEF IInv, TypeOK, ChainStaysRight, LoopsInBounds, ForkStaysActive, Reorganising
<1>8. CASE ForkReached
  <2>1. /\ Reorganising /\ at' \in {"extend", "restore"} /\ pos' = 1
        /\ UNCHANGED <<branch, forkBlock, old>>
    BY <1>8 DEF ForkReached, Reorganising
  <2>2. CallTypeOK'
    BY <1>1, <2>1 DEF IInv, TypeOK, CallTypeOK, Places
  <2>3. LoopsInBounds' /\ ForkStaysActive'
    BY <1>1, <2>1
       DEF IInv, LoopsInBounds, ForkStaysActive, Reorganising, OnActive, chainVars
  <2> QED
    BY <1>2, <1>3, <2>2, <2>3 DEF IInv, TypeOK, ChainStaysRight
<1> QED
  BY <1>5, <1>6, <1>7, <1>8

LEMMA DisconnectStep ==
  ASSUME IInv, DisconnectTip
  PROVE  IInv'
<1>1. /\ Reorganising /\ at \in {"disconnect", "rollback"} /\ Tip # forkBlock /\ PopTip
      /\ UNCHANGED <<envVars, callVars, frozen, branch, startWork, forkBlock, pos>>
  BY DEF DisconnectTip, Reorganising
<1>2. OnActive(forkBlock)
  BY <1>1 DEF IInv, ForkStaysActive
<1>3. ChainStaysRight /\ DOMAIN activeChainIndex' = DOMAIN activeChainIndex \ {Tip}
  BY <1>1, <1>2, PopTipRight
<1>4. NodeTypeOK'
  BY <1>1, <1>3 DEF PopTip, ForgetSaved, envVars, ChainStaysRight, IInv, TypeOK, NodeTypeOK
<1>5. old' \in Seq(Blocks)
  <2>1. <<Tip>> \in Seq(Blocks) /\ old \in Seq(Blocks)
    BY ActiveChain DEF IInv, TypeOK, CallTypeOK
  <2>2. <<Tip>> \o old \in Seq(Blocks)
    BY <2>1, ConcatProperties
  <2> QED
    BY <2>1, <2>2 DEF DisconnectTip
<1>6. CallTypeOK'
  BY <1>1, <1>5 DEF callVars, IInv, TypeOK, CallTypeOK
<1>7. ForkStaysActive'
  BY <1>1, <1>2, <1>3 DEF ForkStaysActive, OnActive
<1>8. LoopsInBounds'
  BY <1>1 DEF PopTip, callVars, IInv, LoopsInBounds, Reorganising
<1> QED
  BY <1>3, <1>4, <1>6, <1>7, <1>8 DEF IInv, TypeOK, ChainStaysRight

\* The blocks the loops of try_reorg and rollback_reorg are at.
LEMMA LoopBlocks ==
  ASSUME IInv
  PROVE  /\ Extending => frozen[branch][pos] \in Blocks
         /\ at = "restore" /\ pos <= Len(old) => old[pos] \in Blocks
<1>1. /\ frozen \in Seq(Seq(Blocks)) /\ old \in Seq(Blocks)
      /\ branch \in Nat /\ pos \in Nat
  BY DEF IInv, TypeOK, CallTypeOK
<1>2. ASSUME Extending
      PROVE  frozen[branch][pos] \in Blocks
  <2>1. branch \in 1 .. Len(frozen) /\ pos >= 1 /\ pos <= Len(frozen[branch])
    BY <1>1, <1>2, LenProperties DEF Extending, IInv, LoopsInBounds, Reorganising
  <2>2. frozen[branch] \in Seq(Blocks)
    BY <1>1, <2>1, ElementOfSeq
  <2>3. pos \in 1 .. Len(frozen[branch])
    BY <1>1, <2>1, <2>2, LenProperties
  <2> QED
    BY <2>2, <2>3, ElementOfSeq
<1>3. ASSUME at = "restore", pos <= Len(old)
      PROVE  old[pos] \in Blocks
  <2>1. pos \in 1 .. Len(old)
    BY <1>1, <1>3, LenProperties DEF IInv, LoopsInBounds
  <2> QED
    BY <1>1, <2>1, ElementOfSeq
<1> QED
  BY <1>2, <1>3

\* A step of those loops.
LEMMA LoopStep ==
  ASSUME IInv, ExtendReorg \/ AbandonReorg \/ RestoreOld
  PROVE  IInv'
<1>1. /\ Reorganising /\ Reorganising'
      /\ ChainStaysRight /\ DOMAIN activeChainIndex \subseteq DOMAIN activeChainIndex'
      /\ sent' \subseteq Messages
  <2>1. CASE ExtendReorg
    BY <2>1, LoopBlocks, PushOnActiveRight, MessageTyped
       DEF ExtendReorg, Extending, ConnectInReorg, Reorganising, callVars
  <2>2. CASE AbandonReorg
    BY <2>2, LoopBlocks, FailInReorgRight DEF AbandonReorg, Extending, Reorganising
  <2>3. CASE RestoreOld
    BY <2>3, LoopBlocks, PushOnActiveRight, FailInReorgRight, MessageTyped
       DEF RestoreOld, ConnectInReorg, Reorganising, callVars
  <2> QED
    BY <2>1, <2>2, <2>3
<1>2. /\ UNCHANGED <<diskVars, envVars, frames, landed, frozen, branch, forkBlock, old>>
      /\ mineInterrupt' \in {mineInterrupt, TRUE}
  BY DEF ExtendReorg, AbandonReorg, RestoreOld, callVars, reorgVars
<1>3. /\ pos' \in {pos, pos + 1} /\ at' \in Places
      /\ at' \in {"extend", "restore"} => at \in {"extend", "restore"}
  BY DEF ExtendReorg, AbandonReorg, RestoreOld, Extending, callVars, reorgVars, Places
<1>4. CallTypeOK'
  BY <1>2, <1>3 DEF IInv, TypeOK, CallTypeOK
<1>5. NodeTypeOK'
  <2>1. mineInterrupt' \in BOOLEAN
    BY <1>2 DEF IInv, TypeOK, NodeTypeOK
  <2> QED
    BY <1>1, <1>2, <2>1 DEF diskVars, fileVars, envVars, Messages, IInv, TypeOK, NodeTypeOK
<1>6. ForkStaysActive'
  BY <1>1, <1>2 DEF IInv, ForkStaysActive, OnActive
<1>7. LoopsInBounds'
  <2>1. Len(frozen) <= Len(sideBranches) => Len(frozen)' <= Len(sideBranches)'
    BY <1>1, <1>2, LoopsKept
  <2>2. pos \in Nat
    BY DEF IInv, TypeOK, CallTypeOK
  <2> QED
    BY <1>1, <1>2, <1>3, <2>1, <2>2 DEF IInv, LoopsInBounds, Reorganising
<1> QED
  BY <1>1, <1>4, <1>5, <1>6, <1>7 DEF IInv, TypeOK, ChainStaysRight

\* The end of connect_block, after the scan or after a reorganisation.
LEMMA ReturnStep ==
  ASSUME IInv, ScanDone \/ CommitReorg
  PROVE  IInv'
<1>1. /\ at = "scan" \/ Reorganising
      /\ frames # <<>>
      /\ \E reorganised \in BOOLEAN : ReturnConnected(reorganised)
      /\ UNCHANGED <<activeChain, activeChainIndex, ledgerVars, fileVars, envVars>>
  BY DEF ScanDone, CommitReorg, chainVars, Reorganising, IInv, LoopsInBounds
<1>2. /\ CallTypeOK' /\ OrphansTypeOK' /\ mineInterrupt' \in BOOLEAN
      /\ sent' \subseteq Messages /\ toSave' \subseteq {"net", "miner"}
      /\ at' = "idle"
  BY <1>1, ReturnConnectedRight
<1>3. sideBranches' \in Seq(Seq(Blocks))
  <2>1. sideBranches \in Seq(Seq(Blocks)) /\ old \in Seq(Blocks)
    BY DEF IInv, TypeOK, ChainTypeOK, CallTypeOK
  <2>2. CASE ScanDone
    BY <2>1, <2>2 DEF ScanDone, chainVars
  <2>3. CASE CommitReorg
    <3>1. branch \in 1 .. Len(sideBranches)
      <4>1. frozen \in Seq(Seq(Blocks)) /\ branch \in Nat
        BY DEF IInv, TypeOK, CallTypeOK
      <4>2. Len(frozen) \in Nat
        BY <4>1, LenProperties
      <4> QED
        BY <2>3, <4>1, <4>2, SideBranchesBounded
           DEF CommitReorg, IInv, LoopsInBounds, Reorganising
    <3>2. RemoveAt(sideBranches, branch) \in Seq(Seq(Blocks))
      BY <2>1, <3>1, RemoveAtTyped
    <3> QED
      BY <2>1, <2>3, <3>2, AppendProperties DEF CommitReorg, SwapBranches
  <2> QED
    BY <2>2, <2>3
<1>4. ChainTypeOK' /\ ChainIndexed' /\ LedgerTypeOK'
  BY <1>1, <1>3 DEF ledgerVars, IInv, TypeOK, ChainTypeOK, ChainIndexed, LedgerTypeOK, Elements
<1>5. NodeTypeOK'
  BY <1>1, <1>2 DEF fileVars, envVars, Messages, IInv, TypeOK, NodeTypeOK
<1>6. ForkStaysActive' /\ LoopsInBounds'
  BY <1>2 DEF ForkStaysActive, LoopsInBounds, Reorganising
<1> QED
  BY <1>2, <1>4, <1>5, <1>6 DEF IInv, TypeOK

LEMMA ReorgStep ==
  ASSUME IInv, Reorg
  PROVE  IInv'
  BY ScanStep, DisconnectStep, LoopStep, ReturnStep DEF Reorg

-----------------------------------------------------------------------------
(* The theorems. *)

LEMMA InitIInv == Init => IInv
<1> SUFFICES ASSUME Init PROVE IInv
  OBVIOUS
<1>1. /\ <<Genesis>> \in Seq(Blocks) /\ <<>> \in Seq(Seq(Blocks)) /\ <<>> \in Seq(Blocks)
      /\ <<>> \in Seq(Frames) /\ Genesis \in Blocks
  BY BlockAssumption
<1>2. ChainTypeOK /\ ChainIndexed
  BY <1>1 DEF Init, ChainTypeOK, ChainIndexed, Elements
<1>3. OrphansTypeOK /\ LedgerTypeOK
  BY <1>1, FS_EmptySet DEF Init, OrphansTypeOK, LedgerTypeOK
<1>4. NodeTypeOK /\ CallTypeOK
  BY <1>1 DEF Init, NoReorg, NodeTypeOK, CallTypeOK, Places, Frames
<1>5. ForkStaysActive /\ LoopsInBounds
  BY DEF Init, ForkStaysActive, LoopsInBounds, Reorganising
<1> QED
  BY <1>2, <1>3, <1>4, <1>5 DEF IInv, TypeOK

LEMMA NextIInv == IInv /\ [Next]_vars => IInv'
<1> SUFFICES ASSUME IInv, [Next]_vars PROVE IInv'
  OBVIOUS
<1>1. CASE Next
  BY <1>1, ConnectStep, ReorgStep, EnvironmentStep DEF Next
<1>2. CASE UNCHANGED vars
  BY <1>2, SMTT(40)
     DEF vars, chainVars, ledgerVars, diskVars, fileVars, envVars, callVars, reorgVars, IInv, TypeOK,
         ChainTypeOK, OrphansTypeOK, LedgerTypeOK, NodeTypeOK, CallTypeOK, ChainIndexed,
         Elements, ForkStaysActive, OnActive, LoopsInBounds, Reorganising
<1> QED
  BY <1>1, <1>2

\* The inductive invariant holds of every behaviour of the chain, restarts and
\* failed loads of chain.dat included.
THEOREM Invariance == Spec => []IInv
  BY InitIInv, NextIInv, PTL DEF Spec

\* Every field of the chain, of what it changes beside itself, and of the
\* running call keeps its type: so no loop of a reorganisation reads outside the
\* copy of the branch or the list of disconnected blocks.
THEOREM TypeCorrect == Spec => []TypeOK
<1>1. IInv => TypeOK
  BY DEF IInv
<1> QED
  BY <1>1, Invariance, PTL

\* Whatever blocks arrive, in whatever order, and at every step of a
\* reorganisation or of its rollback, active_chain is a chain of parents from the
\* genesis block without a repetition and active_chain_index is its exact inverse.
THEOREM ChainAndIndexAgree == Spec => []ChainIndexed
<1>1. IInv => ChainIndexed
  BY DEF IInv
<1> QED
  BY <1>1, Invariance, PTL

\* disconnect_to_fork always meets the fork block: it never pops the genesis block.
THEOREM ForkIsMet == Spec => []ForkStaysActive
<1>1. IInv => ForkStaysActive
  BY DEF IInv
<1> QED
  BY <1>1, Invariance, PTL

-----------------------------------------------------------------------------
(* The orphan pool. *)

LEMMA FewerOrphans ==
  ASSUME IInv, OrphansBounded, orphans' \subseteq orphans
  PROVE  OrphansBounded'
<1>1. IsFiniteSet(orphans)
  BY DEF IInv, TypeOK, OrphansTypeOK
<1>2. Cardinality(orphans') <= Cardinality(orphans)
  BY <1>1, FS_Subset
<1>3. Cardinality(orphans) \in Nat /\ Cardinality(orphans') \in Nat /\ MaxOrphans \in Nat
  BY <1>1, FS_Subset, FS_CardinalityType, ParameterAssumption
<1> QED
  BY <1>2, <1>3 DEF OrphansBounded

LEMMA KeepOrphanBounded ==
  ASSUME IInv, OrphansBounded, NEW b \in Blocks, KeepOrphan(b)
  PROVE  OrphansBounded'
<1> DEFINE new == [block |-> b, since |-> now]
<1>1. PICK kept \in KeptOrphans :
        \/ orphans' = kept
        \/ (~\E o \in kept : o.block = b) /\ orphans' = kept \cup {new}
  BY DEF KeepOrphan
<1>2. kept \subseteq orphans
  BY DEF KeptOrphans, Unexpired
<1>3. CASE orphans' = kept
  BY <1>2, <1>3, FewerOrphans
<1>4. CASE (~\E o \in kept : o.block = b) /\ orphans' = kept \cup {new}
  <2>1. IsFiniteSet(orphans) /\ IsFiniteSet(kept)
    BY <1>2, FS_Subset DEF IInv, TypeOK, OrphansTypeOK
  <2>2. Cardinality(kept) \in Nat /\ Cardinality(kept) <= MaxOrphans - 1
    <3>1. IsFiniteSet(Unexpired)
      BY <2>1, FS_Subset DEF Unexpired
    <3>2. Cardinality(Unexpired) \in Int /\ MaxOrphans - 1 \in Int
      BY <3>1, FS_CardinalityType, ParameterAssumption
    <3>3. Cardinality(kept) = Min({Cardinality(Unexpired), MaxOrphans - 1})
      BY DEF KeptOrphans
    <3> QED
      BY <2>1, <3>2, <3>3, MinOfTwo, FS_CardinalityType
  <2>3. new \notin kept
    BY <1>4
  <2>4. Cardinality(kept \cup {new}) = Cardinality(kept) + 1
    <3> HIDE DEF new
    <3> QED
      BY <2>1, <2>3, FS_AddElement
  <2>5. Cardinality(orphans') <= MaxOrphans
    BY <1>4, <2>2, <2>4, ParameterAssumption
  <2>6. \A o, p \in kept : o.block = p.block => o = p
    BY <1>2 DEF OrphansBounded
  <2>7. \A o, p \in orphans' : o.block = p.block => o = p
    BY <1>4, <2>6
  <2> QED
    BY <2>5, <2>7 DEF OrphansBounded
<1> QED
  BY <1>1, <1>3, <1>4

\* Only an orphan that is kept adds to the pool.
LEMMA OrphansGrow ==
  ASSUME IInv, [Next]_vars
  PROVE  \/ orphans' \subseteq orphans
         \/ \E b \in Blocks : KeepOrphan(b)
<1>1. CASE Environment
  BY <1>1
     DEF Environment, ReceiveBlock, ConnectMined, AddTx, StartMining, LoadFromDisk, Tick, Restart
<1>2. CASE Connect
  <2>1. ASSUME NEW b \in Blocks, IgnoreSeen(b) \/ RejectBlock(b)
        PROVE  UNCHANGED orphans
    BY <2>1 DEF IgnoreSeen, RejectBlock, NothingConnected
  <2>2. ASSUME NEW b \in Blocks, StoreOrphan(b)
        PROVE  KeepOrphan(b)
    BY <2>2 DEF StoreOrphan
  <2>3. ASSUME NEW b \in Blocks, ConnectToActive(b) \/ ConnectAside(b)
        PROVE  UNCHANGED orphans
    BY <2>3 DEF ConnectToActive, ConnectAside, PushOnActive, PushAside, PushOnBranch,
                PushOnNewBranch
  <2>4. ASSUME SaveToDisk \/ FinishLoad \/ FailLoad
        PROVE  UNCHANGED orphans
    BY <2>4 DEF SaveToDisk, WriteFile, FinishLoad, FailLoad
  <2> QED
    BY <1>2, <2>1, <2>2, <2>3, <2>4 DEF Connect
<1>3. CASE Reorg
  <2>1. ASSUME NEW b \in Blocks, FailInReorg(b)
        PROVE  orphans' \subseteq orphans \/ KeepOrphan(b)
    BY <2>1 DEF FailInReorg, NothingConnected, PushAside, PushOnBranch, PushOnNewBranch
  <2>2. ASSUME NEW b \in Blocks, ConnectInReorg(b)
        PROVE  UNCHANGED orphans
    BY <2>2 DEF ConnectInReorg, PushOnActive
  <2>3. ASSUME ExtendReorg \/ AbandonReorg \/ RestoreOld
        PROVE  orphans' \subseteq orphans \/ \E b \in Blocks : KeepOrphan(b)
    BY <2>1, <2>2, <2>3, LoopBlocks DEF ExtendReorg, AbandonReorg, RestoreOld, Extending
  <2>4. ASSUME ScanDone \/ CommitReorg \/ DisconnectTip
        PROVE  orphans' \subseteq orphans
    BY <2>4 DEF ScanDone, CommitReorg, ReturnConnected, DisconnectTip, PopTip
  <2>5. ASSUME SkipBranch \/ StartReorg \/ ReadOutOfBounds \/ ForkReached \/ RollbackDone
        PROVE  UNCHANGED orphans
    BY <2>5 DEF SkipBranch, StartReorg, ReadOutOfBounds, ForkReached, RollbackDone
  <2> QED
    BY <1>3, <2>3, <2>4, <2>5 DEF Reorg
<1>4. CASE UNCHANGED vars
  BY <1>4 DEF vars
<1> QED
  BY <1>1, <1>2, <1>3, <1>4 DEF Next

\* The orphan pool never outgrows MAX_ORPHAN_BLOCKS nor keeps a block twice,
\* whatever the expiry time and whichever of two equally old orphans is evicted.
THEOREM OrphanPoolBounded == Spec => []OrphansBounded
<1>1. Init => OrphansBounded
  BY FS_EmptySet, ParameterAssumption DEF Init, OrphansBounded
<1>2. IInv /\ OrphansBounded /\ [Next]_vars => OrphansBounded'
  BY FewerOrphans, KeepOrphanBounded, OrphansGrow
<1> QED
  BY <1>1, <1>2, Invariance, PTL DEF Spec

=============================================================================
