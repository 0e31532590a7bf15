--------------------------- MODULE MempoolProofs ----------------------------
(***************************************************************************)
(* Proofs about Mempool for all transactions, coins, limits and blocks.    *)
(*                                                                         *)
(* PoolInv says what the pool, its size and the chain are at any time;     *)
(* AsmInv what the loops of select_from_mempool have done so far; FamInv   *)
(* that nothing on the chain comes back, so families only grow downwards.  *)
(***************************************************************************)
EXTENDS Mempool, DataProofs

Plain == Txs \ Coinbases
Made == OutsOfAll(Txs)
Facts == [coinbase : BOOLEAN, height : Nat]
Calls == [tx : Plain, inputs : SUBSET Outpoints]

IsMap(m) == DOMAIN m \subseteq Made /\ m \in [DOMAIN m -> Facts]

IsPool(f) ==
  /\ DOMAIN f \subseteq Plain /\ IsFiniteSet(DOMAIN f)
  /\ f \in [DOMAIN f -> Nat]

\* Every transaction of the chain spends what some transaction made.
IsChain(c) ==
  /\ c \in Seq(Seq(Plain))
  /\ \A i \in 1..Len(c) : \A t \in Elements(c[i]) : Ins[t] \subseteq Made

PoolTyped ==
  /\ IsMap(utxo) /\ IsChain(mined)
  /\ owed \in 0..2 /\ reorgs \in Nat
  /\ IsPool(pool) /\ poolBytes \in Nat
  /\ sent \subseteq Txs
  /\ stage \in {"idle", "evict", "assemble"}

AsmTyped ==
  /\ stack \in Seq(Calls)
  /\ draft \in Seq(Plain)
  /\ template \in [status : {"none", "built", "failed"}, txs : Seq(Plain)]

PoolInv == PoolTyped /\ AsmTyped /\ BytesExact /\ NoDoubleSpendPending

-----------------------------------------------------------------------------
(* Values, fees and sizes. *)

LEMMA OutsMade ==
  ASSUME NEW ts \in SUBSET Txs
  PROVE  OutsOfAll(ts) \subseteq Made
  BY DEF OutsOfAll, Made

LEMMA OutsFinite ==
  ASSUME NEW t \in Txs
  PROVE  OutsOf(t) \subseteq Made /\ IsFiniteSet(OutsOf(t))
<1> DEFINE n == Len(Outs[t])
           f == [i \in 1..n |-> <<t, i>>]
<1>1. Outs[t] \in Seq(Nat)
  BY TxAssumption
<1>2. n \in Nat /\ DOMAIN Outs[t] = 1..n
  BY <1>1, LenProperties
<1>3. OutsOf(t) = {<<t, i>> : i \in 1..n}
  BY <1>2 DEF OutsOf
<1>4. f \in Surjection(1..n, OutsOf(t))
  BY <1>3 DEF Surjection
<1>5. IsFiniteSet(1..n)
  BY <1>2, FS_Interval
<1>6. IsFiniteSet(OutsOf(t))
  BY <1>4, <1>5, FS_Surjection
<1> QED
  BY <1>6 DEF Made, OutsOfAll

LEMMA ValueTyped ==
  ASSUME NEW p \in Made
  PROVE  Value(p) \in Nat
<1>1. PICK t \in Txs : p \in OutsOf(t)
  BY DEF Made, OutsOfAll
<1>2. PICK i \in DOMAIN Outs[t] : p = <<t, i>>
  BY <1>1 DEF OutsOf
<1>3. Outs[t] \in Seq(Nat)
  BY TxAssumption
<1>4. Outs[t][i] \in Nat
  BY <1>3, LenProperties, ElementOfSeq
<1> QED
  BY <1>2, <1>4 DEF Value

LEMMA TotalValueTyped ==
  ASSUME NEW S \in SUBSET Made, IsFiniteSet(S)
  PROVE  TotalValue(S) \in Nat
<1> DEFINE f == [p \in S |-> Value(p)]
           Fold(g) == g = [s \in SUBSET S |->
                             IF s = {} THEN 0
                             ELSE Value(First(s)) + g[Others(s)]]
           h == CHOOSE g : Fold(g)
<1>1. TotalValue(S) = h[S]
  BY DEF TotalValue, MapThenSumSet, MapThenFoldSet, First, Others
<1>2. PICK g : Folds(f, S, g)
  BY FoldsExist
<1>3. \A s \in SUBSET S : s # {} => f[First(s)] = Value(First(s))
  BY FirstInside
<1>4. Fold(g)
  BY <1>2, <1>3 DEF Folds
<1>5. Fold(h)
  BY <1>4
<1>6. Folds(f, S, h)
  BY <1>3, <1>5 DEF Folds
<1>7. h[S] = g[S]
  BY <1>2, <1>6, FoldsAgree
<1>8. SumOver(f, S) = h[S]
  <2> DEFINE k == CHOOSE x : Folds(f, S, x)
  <2>1. Folds(f, S, k)
    BY <1>6
  <2>2. SumOver(f, S) = k[S]
    BY SumIsFold
  <2> HIDE DEF k, h, f
  <2> QED
    BY <1>6, <2>1, <2>2, FoldsAgree
<1>9. SumOver(f, S) \in Nat
  BY ValueTyped, SumTyped
<1> QED
  BY <1>1, <1>8, <1>9

LEMMA FeesTyped ==
  ASSUME NEW t \in Txs, NEW m, DOMAIN m \subseteq Made, NEW ts \in SUBSET Txs
  PROVE  Fees(t, m, ts) \in Nat
<1> DEFINE S == Ins[t] \cap (DOMAIN m \cup OutsOfAll(ts))
<1>1. IsFiniteSet(Ins[t])
  BY TxAssumption
<1>2. S \in SUBSET Made /\ S \subseteq Ins[t]
  BY OutsMade
<1>3. IsFiniteSet(S)
  BY <1>1, <1>2, FS_Subset
<1>4. TotalValue(S) \in Nat
  BY <1>2, <1>3, TotalValueTyped
<1>5. TotalValue(OutsOf(t)) \in Nat
  BY OutsFinite, TotalValueTyped
<1> HIDE DEF S
<1>6. Fees(t, m, ts) = IF TotalValue(S) < TotalValue(OutsOf(t)) THEN 0
                       ELSE TotalValue(S) - TotalValue(OutsOf(t))
  BY DEF Fees, S
<1> QED
  BY <1>4, <1>5, <1>6

LEMMA SizeTyped == \A t \in Txs : Size[t] \in Nat
  BY PoolAssumption

LEMMA TotalSizeIs ==
  ASSUME NEW ts
  PROVE  TotalSize(ts) = SumOver(Size, ts)
  BY DEF TotalSize, SumOver

LEMMA TotalFeeIs ==
  ASSUME NEW ts
  PROVE  TotalFee(ts) = SumOver(pool, ts)
  BY DEF TotalFee, SumOver

-----------------------------------------------------------------------------
(* The pool and its size. *)

LEMMA WithoutIsPool ==
  ASSUME IsPool(pool), NEW ts
  PROVE  /\ IsPool(Without(ts))
         /\ DOMAIN Without(ts) = Pending \ ts
<1>1. DOMAIN Without(ts) = Pending \ ts
  BY DEF Without
<1>2. IsFiniteSet(Pending \ ts)
  BY FS_Subset DEF IsPool, Pending
<1>3. Without(ts) \in [Pending \ ts -> Nat]
  BY DEF Without, IsPool, Pending
<1> QED
  BY <1>1, <1>2, <1>3 DEF IsPool, Pending

\* Taking entries out takes their sizes off.
LEMMA UnsizeExact ==
  ASSUME IsPool(pool), poolBytes \in Nat, BytesExact, NEW ts \in SUBSET Pending
  PROVE  /\ Unsize(ts) \in Nat
         /\ TotalSize(Pending \ ts) \in Nat
         /\ TotalSize(Pending \ ts) <= Unsize(ts)
         /\ reorgs = 0 => Unsize(ts) = TotalSize(Pending \ ts)
<1>1. IsFiniteSet(Pending) /\ \A t \in Pending : Size[t] \in Nat
  BY SizeTyped DEF IsPool, Pending, Plain
<1>2. /\ TotalSize(Pending) = TotalSize(ts) + TotalSize(Pending \ ts)
      /\ TotalSize(ts) \in Nat /\ TotalSize(Pending \ ts) \in Nat
  <2>1. /\ SumOver(Size, Pending) = SumOver(Size, ts) + SumOver(Size, Pending \ ts)
        /\ SumOver(Size, ts) \in Nat /\ SumOver(Size, Pending \ ts) \in Nat
    BY <1>1, SumSplit
  <2> QED
    BY <2>1, TotalSizeIs
<1> DEFINE left == poolBytes - TotalSize(ts)
<1>3. left \in Int /\ 0 \in Int
  BY <1>2
<1>4. Max({left, 0}) \in {left, 0} /\ Max({left, 0}) >= left /\ Max({left, 0}) >= 0
  <2> HIDE DEF left
  <2> QED
    BY <1>3, MaxOfTwo
<1>5. Unsize(ts) = Max({left, 0})
  BY DEF Unsize
<1>6. /\ TotalSize(Pending) <= poolBytes
      /\ reorgs = 0 => poolBytes = TotalSize(Pending)
  BY DEF BytesExact
<1> DEFINE rest == TotalSize(Pending \ ts)
           off == TotalSize(ts)
           all == TotalSize(Pending)
           max == Max({left, 0})
<1>7. /\ all = off + rest /\ off \in Nat /\ rest \in Nat
      /\ left = poolBytes - off /\ max \in {left, 0} /\ max >= left /\ max >= 0
      /\ all <= poolBytes /\ (reorgs = 0 => poolBytes = all)
      /\ Unsize(ts) = max
  BY <1>2, <1>4, <1>5, <1>6
<1> HIDE DEF rest, off, all, max, left
<1>8. max \in Nat /\ rest <= max /\ (reorgs = 0 => max = rest)
  BY <1>7
<1> QED
  BY <1>7, <1>8 DEF rest

LEMMA ConflictsFree ==
  ASSUME NoDoubleSpendPending, Pending' \subseteq Pending, reorgs' = reorgs
  PROVE  NoDoubleSpendPending'
  BY DEF NoDoubleSpendPending

\* Entries are only taken out.
LEMMA TakenOut ==
  ASSUME PoolInv, NEW ts \in SUBSET Pending,
         pool' = Without(ts), poolBytes' = Unsize(ts), reorgs' = reorgs
  PROVE  /\ IsPool(pool') /\ poolBytes' \in Nat
         /\ BytesExact' /\ NoDoubleSpendPending'
<1>1. IsPool(pool) /\ poolBytes \in Nat /\ BytesExact /\ NoDoubleSpendPending
  BY DEF PoolInv, PoolTyped
<1>2. IsPool(pool') /\ Pending' = Pending \ ts
  BY <1>1, WithoutIsPool DEF Pending
<1>3. /\ Unsize(ts) \in Nat
      /\ TotalSize(Pending \ ts) <= Unsize(ts)
      /\ reorgs = 0 => Unsize(ts) = TotalSize(Pending \ ts)
  BY <1>1, UnsizeExact
<1>4. TotalSize(Pending)' = TotalSize(Pending \ ts)
  <2>1. TotalSize(Pending)' = SumOver(Size, Pending \ ts)
    BY <1>2, TotalSizeIs
  <2> QED
    BY <2>1, TotalSizeIs
<1>5. BytesExact'
  BY <1>3, <1>4 DEF BytesExact
<1>6. NoDoubleSpendPending'
  BY <1>1, <1>2, ConflictsFree
<1> QED
  BY <1>2, <1>3, <1>5, <1>6

(***************************************************************************)
(* A new entry, and what it replaces taken out: all it conflicts with has  *)
(* to be among that.                                                       *)
(***************************************************************************)
LEMMA Inserted ==
  ASSUME PoolInv, NEW t \in Plain, t \notin Pending,
         NEW gone \in SUBSET Pending, Conflicting(t) \subseteq gone,
         Insert(t, gone)
  PROVE  /\ IsPool(pool') /\ poolBytes' \in Nat
         /\ BytesExact' /\ NoDoubleSpendPending'
<1>1. /\ IsPool(pool) /\ poolBytes \in Nat /\ BytesExact
      /\ NoDoubleSpendPending /\ DOMAIN utxo \subseteq Made
  BY DEF PoolInv, PoolTyped, IsMap
<1> DEFINE kept == Pending \ gone
           fee == Fees(t, utxo, Pending)
<1>2. /\ pool' = [u \in kept \cup {t} |-> IF u = t THEN fee ELSE pool[u]]
      /\ poolBytes' = Unsize(gone) + Size[t]
      /\ reorgs' = reorgs
  BY DEF Insert, chainVars
<1>3. /\ Pending \subseteq Plain /\ IsFiniteSet(Pending)
      /\ \A u \in Pending : pool[u] \in Nat
      /\ Plain \subseteq Txs /\ t \in Txs
  BY <1>1 DEF IsPool, Pending, Plain
<1>4. fee \in Nat
  BY <1>1, <1>3, FeesTyped
<1>5. Pending' = kept \cup {t}
  BY <1>2 DEF Pending
<1>6. IsFiniteSet(kept) /\ IsFiniteSet(kept \cup {t})
  BY <1>3, FS_Subset, FS_AddElement
<1>7. IsPool(pool')
  <2> HIDE DEF fee, kept
  <2>1. pool' \in [kept \cup {t} -> Nat]
    BY <1>2, <1>3, <1>4 DEF kept
  <2>2. kept \cup {t} \subseteq Plain
    BY <1>3 DEF kept
  <2> QED
    BY <1>5, <1>6, <2>1, <2>2 DEF IsPool, Pending
<1>8. /\ Unsize(gone) \in Nat
      /\ TotalSize(kept) \in Nat
      /\ TotalSize(kept) <= Unsize(gone)
      /\ reorgs = 0 => Unsize(gone) = TotalSize(kept)
  BY <1>1, UnsizeExact
<1>9. TotalSize(Pending)' = Size[t] + TotalSize(kept)
  <2>1. TotalSize(Pending)' = SumOver(Size, kept \cup {t})
    BY <1>5, TotalSizeIs
  <2>2. t \notin kept /\ \A u \in kept \cup {t} : Size[u] \in Nat
    BY <1>3, SizeTyped
  <2>3. SumOver(Size, kept \cup {t}) = Size[t] + SumOver(Size, kept)
    BY <1>6, <2>2, SumAdd
  <2> QED
    BY <2>1, <2>3, TotalSizeIs
<1>10. Size[t] \in Nat
  BY <1>3, SizeTyped
<1>11. BytesExact'
  <2> HIDE DEF kept
  <2> QED
    BY <1>2, <1>8, <1>9, <1>10 DEF BytesExact
<1>12. NoDoubleSpendPending'
  <2> SUFFICES ASSUME reorgs = 0, NEW u \in Pending', NEW v \in Pending', u # v
               PROVE  Ins[u] \cap Ins[v] = {}
    BY <1>2 DEF NoDoubleSpendPending
  <2>1. CASE u # t /\ v # t
    BY <1>1, <1>5, <2>1 DEF NoDoubleSpendPending
  <2>2. \A w \in kept : Ins[w] \cap Ins[t] = {}
    BY DEF Conflicting
  <2>3. CASE u = t \/ v = t
    BY <1>5, <2>2, <2>3
  <2> QED
    BY <2>1, <2>3
<1> QED
  BY <1>2, <1>7, <1>8, <1>10, <1>11, <1>12

-----------------------------------------------------------------------------
(* Families. *)

LEMMA FamilyInside ==
  ASSUME NEW ts
  PROVE  /\ WithDescendants(ts) \in SUBSET Pending
         /\ ts \cap Pending \subseteq WithDescendants(ts)
  BY DEF WithDescendants

\* A child of one of the family is one of the family.
LEMMA FamilyClosed ==
  ASSUME NEW ts, NEW u \in Pending, ParentsOf(u) \cap WithDescendants(ts) # {}
  PROVE  u \in WithDescendants(ts)
<1>1. PICK v \in WithDescendants(ts) : v \in ParentsOf(u)
  OBVIOUS
<1>2. ASSUME NEW S \in SUBSET Pending,
             ts \cap Pending \subseteq S,
             \A t \in Pending : ParentsOf(t) \cap S # {} => t \in S
      PROVE  u \in S
  <2>1. v \in S
    BY <1>2 DEF WithDescendants
  <2> QED
    BY <1>1, <1>2, <2>1
<1> QED
  BY <1>2 DEF WithDescendants

\* The family of several is inside the families of each.
LEMMA FamilySplits ==
  ASSUME NEW ts \in SUBSET Pending
  PROVE  WithDescendants(ts) \subseteq UNION {WithDescendants({c}) : c \in ts}
<1> DEFINE S == UNION {WithDescendants({c}) : c \in ts}
<1>1. S \in SUBSET Pending /\ ts \cap Pending \subseteq S
  <2>1. \A c \in ts : /\ WithDescendants({c}) \in SUBSET Pending
                      /\ {c} \cap Pending \subseteq WithDescendants({c})
    BY FamilyInside
  <2> QED
    BY <2>1
<1>2. ASSUME NEW t \in Pending, ParentsOf(t) \cap S # {}
      PROVE  t \in S
  <2>1. PICK c \in ts : ParentsOf(t) \cap WithDescendants({c}) # {}
    BY <1>2, ZenonT(40)
  <2> QED
    BY <2>1, FamilyClosed, ZenonT(40)
<1> HIDE DEF S
<1>3. WithDescendants(ts) \subseteq S
  BY <1>1, <1>2 DEF WithDescendants
<1> QED
  BY <1>3 DEF S

-----------------------------------------------------------------------------
(* Blocks. *)

LEMMA HeightTyped ==
  ASSUME PoolTyped
  PROVE  Len(mined) \in Nat /\ BaseHeight \in Nat /\ Height \in Nat
<1>1. Len(mined) \in Nat
  BY LenProperties DEF PoolTyped, IsChain
<1>2. BaseHeight \in Nat
  BY PoolAssumption
<1> QED
  BY <1>1, <1>2 DEF Height

LEMMA ElementsTyped ==
  ASSUME NEW S, NEW s \in Seq(S)
  PROVE  Elements(s) \subseteq S
<1>1. \A i \in DOMAIN s : s[i] \in S
  BY LenProperties, ElementOfSeq
<1> QED
  BY <1>1 DEF Elements

\* A block that was found valid, connected.
LEMMA ConnectedMap ==
  ASSUME IsMap(utxo), NEW txs \in Seq(Txs), NEW height \in Nat
  PROVE  IsMap(ConnectTxs(utxo, txs, height))
<1> DEFINE kept == MadeAndKept(txs)
           left == DOMAIN utxo \ SpentIn(txs)
           m == [p \in left \cup kept |->
                   IF p \in kept
                   THEN [coinbase |-> p[1] \in Coinbases, height |-> height]
                   ELSE utxo[p]]
<1>1. \A i \in DOMAIN txs : OutsOf(txs[i]) \subseteq Made
  <2>1. \A i \in DOMAIN txs : txs[i] \in Txs
    BY LenProperties, ElementOfSeq
  <2> QED
    BY <2>1, OutsFinite
<1>2. kept \subseteq Made
  BY <1>1 DEF MadeAndKept
<1>3. ConnectTxs(utxo, txs, height) = m
  BY DEF ConnectTxs
<1>4. left \cup kept \subseteq Made
  BY <1>2 DEF IsMap
<1>5. \A p \in left \cup kept :
        (IF p \in kept
         THEN [coinbase |-> p[1] \in Coinbases, height |-> height]
         ELSE utxo[p]) \in Facts
  <2> HIDE DEF kept
  <2>1. \A p \in left : utxo[p] \in Facts
    BY DEF IsMap
  <2>2. \A b \in BOOLEAN : [coinbase |-> b, height |-> height] \in Facts
    BY DEF Facts
  <2>3. \A p : (p[1] \in Coinbases) \in BOOLEAN
    OBVIOUS
  <2>4. \A p : [coinbase |-> p[1] \in Coinbases, height |-> height] \in Facts
    BY <2>2, <2>3
  <2> QED
    BY <2>1, <2>4
<1>6. m \in [left \cup kept -> Facts] /\ DOMAIN m = left \cup kept
  <2> HIDE DEF left, kept
  <2> QED
    BY <1>5
<1> HIDE DEF m, left, kept
<1> QED
  BY <1>3, <1>4, <1>6 DEF IsMap

LEMMA ConnectRight ==
  ASSUME PoolInv, NEW txs \in Seq(Plain), Connect(txs)
  PROVE  PoolInv'
<1>1. /\ PoolTyped /\ AsmTyped /\ BytesExact /\ NoDoubleSpendPending
      /\ IsMap(utxo) /\ IsChain(mined) /\ owed \in 0..2 /\ reorgs \in Nat
  BY DEF PoolInv, PoolTyped
<1>2. /\ mined' = Append(mined, txs)
      /\ utxo' = ConnectTxs(utxo, txs, Height + 1)
      /\ pool' = Without(Elements(txs))
      /\ poolBytes' = Unsize(Elements(txs) \cap Pending)
      /\ owed' = Max({owed - 1, 0})
      /\ template' = NoTemplate /\ sent' = {}
      /\ UNCHANGED <<reorgs, stage, stack, draft>>
  BY DEF Connect, LeavePool
<1>3. txs \in Seq(Txs) /\ Elements(txs) \subseteq Txs
  <2>1. Plain \subseteq Txs
    BY DEF Plain
  <2>2. Len(txs) \in Nat /\ txs \in [1..Len(txs) -> Plain]
    BY LenProperties
  <2>3. txs \in [1..Len(txs) -> Txs]
    BY <2>1, <2>2
  <2>4. txs \in Seq(Txs)
    BY <2>2, <2>3
  <2> QED
    BY <2>4, ElementsTyped
<1>4. IsMap(utxo')
  <2>1. Height + 1 \in Nat
    BY <1>1, HeightTyped
  <2> QED
    BY <1>1, <1>2, <1>3, <2>1, ConnectedMap
<1>5. \A t \in Elements(txs) : Ins[t] \subseteq Made
  <2>1. \A t \in Elements(txs) :
          Ins[t] \subseteq DOMAIN utxo \cup OutsOfAll(Elements(txs))
    BY DEF Connect, Connectable, ValidTx
  <2> QED
    BY <1>1, <1>3, <2>1, OutsMade DEF IsMap
<1>6. IsChain(mined')
  <2> DEFINE B == Seq(Plain)
  <2>1. mined \in Seq(B) /\ txs \in B
    BY <1>1 DEF IsChain
  <2>2. /\ Append(mined, txs) \in Seq(B)
        /\ Len(Append(mined, txs)) = Len(mined) + 1
        /\ \A i \in 1..Len(mined) : Append(mined, txs)[i] = mined[i]
        /\ Append(mined, txs)[Len(mined) + 1] = txs
    <3> HIDE DEF B
    <3> QED
      BY <2>1, AppendProperties
  <2>3. Len(mined) \in Nat
    BY <1>1, HeightTyped
  <2>4. \A i \in 1..(Len(mined) + 1) : i \in 1..Len(mined) \/ i = Len(mined) + 1
    BY <2>3
  <2>5. \A i \in 1..Len(mined') : \A t \in Elements(mined'[i]) :
          Ins[t] \subseteq Made
    <3>1. \A i \in 1..Len(mined) : \A t \in Elements(mined[i]) :
            Ins[t] \subseteq Made
      BY <1>1 DEF IsChain
    <3> HIDE DEF B
    <3> QED
      BY <1>2, <1>5, <2>2, <2>4, <3>1
  <2> QED
    BY <1>2, <2>2, <2>5 DEF IsChain
<1>7. owed' \in 0..2
  <2>1. owed - 1 \in Int /\ 0 \in Int
    BY <1>1
  <2>2. Max({owed - 1, 0}) \in {owed - 1, 0} /\ Max({owed - 1, 0}) >= 0
    BY <2>1, MaxOfTwo
  <2> QED
    BY <1>1, <1>2, <2>2
<1> DEFINE out == Elements(txs) \cap Pending
<1>8. pool' = Without(out)
  BY <1>2 DEF Without
<1>9. /\ IsPool(pool') /\ poolBytes' \in Nat
      /\ BytesExact' /\ NoDoubleSpendPending'
  <2>1. out \in SUBSET Pending /\ poolBytes' = Unsize(out) /\ reorgs' = reorgs
    BY <1>2
  <2> HIDE DEF out
  <2> QED
    BY <1>8, <2>1, TakenOut
<1>10. PoolTyped'
  BY <1>1, <1>2, <1>4, <1>6, <1>7, <1>9 DEF PoolTyped
<1>11. AsmTyped'
  <2>1. NoTemplate \in [status : {"none", "built", "failed"}, txs : Seq(Plain)]
    BY EmptySeq DEF NoTemplate
  <2> QED
    BY <1>1, <1>2, <2>1 DEF AsmTyped
<1> QED
  BY <1>9, <1>10, <1>11 DEF PoolInv

\* What is kept beside an output that is on the chain.
LEMMA OriginTyped ==
  ASSUME PoolTyped, NEW p, OnChain(p)
  PROVE  Origin(p) \in Facts
<1>1. CASE p \in DOMAIN Coins
  BY <1>1, PoolAssumption DEF Origin, Facts
<1>2. CASE p \notin DOMAIN Coins
  <2>1. Makers(p) # {}
    BY <1>2 DEF OnChain
  <2>2. Makers(p) \in SUBSET Nat
    BY LenProperties DEF Makers, PoolTyped, IsChain
  <2>3. Min(Makers(p)) \in Nat
    BY <2>1, <2>2, MinInside
  <2>4. BaseHeight + Min(Makers(p)) \in Nat
    BY <2>3, HeightTyped
  <2>5. Origin(p) = [coinbase |-> FALSE, height |-> BaseHeight + Min(Makers(p))]
    BY <1>2 DEF Origin
  <2> QED
    BY <2>4, <2>5 DEF Facts
<1> QED
  BY <1>1, <1>2

\* What the loop of disconnect_block has made of pool, size and map so far.
Backs ==
  {r \in [fees  : UNION {[D -> Nat] : D \in SUBSET Plain},
          bytes : Nat,
          utxo  : UNION {[D -> Facts] : D \in SUBSET Made}] :
     /\ IsFiniteSet(DOMAIN r.fees) /\ Pending \subseteq DOMAIN r.fees
     /\ SumOver(Size, DOMAIN r.fees) <= r.bytes}

LEMMA BackIs ==
  ASSUME NEW r \in Backs
  PROVE  /\ IsPool(r.fees) /\ r.bytes \in Nat /\ IsMap(r.utxo)
         /\ Pending \subseteq DOMAIN r.fees
         /\ SumOver(Size, DOMAIN r.fees) <= r.bytes
<1>1. PICK D \in SUBSET Plain : r.fees \in [D -> Nat]
  BY DEF Backs
<1>2. PICK E \in SUBSET Made : r.utxo \in [E -> Facts]
  BY DEF Backs
<1> QED
  BY <1>1, <1>2 DEF Backs, IsPool, IsMap

LEMMA IsBack ==
  ASSUME NEW f, IsPool(f), Pending \subseteq DOMAIN f,
         NEW b \in Nat, SumOver(Size, DOMAIN f) <= b, NEW m, IsMap(m)
  PROVE  [fees |-> f, bytes |-> b, utxo |-> m] \in Backs
<1>1. f \in UNION {[D -> Nat] : D \in SUBSET Plain}
  BY DEF IsPool
<1>2. m \in UNION {[D -> Facts] : D \in SUBSET Made}
  BY DEF IsMap
<1>3. IsFiniteSet(DOMAIN f)
  BY DEF IsPool
<1> QED
  BY <1>1, <1>2, <1>3 DEF Backs

LEMMA PutBackRight ==
  ASSUME PoolTyped, NEW r \in Backs, NEW t \in Plain, Ins[t] \subseteq Made
  PROVE  PutBackTx(r, t) \in Backs
<1> DEFINE D == DOMAIN r.fees
           fee == Fees(t, r.utxo, D)
           fees == [u \in D \cup {t} |-> IF u = t THEN fee ELSE r.fees[u]]
           back == {p \in Ins[t] : OnChain(p)}
           E == (DOMAIN r.utxo \cup back) \ OutsOf(t)
           map == [p \in E |-> IF p \in back THEN Origin(p) ELSE r.utxo[p]]
           bytes == r.bytes + Size[t]
<1>1. /\ IsPool(r.fees) /\ r.bytes \in Nat /\ IsMap(r.utxo)
      /\ Pending \subseteq D /\ SumOver(Size, D) <= r.bytes
  BY BackIs
<1>2. t \in Txs /\ Plain \subseteq Txs /\ D \subseteq Plain /\ IsFiniteSet(D)
  BY <1>1 DEF Plain, IsPool
<1>3. fee \in Nat
  <2>1. DOMAIN r.utxo \subseteq Made /\ D \in SUBSET Txs
    BY <1>1, <1>2 DEF IsMap
  <2> QED
    BY <1>2, <2>1, FeesTyped
<1>4. IsPool(fees) /\ DOMAIN fees = D \cup {t}
  <2>1. \A u \in D : r.fees[u] \in Nat
    BY <1>1 DEF IsPool
  <2>2. IsFiniteSet(D \cup {t}) /\ D \cup {t} \subseteq Plain
    BY <1>2, FS_AddElement
  <2> HIDE DEF D, fee
  <2>3. fees \in [D \cup {t} -> Nat] /\ DOMAIN fees = D \cup {t}
    BY <1>3, <2>1
  <2> HIDE DEF fees
  <2> QED
    BY <2>2, <2>3 DEF IsPool
<1>5. IsMap(map)
  <2>1. E \subseteq Made
    BY <1>1 DEF IsMap
  <2>2. \A p \in E : p \notin back => r.utxo[p] \in Facts
    BY <1>1 DEF IsMap
  <2>3. \A p \in back : Origin(p) \in Facts
    BY OriginTyped
  <2> HIDE DEF E, back
  <2>4. map \in [E -> Facts] /\ DOMAIN map = E
    BY <2>2, <2>3
  <2> HIDE DEF map
  <2> QED
    BY <2>1, <2>4 DEF IsMap
<1>6. bytes \in Nat /\ SumOver(Size, D \cup {t}) <= bytes
  <2>1. \A u \in D \cup {t} : Size[u] \in Nat
    BY <1>2, SizeTyped
  <2>2. SumOver(Size, D) \in Nat
    BY <1>2, <2>1, SumTyped
  <2>3. CASE t \in D
    <3>1. SumOver(Size, D \cup {t}) = SumOver(Size, D)
      <4>1. \A A : A = D => SumOver(Size, A) = SumOver(Size, D)
        OBVIOUS
      <4>2. D \cup {t} = D
        BY <2>3
      <4> HIDE DEF D
      <4> QED
        BY <4>1, <4>2, Zenon
    <3>2. Size[t] \in Nat
      BY <2>1
    <3> HIDE DEF D
    <3> QED
      BY <1>1, <2>2, <3>1, <3>2
  <2>4. CASE t \notin D
    <3>1. SumOver(Size, D \cup {t}) = Size[t] + SumOver(Size, D)
      BY <1>2, <2>1, <2>4, SumAdd
    <3>2. Size[t] \in Nat
      BY <2>1
    <3> HIDE DEF D
    <3> QED
      BY <1>1, <2>2, <3>1, <3>2
  <2> HIDE DEF D, bytes
  <2> QED
    BY <2>3, <2>4
<1>7. PutBackTx(r, t) = [fees |-> fees, bytes |-> bytes, utxo |-> map]
  BY DEF PutBackTx
<1>8. Pending \subseteq DOMAIN fees
  BY <1>1, <1>4
<1> HIDE DEF D, fee, fees, back, E, map, bytes
<1> QED
  BY <1>4, <1>5, <1>6, <1>7, <1>8, IsBack

LEMMA AllPutBack ==
  ASSUME PoolTyped, NEW txs \in Seq(Plain),
         \A t \in Elements(txs) : Ins[t] \subseteq Made,
         NEW base \in Backs
  PROVE  FoldLeft(PutBackTx, base, txs) \in Backs
<1> DEFINE n == Len(txs)
           step == [a \in (1..n) \X Backs |-> PutBackTx(a[2], txs[a[1]])]
           Fold(g) == g = [s \in SUBSET (1..n) |->
                             IF s = {} THEN base
                             ELSE PutBackTx(g[s \ {Max(s)}], txs[Max(s)])]
           h == CHOOSE g : Fold(g)
<1>1. n \in Nat /\ DOMAIN txs = 1..n
  BY LenProperties
<1>2. ASSUME NEW v \in Backs, NEW i \in 1..n
      PROVE  PutBackTx(v, txs[i]) \in Backs
  <2>1. txs[i] \in Plain /\ txs[i] \in Elements(txs)
    BY <1>1, ElementOfSeq DEF Elements
  <2> QED
    BY <2>1, PutBackRight
<1>3. FoldLeft(PutBackTx, base, txs) = h[1..n]
  BY <1>1 DEF FoldLeft, MapThenFoldSet
<1> HIDE DEF n
<1>4. \A i \in 1..n, v \in Backs :
        /\ step[<<i, v>>] = PutBackTx(v, txs[i])
        /\ step[<<i, v>>] \in Backs
  BY <1>2
<1> HIDE DEF step
<1>5. PICK g : FoldsLeft(n, base, step, g)
  BY <1>1, FoldLeftExists
<1>6. \A s \in SUBSET (1..n), v \in Backs :
        s # {} => /\ step[<<Max(s), v>>] = PutBackTx(v, txs[Max(s)])
                  /\ PutBackTx(v, txs[Max(s)]) \in Backs
  BY <1>1, <1>4, MaxInside
<1>7. \A s \in SUBSET (1..n) : g[s] \in Backs
  <2>1. /\ g[{}] = base
        /\ \A s \in SUBSET (1..n) :
             s # {} => g[s] = step[<<Max(s), g[s \ {Max(s)}]>>]
    BY <1>5 DEF FoldsLeft
  <2>2. ASSUME NEW s \in SUBSET (1..n), s # {}, g[s \ {Max(s)}] \in Backs
        PROVE  g[s] \in Backs
    <3> DEFINE v == g[s \ {Max(s)}]
    <3>1. v \in Backs /\ g[s] = step[<<Max(s), v>>]
      BY <2>1, <2>2, Zenon
    <3> HIDE DEF v
    <3>2. step[<<Max(s), v>>] = PutBackTx(v, txs[Max(s)]) /\ PutBackTx(v, txs[Max(s)]) \in Backs
      BY <1>6, <2>2, <3>1, Zenon
    <3> QED
      BY <3>1, <3>2, Zenon
  <2> QED
    BY <1>1, <2>1, <2>2, FoldLeftStays
<1>8. Fold(g)
  BY <1>5, <1>6, <1>7 DEF FoldsLeft
<1>9. Fold(h)
  BY <1>8
<1> HIDE DEF h
<1>10. /\ h[{}] = base
       /\ \A s \in SUBSET (1..n) :
            s # {} => h[s] = PutBackTx(h[s \ {Max(s)}], txs[Max(s)])
  BY <1>9
<1>11. \A s \in SUBSET (1..n) : h[s] \in Backs
  <2>1. ASSUME NEW s \in SUBSET (1..n), s # {}, h[s \ {Max(s)}] \in Backs
        PROVE  h[s] \in Backs
    BY <1>6, <1>10, <2>1
  <2> QED
    BY <1>1, <1>10, <2>1, FoldLeftStays
<1> QED
  BY <1>3, <1>11

LEMMA DisconnectRight ==
  ASSUME PoolInv, DisconnectTip
  PROVE  PoolInv' /\ Pending \subseteq Pending'
<1> DEFINE last == Len(mined)
           base == [fees |-> pool, bytes |-> poolBytes, utxo |-> utxo]
           done == FoldLeft(PutBackTx, base, mined[last])
<1>1. /\ PoolTyped /\ AsmTyped /\ BytesExact
      /\ IsMap(utxo) /\ IsChain(mined) /\ IsPool(pool) /\ poolBytes \in Nat
      /\ reorgs \in Nat
  BY DEF PoolInv, PoolTyped
<1>2. /\ pool' = done.fees /\ poolBytes' = done.bytes /\ utxo' = done.utxo
      /\ mined # <<>> /\ mined' = SubSeq(mined, 1, last - 1)
      /\ owed' = 2 /\ reorgs' = reorgs + 1
      /\ template' = NoTemplate /\ sent' = {}
      /\ UNCHANGED <<stage, stack, draft>>
  BY DEF DisconnectTip
<1> DEFINE B == Seq(Plain)
<1>3. mined \in Seq(B) /\ last \in Nat /\ last >= 1
  <2>1. mined \in Seq(B) /\ last \in Nat
    BY <1>1, LenProperties DEF IsChain
  <2>2. last # 0
    <3> HIDE DEF B
    <3> QED
      BY <1>2, <2>1, EmptySeq
  <2> QED
    BY <2>1, <2>2
<1>4. /\ mined[last] \in B
      /\ \A t \in Elements(mined[last]) : Ins[t] \subseteq Made
  <2>1. last \in 1..Len(mined)
    BY <1>3
  <2>2. mined[last] \in B
    <3> HIDE DEF B
    <3> QED
      BY <1>3, <2>1, ElementOfSeq
  <2> QED
    BY <1>1, <2>1, <2>2 DEF IsChain
<1>5. base \in Backs
  <2>1. SumOver(Size, DOMAIN pool) <= poolBytes
    <3>1. TotalSize(Pending) <= poolBytes
      BY <1>1 DEF BytesExact
    <3>2. TotalSize(Pending) = SumOver(Size, Pending)
      BY TotalSizeIs
    <3> QED
      BY <3>1, <3>2 DEF Pending
  <2> QED
    BY <1>1, <2>1, IsBack DEF Pending
<1>6. done \in Backs
  <2> HIDE DEF base, last
  <2> QED
    BY <1>1, <1>4, <1>5, AllPutBack
<1>7. /\ IsPool(pool') /\ poolBytes' \in Nat /\ IsMap(utxo')
      /\ Pending \subseteq DOMAIN pool'
      /\ SumOver(Size, DOMAIN pool') <= poolBytes'
  <2> HIDE DEF done
  <2> QED
    BY <1>2, <1>6, BackIs
<1>8. BytesExact'
  <2>1. TotalSize(Pending)' = SumOver(Size, DOMAIN pool')
    BY TotalSizeIs DEF Pending
  <2>2. reorgs' # 0
    BY <1>1, <1>2
  <2> QED
    BY <1>7, <2>1, <2>2 DEF BytesExact
<1>9. NoDoubleSpendPending'
  BY <1>1, <1>2 DEF NoDoubleSpendPending
<1>10. IsChain(mined')
  <2>1. /\ SubSeq(mined, 1, last - 1) \in Seq(B)
        /\ Len(SubSeq(mined, 1, last - 1)) = last - 1
        /\ \A i \in 1..(last - 1) : SubSeq(mined, 1, last - 1)[i] = mined[i]
    <3> HIDE DEF B
    <3> QED
      BY <1>3, PrefixTyped
  <2>2. \A i \in 1..(last - 1) : i \in 1..Len(mined)
    BY <1>3
  <2>3. \A i \in 1..Len(mined') : \A t \in Elements(mined'[i]) :
          Ins[t] \subseteq Made
    <3>1. \A i \in 1..Len(mined) : \A t \in Elements(mined[i]) :
            Ins[t] \subseteq Made
      BY <1>1 DEF IsChain
    <3> HIDE DEF B, last
    <3> QED
      BY <1>2, <2>1, <2>2, <3>1
  <2> QED
    BY <1>2, <2>1, <2>3 DEF IsChain
<1>11. PoolTyped'
  <2>1. reorgs' \in Nat /\ owed' \in 0..2 /\ sent' \subseteq Txs
    BY <1>1, <1>2
  <2> HIDE DEF done
  <2> QED
    BY <1>1, <1>2, <1>7, <1>10, <2>1 DEF PoolTyped
<1>12. AsmTyped'
  <2>1. NoTemplate \in [status : {"none", "built", "failed"}, txs : Seq(Plain)]
    BY EmptySeq DEF NoTemplate
  <2> HIDE DEF done
  <2> QED
    BY <1>1, <1>2, <2>1 DEF AsmTyped
<1> QED
  BY <1>7, <1>8, <1>9, <1>11, <1>12 DEF PoolInv, Pending

-----------------------------------------------------------------------------
(* The steps of the pool. *)

LEMMA ConflictingInside ==
  ASSUME NEW t
  PROVE  /\ Conflicting(t) \in SUBSET Pending
         /\ Conflicting(t) \subseteq WithDescendants(Conflicting(t))
<1>1. Conflicting(t) \in SUBSET Pending
  BY DEF Conflicting
<1> QED
  BY <1>1, FamilyInside

LEMMA InsertRight ==
  ASSUME PoolInv, NEW t \in Plain, t \notin Pending,
         NEW gone \in SUBSET Pending, Conflicting(t) \subseteq gone,
         Insert(t, gone)
  PROVE  PoolInv'
<1>1. /\ IsPool(pool') /\ poolBytes' \in Nat
      /\ BytesExact' /\ NoDoubleSpendPending'
  BY Inserted
<1>2. /\ stage' = "evict" /\ sent' = {t}
      /\ UNCHANGED <<chainVars, asmVars>>
  BY DEF Insert
<1>3. PoolTyped'
  BY <1>1, <1>2 DEF PoolInv, PoolTyped, chainVars, Plain
<1>4. AsmTyped'
  BY <1>2 DEF PoolInv, AsmTyped, asmVars
<1> QED
  BY <1>1, <1>3, <1>4 DEF PoolInv

LEMMA AddRight ==
  ASSUME PoolInv, NEW t \in Plain, AddTx(t)
  PROVE  PoolInv'
<1>1. t \notin Pending
  BY DEF AddTx, AddFresh, ReplaceByFee, Acceptable
<1>2. CASE AddFresh(t)
  <2>1. Conflicting(t) = {} /\ Insert(t, {}) /\ {} \in SUBSET Pending
    BY <1>2 DEF AddFresh
  <2>2. Conflicting(t) \subseteq {}
    BY <2>1
  <2> QED
    BY <1>1, <2>1, <2>2, InsertRight
<1>3. CASE ReplaceByFee(t)
  <2>1. Insert(t, WithDescendants(Conflicting(t)))
    BY <1>3 DEF ReplaceByFee
  <2>2. WithDescendants(Conflicting(t)) \in SUBSET Pending
    BY FamilyInside
  <2>3. Conflicting(t) \subseteq WithDescendants(Conflicting(t))
    BY ConflictingInside
  <2> QED
    BY <1>1, <2>1, <2>2, <2>3, InsertRight
<1> QED
  BY <1>2, <1>3 DEF AddTx

LEMMA EvictRight ==
  ASSUME PoolInv, EvictWorst
  PROVE  PoolInv'
<1>1. PICK worst \in Pending : /\ pool' = Without(EvictedWith(worst))
                               /\ poolBytes' = Unsize(EvictedWith(worst))
  BY DEF EvictWorst
<1>2. /\ sent' = {} /\ reorgs' = reorgs
      /\ UNCHANGED <<chainVars, stage, asmVars>>
  BY DEF EvictWorst, chainVars
<1>3. EvictedWith(worst) \in SUBSET Pending
  BY FamilyInside DEF EvictedWith
<1>4. /\ IsPool(pool') /\ poolBytes' \in Nat
      /\ BytesExact' /\ NoDoubleSpendPending'
  BY <1>1, <1>2, <1>3, TakenOut
<1>5. PoolTyped'
  BY <1>2, <1>4 DEF PoolInv, PoolTyped, chainVars
<1>6. AsmTyped'
  BY <1>2 DEF PoolInv, AsmTyped, asmVars
<1> QED
  BY <1>4, <1>5, <1>6 DEF PoolInv

\* What leaves chain and pool alone.
LEMMA PoolKept ==
  ASSUME PoolInv, UNCHANGED <<chainVars, poolVars>>,
         stage' \in {"idle", "evict", "assemble"}, sent' \subseteq Txs, AsmTyped'
  PROVE  PoolInv'
<1>1. UNCHANGED <<utxo, mined, owed, reorgs, pool, poolBytes>>
  BY DEF chainVars, poolVars
<1>2. Pending' = Pending
  BY <1>1 DEF Pending
<1>3. TotalSize(Pending)' = TotalSize(Pending)
  <2>1. TotalSize(Pending)' = SumOver(Size, Pending)
    BY <1>2, TotalSizeIs
  <2> QED
    BY <2>1, TotalSizeIs
<1>4. BytesExact'
  BY <1>1, <1>3 DEF PoolInv, BytesExact
<1>5. NoDoubleSpendPending'
  BY <1>1, <1>2 DEF PoolInv, NoDoubleSpendPending
<1>6. PoolTyped'
  BY <1>1 DEF PoolInv, PoolTyped
<1> QED
  BY <1>4, <1>5, <1>6 DEF PoolInv

-----------------------------------------------------------------------------
(* The steps of the assembly. *)

LEMMA TopTyped ==
  ASSUME AsmTyped, stack # <<>>
  PROVE  /\ Len(stack) \in Nat /\ Len(stack) >= 1
         /\ Top \in Calls /\ Top.tx \in Plain
         /\ Pop \in Seq(Calls) /\ Len(Pop) = Len(stack) - 1
         /\ \A i \in 1..Len(Pop) : Pop[i] = stack[i]
<1>1. stack \in Seq(Calls) /\ Len(stack) \in Nat
  BY LenProperties DEF AsmTyped
<1>2. Len(stack) # 0
  BY <1>1, EmptySeq
<1>3. Len(stack) >= 1 /\ Len(stack) \in 1..Len(stack)
  BY <1>1, <1>2
<1>4. Top \in Calls
  BY <1>1, <1>3, ElementOfSeq DEF Top
<1>5. Top.tx \in Plain
  BY <1>4 DEF Calls
<1> DEFINE S == Calls
<1>6. /\ SubSeq(stack, 1, Len(stack) - 1) \in Seq(S)
      /\ Len(SubSeq(stack, 1, Len(stack) - 1)) = Len(stack) - 1
      /\ \A i \in 1 .. Len(stack) - 1 :
           SubSeq(stack, 1, Len(stack) - 1)[i] = stack[i]
  <2>1. stack \in Seq(S)
    BY <1>1
  <2> HIDE DEF S
  <2> QED
    BY <1>3, <2>1, PrefixTyped
<1> QED
  BY <1>1, <1>3, <1>4, <1>5, <1>6 DEF Pop

\* One more call on the stack.
LEMMA Pushed ==
  ASSUME NEW s \in Seq(Calls), NEW c \in Calls
  PROVE  /\ Append(s, c) \in Seq(Calls)
         /\ Len(s) \in Nat /\ Len(Append(s, c)) = Len(s) + 1
         /\ \A i \in 1..Len(s) : Append(s, c)[i] = s[i]
         /\ Append(s, c)[Len(s) + 1] = c
<1> DEFINE S == Calls
<1>1. s \in Seq(S) /\ c \in S
  OBVIOUS
<1> HIDE DEF S
<1>2. /\ Append(s, c) \in Seq(S)
      /\ Len(s) \in Nat /\ Len(Append(s, c)) = Len(s) + 1
      /\ \A i \in 1..Len(s) : Append(s, c)[i] = s[i]
      /\ Append(s, c)[Len(s) + 1] = c
  BY <1>1, AppendProperties, LenProperties
<1> QED
  BY <1>2 DEF S

LEMMA TxInputs ==
  ASSUME NEW t \in Txs
  PROVE  Ins[t] \in SUBSET Outpoints
  BY TxAssumption

\* The call that goes on with one input less.
LEMMA WithoutInput ==
  ASSUME NEW c \in Calls, NEW p
  PROVE  /\ [c EXCEPT !.inputs = @ \ {p}] \in Calls
         /\ [c EXCEPT !.inputs = @ \ {p}].tx = c.tx
         /\ [c EXCEPT !.inputs = @ \ {p}].inputs = c.inputs \ {p}
  BY DEF Calls

LEMMA AssemblyTyped ==
  ASSUME PoolInv, StartAssembly \/ Assemble
  PROVE  /\ AsmTyped'
         /\ UNCHANGED <<chainVars, poolVars>>
         /\ stage' \in {"idle", "evict", "assemble"} /\ sent' = {}
<1>1. /\ PoolTyped /\ AsmTyped /\ stack \in Seq(Calls) /\ draft \in Seq(Plain)
      /\ template \in [status : {"none", "built", "failed"}, txs : Seq(Plain)]
      /\ Pending \subseteq Plain /\ Plain \subseteq Txs
      /\ stage \in {"idle", "evict", "assemble"}
  BY DEF PoolInv, PoolTyped, AsmTyped, IsPool, Pending, Plain
<1>2. <<>> \in Seq(Calls) /\ <<>> \in Seq(Plain)
  BY EmptySeq
<1>3. \A t \in Plain : [tx |-> t, inputs |-> Ins[t]] \in Calls
  BY <1>1, TxInputs DEF Calls
<1>4. CASE StartAssembly
  BY <1>1, <1>2, <1>4 DEF StartAssembly, NoTemplate, AsmTyped
<1>5. CASE PickBest
  <2>1. PICK t \in Pending : stack' = <<[tx |-> t, inputs |-> Ins[t]]>>
    BY <1>5 DEF PickBest
  <2>2. stack' \in Seq(Calls)
    BY <1>1, <1>3, <2>1
  <2> QED
    BY <1>1, <1>5, <2>2 DEF PickBest, AsmTyped
<1>6. CASE SkipInput
  <2>1. PICK p : stack' = Append(Pop, [Top EXCEPT !.inputs = @ \ {p}])
    BY <1>6 DEF SkipInput
  <2>2. Pop \in Seq(Calls) /\ Top \in Calls
    BY <1>1, <1>6, TopTyped DEF SkipInput
  <2>3. [Top EXCEPT !.inputs = @ \ {p}] \in Calls
    BY <2>2, WithoutInput
  <2>4. stack' \in Seq(Calls)
    BY <2>1, <2>2, <2>3, Pushed
  <2> QED
    BY <1>1, <1>6, <2>4 DEF SkipInput, AsmTyped
<1>7. CASE AddParentFirst
  <2>1. PICK p \in Top.inputs :
           /\ p \in OutsOfAll(Pending)
           /\ stack' = Append(Append(Pop, [Top EXCEPT !.inputs = @ \ {p}]),
                              [tx |-> p[1], inputs |-> Ins[p[1]]])
    BY <1>7 DEF AddParentFirst
  <2>2. Pop \in Seq(Calls) /\ Top \in Calls
    BY <1>1, <1>7, TopTyped DEF AddParentFirst
  <2>3. [Top EXCEPT !.inputs = @ \ {p}] \in Calls
    BY <2>2, WithoutInput
  <2>4. p[1] \in Plain
    BY <1>1, <2>1 DEF OutsOfAll, OutsOf
  <2>5. stack' \in Seq(Calls)
    BY <1>3, <2>1, <2>2, <2>3, <2>4, Pushed
  <2> QED
    BY <1>1, <1>7, <2>5 DEF AddParentFirst, AsmTyped
<1>8. CASE PlaceTx
  <2>1. Pop \in Seq(Calls) /\ Top.tx \in Plain
    BY <1>1, <1>8, TopTyped DEF PlaceTx
  <2>2. Append(draft, Top.tx) \in Seq(Plain)
    BY <1>1, <2>1, AppendProperties
  <2> QED
    BY <1>1, <1>8, <2>1, <2>2 DEF PlaceTx, AsmTyped
<1>9. CASE GiveUpAssembly
  BY <1>1, <1>2, <1>9 DEF GiveUpAssembly, AsmTyped
<1>10. CASE FinishAssembly
  BY <1>1, <1>2, <1>10 DEF FinishAssembly, AsmTyped
<1> QED
  BY <1>4, <1>5, <1>6, <1>7, <1>8, <1>9, <1>10 DEF Assemble

-----------------------------------------------------------------------------
(* The invariant. *)

LEMMA InitPool == Init => PoolInv
<1> SUFFICES ASSUME Init PROVE PoolInv
  OBVIOUS
<1>1. /\ utxo = Coins /\ mined = <<>> /\ owed = 0 /\ reorgs = 0
      /\ pool = <<>> /\ poolBytes = 0 /\ sent = {} /\ stage = "idle"
      /\ stack = <<>> /\ draft = <<>> /\ template = NoTemplate
  BY DEF Init
<1>2. IsMap(utxo)
  BY <1>1, PoolAssumption DEF IsMap, Facts, Made
<1>3. Pending = {}
  BY <1>1 DEF Pending
<1>4. IsPool(pool)
  <2>1. IsFiniteSet({})
    BY FS_EmptySet
  <2>2. pool \in [{} -> Nat]
    BY <1>1
  <2> QED
    BY <1>3, <2>1, <2>2 DEF IsPool, Pending
<1>5. IsChain(mined)
  BY <1>1, EmptySeq DEF IsChain
<1>6. BytesExact
  <2>1. TotalSize(Pending) = 0
    BY <1>3, TotalSizeIs, SumOfNothing
  <2> QED
    BY <1>1, <2>1 DEF BytesExact
<1>7. NoDoubleSpendPending
  BY <1>3 DEF NoDoubleSpendPending
<1>8. AsmTyped
  BY <1>1, EmptySeq DEF AsmTyped, NoTemplate
<1>9. PoolTyped
  BY <1>1, <1>2, <1>4, <1>5 DEF PoolTyped
<1> QED
  BY <1>6, <1>7, <1>8, <1>9 DEF PoolInv

\* The transactions of the miner's own block and of a peer's.
LEMMA BlocksTyped ==
  ASSUME AsmTyped
  PROVE  Bodies \subseteq Seq(Plain) /\ template.txs \in Seq(Plain)
  BY PoolAssumption DEF AsmTyped, Plain

LEMMA NextPool ==
  ASSUME PoolInv, [Next]_vars
  PROVE  PoolInv'
<1>1. CASE \E t \in Txs \ Coinbases : AddTx(t)
  BY <1>1, AddRight DEF Plain
<1>2. CASE EvictWorst
  BY <1>2, EvictRight
<1>3. CASE EvictionDone
  <2>1. AsmTyped'
    BY <1>3 DEF EvictionDone, PoolInv, AsmTyped, asmVars
  <2> QED
    BY <1>3, <2>1, PoolKept DEF EvictionDone
<1>4. CASE StartAssembly \/ Assemble
  BY <1>4, AssemblyTyped, PoolKept
<1>5. CASE (\E txs \in Bodies : PeerBlock(txs)) \/ MinedBlock
  BY <1>5, BlocksTyped, ConnectRight DEF PeerBlock, MinedBlock, PoolInv
<1>6. CASE DisconnectTip
  BY <1>6, DisconnectRight
<1>7. CASE UNCHANGED vars
  <2>1. AsmTyped'
    BY <1>7 DEF vars, PoolInv, AsmTyped, asmVars
  <2> QED
    BY <1>7, <2>1, PoolKept DEF vars, PoolInv, PoolTyped
<1> QED
  BY <1>1, <1>2, <1>3, <1>4, <1>5, <1>6, <1>7 DEF Next, Evict

THEOREM Invariance == Spec => []PoolInv
<1>1. Init => PoolInv
  BY InitPool
<1>2. PoolInv /\ [Next]_vars => PoolInv'
  BY NextPool
<1> QED
  BY <1>1, <1>2, PTL DEF Spec

(***************************************************************************)
(* Every variable keeps its type.                                          *)
(***************************************************************************)
THEOREM TypeCorrect == Spec => []TypeOK
<1>1. ASSUME PoolInv PROVE TypeOK
  <2>1. /\ PoolTyped /\ AsmTyped
        /\ Plain \subseteq Txs /\ Made \subseteq Outpoints
    <3>1. \A t \in Txs : OutsOf(t) \subseteq Outpoints
      <4>1. ASSUME NEW t \in Txs PROVE OutsOf(t) \subseteq Outpoints
        <5>1. Outs[t] \in Seq(Nat)
          BY TxAssumption
        <5>2. DOMAIN Outs[t] \subseteq Nat \ {0}
          BY <5>1, LenProperties
        <5> QED
          BY <5>2 DEF OutsOf, Outpoints
      <4> QED
        BY <4>1
    <3> QED
      BY <1>1, <3>1 DEF PoolInv, Plain, Made, OutsOfAll
  <2>2. \A s \in Seq(Plain) : s \in Seq(Txs)
    <3>1. ASSUME NEW s \in Seq(Plain) PROVE s \in Seq(Txs)
      <4>1. Len(s) \in Nat /\ s \in [1..Len(s) -> Plain]
        BY LenProperties
      <4>2. s \in [1..Len(s) -> Txs]
        BY <2>1, <4>1
      <4> QED
        BY <4>1, <4>2
    <3> QED
      BY <3>1
  <2>3. mined \in Seq(Seq(Txs))
    <3>1. mined \in Seq(Seq(Plain))
      BY <2>1 DEF PoolTyped, IsChain
    <3> DEFINE B == Seq(Plain)
               C == Seq(Txs)
    <3>2. mined \in Seq(B) /\ \A s \in B : s \in C
      BY <2>2, <3>1
    <3>3. mined \in Seq(C)
      <4> HIDE DEF B, C
      <4>1. Len(mined) \in Nat /\ mined \in [1..Len(mined) -> B]
        BY <3>2, LenProperties
      <4>2. mined \in [1..Len(mined) -> C]
        BY <3>2, <4>1
      <4> QED
        BY <4>1, <4>2
    <3> QED
      BY <3>3
  <2>4. stack \in Seq([tx : Txs, inputs : SUBSET Outpoints])
    <3> DEFINE B == Calls
               C == [tx : Txs, inputs : SUBSET Outpoints]
    <3>1. stack \in Seq(B) /\ \A s \in B : s \in C
      BY <2>1 DEF AsmTyped, Calls
    <3>2. stack \in Seq(C)
      <4> HIDE DEF B, C
      <4>1. Len(stack) \in Nat /\ stack \in [1..Len(stack) -> B]
        BY <3>1, LenProperties
      <4>2. stack \in [1..Len(stack) -> C]
        BY <3>1, <4>1
      <4> QED
        BY <4>1, <4>2
    <3> QED
      BY <3>2
  <2>5. draft \in Seq(Txs)
    BY <2>1, <2>2 DEF AsmTyped
  <2>6. template \in [status : {"none", "built", "failed"}, txs : Seq(Txs)]
    BY <2>1, <2>2 DEF AsmTyped
  <2>7. /\ DOMAIN utxo \subseteq Outpoints
        /\ \A p \in DOMAIN utxo : utxo[p] \in [coinbase : BOOLEAN, height : Nat]
    BY <2>1 DEF PoolTyped, IsMap, Facts
  <2>8. Pending \subseteq Txs \ Coinbases /\ \A t \in Pending : pool[t] \in Nat
    BY <2>1 DEF PoolTyped, IsPool, Pending, Plain
  <2> QED
    BY <2>1, <2>3, <2>4, <2>5, <2>6, <2>7, <2>8 DEF TypeOK, PoolTyped
<1> QED
  BY <1>1, Invariance, PTL

(***************************************************************************)
(* However transactions are added, replaced, evicted, mined and put back,  *)
(* the size kept beside the pool is never less than that of the entries,   *)
(* and it is their size until a reorganisation (chain.cpp:428).            *)
(***************************************************************************)
THEOREM PoolWeighed == Spec => []BytesExact
<1>1. PoolInv => BytesExact
  BY DEF PoolInv
<1> QED
  BY <1>1, Invariance, PTL

(***************************************************************************)
(* Until a reorganisation no two pending transactions spend the same       *)
(* output (mempool.cpp:136).                                               *)
(***************************************************************************)
THEOREM NoConflictsPending == Spec => []NoDoubleSpendPending
<1>1. PoolInv => NoDoubleSpendPending
  BY DEF PoolInv
<1> QED
  BY <1>1, Invariance, PTL

-----------------------------------------------------------------------------
(* What a step may never do. *)

\* Each replaced transaction with its descendants is paid for.
LEMMA ReplacedCovers ==
  ASSUME PoolInv, NEW t \in Plain
  PROVE  /\ TotalFee(WithDescendants(Conflicting(t))) \in Nat
         /\ ReplacedFees(t) \in Nat
         /\ TotalFee(WithDescendants(Conflicting(t))) <= ReplacedFees(t)
<1> DEFINE C == Conflicting(t)
           part == [c \in C |-> {c} \cup Descendants(c)]
           total == [c \in C |-> TotalFee({c} \cup Descendants(c))]
           gone == WithDescendants(C)
           all == UNION {part[c] : c \in C}
           Fold(g) == g = [s \in SUBSET C |->
                             IF s = {} THEN 0
                             ELSE TotalFee({First(s)} \cup Descendants(First(s)))
                                    + g[Others(s)]]
           h == CHOOSE g : Fold(g)
<1>1. /\ IsFiniteSet(Pending) /\ \A u \in Pending : pool[u] \in Nat
      /\ C \in SUBSET Pending
  BY ConflictingInside DEF PoolInv, PoolTyped, IsPool, Pending
<1>2. IsFiniteSet(C)
  BY <1>1, FS_Subset
<1>3. \A c \in C : /\ {c} \cup Descendants(c) \in SUBSET Pending
                   /\ WithDescendants({c}) \subseteq {c} \cup Descendants(c)
  BY <1>1, FamilyInside DEF Descendants
<1>4. part \in [C -> SUBSET Pending]
  BY <1>3
<1>5. \A c \in C : total[c] = SumOver(pool, part[c])
  BY TotalFeeIs
<1>6. ReplacedFees(t) = SumOver(total, C)
  <2>1. ReplacedFees(t) = h[C]
    BY DEF ReplacedFees, MapThenSumSet, MapThenFoldSet, First, Others
  <2>2. PICK g : Folds(total, C, g)
    BY <1>2, FoldsExist
  <2>3. \A s \in SUBSET C : s # {} =>
          total[First(s)] = TotalFee({First(s)} \cup Descendants(First(s)))
    BY FirstInside
  <2> HIDE DEF C, total
  <2>4. Fold(g)
    BY <2>2, <2>3 DEF Folds
  <2>5. Fold(h)
    BY <2>4
  <2>6. Folds(total, C, h)
    BY <2>3, <2>5 DEF Folds
  <2> DEFINE k == CHOOSE x : Folds(total, C, x)
  <2>7. Folds(total, C, k)
    BY <2>6
  <2>8. SumOver(total, C) = k[C]
    BY SumIsFold
  <2> HIDE DEF k, h
  <2> QED
    BY <1>2, <2>1, <2>6, <2>7, <2>8, FoldsAgree
<1>7. gone \in SUBSET Pending /\ \A u \in gone : \E c \in C : u \in part[c]
  <2>1. gone \subseteq UNION {WithDescendants({c}) : c \in C}
    BY <1>1, FamilySplits
  <2>2. \A c \in C : part[c] = {c} \cup Descendants(c)
    OBVIOUS
  <2>3. \A c \in C : WithDescendants({c}) \subseteq part[c]
    BY <1>3, <2>2
  <2> HIDE DEF part, C
  <2>4. \A u \in gone : \E c \in C : u \in part[c]
    BY <2>1, <2>3
  <2> QED
    BY <2>4, FamilyInside
<1> HIDE DEF C, part, total, gone
<1>8. /\ SumOver(total, C) \in Nat
      /\ SumOver(pool, gone) \in Nat
      /\ SumOver(pool, gone) <= SumOver(total, C)
  <2> DEFINE f == pool
             S == Pending
  <2>1. IsFiniteSet(S) /\ \A u \in S : f[u] \in Nat
    BY <1>1
  <2>2. /\ part \in [C -> SUBSET S]
        /\ \A c \in C : total[c] = SumOver(f, part[c])
        /\ gone \in SUBSET S
    BY <1>4, <1>5, <1>7
  <2> HIDE DEF f, S
  <2>3. /\ SumOver(total, C) \in Nat
        /\ SumOver(f, gone) \in Nat
        /\ SumOver(f, gone) <= SumOver(total, C)
    BY <1>2, <1>7, <2>1, <2>2, SumCovered
  <2> QED
    BY <2>3 DEF f
<1> QED
  BY <1>6, <1>8, TotalFeeIs DEF gone, C

LEMMA ReplacePays ==
  ASSUME PoolInv, NEW t \in Plain, ReplaceByFee(t)
  PROVE  TotalFee(Pending) < MapThenSumSet(LAMBDA u : pool'[u], Pending')
<1> DEFINE gone == WithDescendants(Conflicting(t))
           kept == Pending \ gone
           fee == Fees(t, utxo, Pending)
           after == pool'
<1>1. /\ IsFiniteSet(Pending) /\ \A u \in Pending : pool[u] \in Nat
      /\ DOMAIN utxo \subseteq Made /\ Pending \subseteq Txs
      /\ t \notin Pending /\ t \in Txs
  BY DEF PoolInv, PoolTyped, IsPool, Pending, IsMap, Plain, ReplaceByFee, Acceptable
<1>2. gone \in SUBSET Pending
  BY FamilyInside
<1>3. after = [u \in kept \cup {t} |-> IF u = t THEN fee ELSE pool[u]]
  BY DEF ReplaceByFee, Insert
<1>4. Pending' = kept \cup {t}
  BY <1>3 DEF Pending
<1>5. fee \in Nat
  BY <1>1, FeesTyped
<1>6. fee > ReplacedFees(t)
  BY DEF ReplaceByFee
<1>7. /\ SumOver(pool, gone) \in Nat /\ ReplacedFees(t) \in Nat
      /\ SumOver(pool, gone) <= ReplacedFees(t)
  BY ReplacedCovers, TotalFeeIs
<1>8. /\ SumOver(pool, Pending) = SumOver(pool, gone) + SumOver(pool, kept)
      /\ SumOver(pool, kept) \in Nat
  <2>1. IsFiniteSet(Pending) /\ \A u \in Pending : pool[u] \in Nat
    BY <1>1
  <2> DEFINE f == pool
             S == Pending
             T == gone
  <2>2. IsFiniteSet(S) /\ (\A u \in S : f[u] \in Nat) /\ T \in SUBSET S
    BY <1>2, <2>1
  <2> HIDE DEF f, S, T
  <2>3. /\ SumOver(f, S) = SumOver(f, T) + SumOver(f, S \ T)
        /\ SumOver(f, S \ T) \in Nat
    BY <2>2, SumSplit, SMTT(40)
  <2> USE DEF f, S, T
  <2> QED
    BY <2>3
<1>9. IsFiniteSet(kept)
  BY <1>1, FS_Subset
<1>10. t \notin kept /\ after[t] = fee /\ \A u \in kept : after[u] = pool[u]
  <2> HIDE DEF fee, after
  <2> QED
    BY <1>1, <1>3
<1>11. \A u \in kept \cup {t} : after[u] \in Nat
  BY <1>1, <1>5, <1>10
<1> HIDE DEF kept, after, fee, gone
<1>12. SumOver(after, kept \cup {t}) = fee + SumOver(after, kept)
  BY <1>9, <1>10, <1>11, SumAdd
<1>13. SumOver(after, kept) = SumOver(pool, kept)
  BY <1>9, <1>10, SumSame
<1>14. SumOver(pool, Pending) < SumOver(after, kept \cup {t})
  BY <1>5, <1>6, <1>7, <1>8, <1>12, <1>13
<1>15. MapThenSumSet(LAMBDA u : pool'[u], Pending') = SumOver(after, kept \cup {t})
  BY <1>4 DEF SumOver, after
<1> QED
  BY <1>14, <1>15, TotalFeeIs

(***************************************************************************)
(* A transaction that pushes others out pays more than all of them did     *)
(* (mempool.cpp:193).                                                      *)
(***************************************************************************)
THEOREM ReplacementsPay == Spec => ReplacementPays
<1>1. ASSUME PoolInv, [Next]_vars, sent' # {}, ~ Pending \subseteq Pending'
      PROVE  \/ \E t \in Plain : ReplaceByFee(t)
             \/ UNCHANGED vars
  <2>1. CASE \E t \in Txs \ Coinbases : AddTx(t)
    <3>1. PICK t \in Txs \ Coinbases : AddTx(t)
      BY <2>1
    <3>2. ~ AddFresh(t)
      BY <1>1 DEF AddFresh, Insert, Pending
    <3> QED
      BY <3>1, <3>2 DEF AddTx, Plain
  <2>2. CASE Evict
    BY <1>1, <2>2 DEF Evict, EvictWorst, EvictionDone
  <2>3. CASE StartAssembly \/ Assemble
    BY <1>1, <2>3, AssemblyTyped
  <2>4. CASE (\E txs \in Bodies : PeerBlock(txs)) \/ MinedBlock
    BY <1>1, <2>4 DEF PeerBlock, MinedBlock, Connect
  <2>5. CASE DisconnectTip
    BY <1>1, <2>5 DEF DisconnectTip
  <2> QED
    BY <1>1, <2>1, <2>2, <2>3, <2>4, <2>5 DEF Next
<1>2. PoolInv /\ [Next]_vars
        => [sent' # {} /\ ~ Pending \subseteq Pending'
              => TotalFee(Pending)
                   < MapThenSumSet(LAMBDA t : pool'[t], Pending')]_vars
  BY <1>1, ReplacePays
<1> QED
  BY <1>2, Invariance, PTL DEF Spec, ReplacementPays

\* What can be mined and is not of the family that goes can still be mined.
LEMMA StaysSpendable ==
  ASSUME NEW ts, Pending \ WithDescendants(ts) \subseteq Pending', utxo' = utxo,
         NEW u \in Spendable, u \in Pending', u \notin WithDescendants(ts)
  PROVE  u \in Spendable'
<1>1. u \in Pending /\ Ins[u] \subseteq DOMAIN utxo \cup OutsOfAll(Pending)
  BY DEF Spendable
<1>2. ASSUME NEW p \in Ins[u], p \in OutsOfAll(Pending)
      PROVE  p \in OutsOfAll(Pending')
  <2>1. PICK v \in Pending : p \in OutsOf(v)
    BY <1>2 DEF OutsOfAll
  <2>2. v \in ParentsOf(u)
    BY <2>1 DEF OutsOf, ParentsOf
  <2>3. v \notin WithDescendants(ts)
    BY <1>1, <2>2, FamilyClosed
  <2> QED
    BY <2>1, <2>3 DEF OutsOfAll
<1>3. Ins[u] \subseteq DOMAIN utxo \cup OutsOfAll(Pending')
  BY <1>1, <1>2
<1> QED
  BY <1>3 DEF Spendable

\* What comes in can be mined, unless it spends what it pushes out.
LEMMA ComesSpendable ==
  ASSUME PoolInv, NEW t \in Plain, AddTx(t), ~ReplacesParent(t)
  PROVE  t \in Spendable'
<1>1. Ins[t] \subseteq DOMAIN utxo \cup OutsOfAll(Pending)
  BY DEF AddTx, AddFresh, ReplaceByFee, Acceptable, ValidTx
<1>2. PICK gone : Insert(t, gone) /\ ParentsOf(t) \cap gone = {}
  BY DEF AddTx, AddFresh, ReplaceByFee, ReplacesParent
<1>3. Pending' = (Pending \ gone) \cup {t} /\ utxo' = utxo
  BY <1>2 DEF Insert, Pending, chainVars
<1>4. ASSUME NEW p \in Ins[t], p \in OutsOfAll(Pending)
      PROVE  p \in OutsOfAll(Pending')
  <2>1. PICK v \in Pending : p \in OutsOf(v)
    BY <1>4 DEF OutsOfAll
  <2>2. v \in ParentsOf(t)
    BY <2>1 DEF OutsOf, ParentsOf
  <2> QED
    BY <1>2, <1>3, <2>1, <2>2 DEF OutsOfAll
<1>5. Ins[t] \subseteq DOMAIN utxo' \cup OutsOfAll(Pending')
  BY <1>1, <1>3, <1>4
<1> QED
  BY <1>3, <1>5 DEF Spendable

\* What was left behind before, or comes in and spends what it pushes out.
MayLack(t) ==
  t \in Pending \ Spendable \/ (t \notin Pending /\ ReplacesParent(t))

\* A step on the pool alone leaves none behind but those.
LEMMA NoneLeft ==
  ASSUME PoolInv, Evict \/ (\E t \in Plain : AddTx(t)), NEW u \in Pending'
  PROVE  u \in Spendable' \/ MayLack(u)
<1>1. UNCHANGED utxo
  BY DEF Evict, EvictWorst, EvictionDone, AddTx, AddFresh, ReplaceByFee, Insert,
         chainVars
<1>2. CASE \E t \in Plain : AddTx(t)
  <2>1. PICK t \in Plain : AddTx(t)
    BY <1>2
  <2>2. t \notin Pending
    BY <2>1 DEF AddTx, AddFresh, ReplaceByFee, Acceptable
  <2>3. CASE u = t
    BY <2>1, <2>2, <2>3, ComesSpendable DEF MayLack
  <2>4. CASE u # t
    <3>1. PICK ts : Pending' = (Pending \ WithDescendants(ts)) \cup {t}
      <4>1. WithDescendants({}) = {}
        BY DEF WithDescendants
      <4>2. Pending' = (Pending \ {}) \cup {t}
              \/ \E ts : Pending' = (Pending \ WithDescendants(ts)) \cup {t}
        BY <2>1 DEF AddTx, AddFresh, ReplaceByFee, Insert, Pending
      <4> QED
        BY <4>1, <4>2
    <3> QED
      BY <1>1, <2>4, <3>1, StaysSpendable DEF MayLack
  <2> QED
    BY <2>3, <2>4
<1>3. CASE EvictWorst
  <2>1. PICK worst : pool' = Without(EvictedWith(worst))
    BY <1>3 DEF EvictWorst
  <2>2. Pending' = Pending \ WithDescendants({worst})
    BY <2>1 DEF Pending, Without, EvictedWith
  <2> QED
    BY <1>1, <2>2, StaysSpendable DEF MayLack
<1>4. CASE EvictionDone
  BY <1>1, <1>4 DEF EvictionDone, poolVars, Pending, Spendable, MayLack
<1> QED
  BY <1>2, <1>3, <1>4 DEF Evict

(***************************************************************************)
(* Whatever is added, replaced or evicted, what could be mined and stays   *)
(* can still be mined, and what comes in can be mined as well              *)
(* (mempool.cpp:217, 529), unless it is a replacement that spends an       *)
(* output of what it pushes out.                                           *)
(***************************************************************************)
THEOREM ChildrenGoAlong == Spec => NoChildLeftBehind
<1>1. ASSUME PoolInv, [Next]_vars, mined' = mined, NEW u \in Pending' \ Spendable'
      PROVE  MayLack(u)
  <2>1. CASE Evict \/ \E t \in Txs \ Coinbases : AddTx(t)
    BY <1>1, <2>1, NoneLeft DEF Plain
  <2>2. ASSUME Pending' = Pending, utxo' = utxo
        PROVE  MayLack(u)
    BY <1>1, <2>2 DEF Spendable, MayLack
  <2>3. CASE StartAssembly \/ Assemble
    BY <1>1, <2>2, <2>3, AssemblyTyped DEF poolVars, chainVars, Pending
  <2>4. CASE UNCHANGED vars
    BY <2>2, <2>4 DEF vars, poolVars, chainVars, Pending
  <2>5. CASE (\E txs \in Bodies : PeerBlock(txs)) \/ MinedBlock
    <3>1. PICK txs \in Seq(Plain) : mined' = Append(mined, txs)
      BY <1>1, <2>5, BlocksTyped DEF PeerBlock, MinedBlock, Connect, PoolInv
    <3>2. mined \in Seq(Seq(Plain)) /\ Len(mined) \in Nat
      BY <1>1, LenProperties DEF PoolInv, PoolTyped, IsChain
    <3>3. Len(mined') = Len(mined) + 1
      BY <3>1, <3>2, AppendProperties
    <3> QED
      BY <1>1, <3>2, <3>3
  <2>6. CASE DisconnectTip
    <3>1. mined' = SubSeq(mined, 1, Len(mined) - 1) /\ mined # <<>>
      BY <2>6 DEF DisconnectTip
    <3>2. mined \in Seq(Seq(Plain)) /\ Len(mined) \in Nat
      BY <1>1, LenProperties DEF PoolInv, PoolTyped, IsChain
    <3>3. Len(mined) # 0
      BY <3>1, <3>2, EmptySeq
    <3>4. Len(mined') = Len(mined) - 1
      BY <3>1, <3>2, <3>3, PrefixTyped
    <3> QED
      BY <1>1, <3>2, <3>4
  <2> QED
    BY <1>1, <2>1, <2>3, <2>4, <2>5, <2>6 DEF Next
<1>2. PoolInv /\ [Next]_vars
        => [mined' = mined =>
              \A t \in Pending' \ Spendable' :
                \/ t \in Pending \ Spendable
                \/ t \notin Pending /\ ReplacesParent(t)]_vars
  BY <1>1 DEF MayLack
<1> QED
  BY <1>2, Invariance, PTL DEF Spec, NoChildLeftBehind

-----------------------------------------------------------------------------
(* The assembly of a block. *)

\* A pending transaction that will not get into this block any more.
Lost(u) == u \in Pending \ Added /\ ~ Fits(u)

\* What has been placed: once each, below the limit, after what it spends
\* unless that is lost.
DraftRight ==
  /\ Added \subseteq Pending
  /\ \A i, j \in 1..Len(draft) : i # j => draft[i] # draft[j]
  /\ EmptyBlock + TotalSize(Added) < MaxBlock
  /\ \A i \in 1..Len(draft) : \A p \in Ins[draft[i]] :
       \/ p \in DOMAIN utxo
       \/ \E j \in 1..(i - 1) : p \in OutsOf(draft[j])
       \/ Lost(p[1])

\* What the k-th call has seen to is there, lost, or the next call's business.
InputsSeenTo(k) ==
  \A p \in Ins[stack[k].tx] \ stack[k].inputs :
    \/ MadeAhead(p)
    \/ Lost(p[1])
    \/ k < Len(stack) /\ p \in OutsOf(stack[k + 1].tx)

\* Each call is for a parent of the one below it.
StackRight ==
  /\ \A k \in 1..Len(stack) :
       /\ stack[k].tx \in Pending \ Added
       /\ stack[k].inputs \subseteq Ins[stack[k].tx]
       /\ InputsSeenTo(k)
  /\ \A k \in 1..Len(stack) :
       k < Len(stack) => stack[k + 1].tx \in ParentsOf(stack[k].tx)

AsmInv ==
  /\ stage = "assemble" => DraftRight /\ StackRight
  /\ TemplateConnects

\* No call on the stack is for a transaction that a call below it is for.
LEMMA CallsDiffer ==
  ASSUME PoolInv, StackRight, NEW i \in 1..Len(stack), NEW j \in 1..Len(stack),
         i < j
  PROVE  stack[i].tx # stack[j].tx
<1> DEFINE S == {stack[k].tx : k \in i..(j - 1)}
<1>1. Len(stack) \in Nat /\ i \in Nat /\ j \in Nat /\ Pending \subseteq Txs
  BY LenProperties DEF PoolInv, PoolTyped, AsmTyped, IsPool, Pending, Plain
<1>2. \A k \in i..(j - 1) : /\ k \in 1..Len(stack) /\ k < Len(stack)
                            /\ stack[k].tx \in Pending
                            /\ stack[k + 1].tx \in ParentsOf(stack[k].tx)
  <2>1. \A k \in i..(j - 1) : k \in 1..Len(stack) /\ k < Len(stack)
    BY <1>1
  <2> QED
    BY <2>1 DEF StackRight
<1>3. SUFFICES ASSUME stack[i].tx = stack[j].tx PROVE FALSE
  OBVIOUS
<1>4. S \in SUBSET Txs
  BY <1>1, <1>2
<1>5. stack[i].tx \in S
  <2>1. i \in i..(j - 1)
    BY <1>1
  <2> QED
    BY <2>1
<1>6. PICK t \in S : \A p \in Ins[t] : p[1] \notin S
  <2> HIDE DEF S
  <2> QED
    BY <1>4, <1>5, PoolAssumption
<1>7. PICK k \in i..(j - 1) : t = stack[k].tx
  OBVIOUS
<1>8. stack[k + 1].tx \in ParentsOf(t)
  BY <1>2, <1>7
<1>9. stack[k + 1].tx \notin S
  BY <1>6, <1>8 DEF ParentsOf
<1>10. CASE k = j - 1
  <2>1. k + 1 = j
    BY <1>1, <1>10
  <2> QED
    BY <1>3, <1>5, <1>9, <2>1
<1>11. CASE k # j - 1
  <2>1. k + 1 \in i..(j - 1)
    BY <1>1, <1>11
  <2> QED
    BY <1>9, <2>1
<1> QED
  BY <1>10, <1>11

\* Steps of the assembly that place nothing.
LEMMA SameDraft ==
  ASSUME DraftRight, UNCHANGED <<chainVars, poolVars, draft>>
  PROVE  /\ DraftRight' /\ Added' = Added /\ Pending' = Pending
         /\ \A u : Lost(u)' <=> Lost(u)
         /\ \A p : MadeAhead(p)' <=> MadeAhead(p)
<1>1. /\ utxo' = utxo /\ draft' = draft /\ pool' = pool
  BY DEF chainVars, poolVars
<1>2. Added' = Added /\ Pending' = Pending
  BY <1>1 DEF Added, Pending
<1>3. TotalSize(Added)' = TotalSize(Added)
  <2>1. TotalSize(Added)' = SumOver(Size, Added)
    BY <1>2, TotalSizeIs
  <2> QED
    BY <2>1, TotalSizeIs
<1>4. \A u : Fits(u)' <=> Fits(u)
  BY <1>3 DEF Fits
<1>5. \A u : Lost(u)' <=> Lost(u)
  BY <1>2, <1>4 DEF Lost
<1>6. \A p : MadeAhead(p)' <=> MadeAhead(p)
  BY <1>1, <1>2 DEF MadeAhead, OutsOfAll
<1>7. DraftRight'
  BY <1>1, <1>2, <1>3, <1>5 DEF DraftRight
<1> QED
  BY <1>2, <1>5, <1>6, <1>7

LEMMA StartRight ==
  ASSUME PoolInv, StartAssembly
  PROVE  DraftRight' /\ StackRight'
<1>1. draft' = <<>> /\ stack' = <<>> /\ Len(<<>>) = 0 /\ 1..0 = {}
  BY DEF StartAssembly
<1>2. Added' = {}
  BY <1>1 DEF Added, Elements
<1>3. TotalSize(Added)' = 0
  BY <1>2, TotalSizeIs, SumOfNothing
<1>4. EmptyBlock + 0 < MaxBlock
  BY PoolAssumption
<1>5. DraftRight'
  BY <1>1, <1>2, <1>3, <1>4 DEF DraftRight
<1> QED
  BY <1>1, <1>5 DEF StackRight

LEMMA PickRight ==
  ASSUME PoolInv, DraftRight, PickBest
  PROVE  DraftRight' /\ StackRight'
<1>1. PICK t \in Pending \ Added : stack' = <<[tx |-> t, inputs |-> Ins[t]]>>
  BY DEF PickBest
<1>2. /\ DraftRight' /\ Added' = Added /\ Pending' = Pending
  BY SameDraft DEF PickBest
<1>3. /\ Len(stack') = 1 /\ stack'[1].tx = t /\ stack'[1].inputs = Ins[t]
  BY <1>1
<1>4. \A k \in 1..Len(stack') : k = 1
  BY <1>3
<1>5. \A k \in 1..Len(stack') : InputsSeenTo(k)'
  BY <1>3, <1>4 DEF InputsSeenTo
<1>6. \A k \in 1..Len(stack') : ~ (k < Len(stack'))
  BY <1>3
<1> QED
  BY <1>1, <1>2, <1>3, <1>4, <1>5, <1>6 DEF StackRight

\* The top call goes on with an input less, perhaps under one for a parent.
LEMMA TopGoesOn ==
  ASSUME PoolInv, DraftRight, StackRight, stack # <<>>, NEW p \in Top.inputs,
         UNCHANGED <<chainVars, poolVars, draft>>,
         NEW s, s = Append(Pop, [Top EXCEPT !.inputs = @ \ {p}]),
         \/ stack' = s /\ MadeAhead(p)
         \/ \E t \in Pending \ Added :
              /\ p \in OutsOf(t)
              /\ stack' = Append(s, [tx |-> t, inputs |-> Ins[t]])
  PROVE  StackRight'
<1> DEFINE n == Len(stack)
           c == [Top EXCEPT !.inputs = @ \ {p}]
<1>1. /\ n \in Nat /\ n >= 1 /\ Top \in Calls
      /\ Pop \in Seq(Calls) /\ Len(Pop) = n - 1
      /\ \A i \in 1..(n - 1) : Pop[i] = stack[i]
  BY TopTyped DEF PoolInv
<1>2. c \in Calls /\ c.tx = Top.tx /\ c.inputs = Top.inputs \ {p}
  BY <1>1, WithoutInput
<1>3. /\ s \in Seq(Calls) /\ Len(s) = n
      /\ \A i \in 1..(n - 1) : s[i] = stack[i]
      /\ s[n] = c
  <2> HIDE DEF c
  <2>1. /\ s \in Seq(Calls) /\ Len(s) = Len(Pop) + 1
        /\ \A i \in 1..Len(Pop) : s[i] = Pop[i]
        /\ s[Len(Pop) + 1] = c
    BY <1>1, <1>2, Pushed DEF c
  <2>2. Len(Pop) + 1 = n
    BY <1>1
  <2> QED
    BY <1>1, <2>1, <2>2
<1>4. \A k \in 1..n : k # n => k \in 1..(n - 1) /\ k < n
  BY <1>1
<1>5. Top = stack[n] /\ n \in 1..n
  BY <1>1 DEF Top
<1>6. \A k \in 1..n : /\ s[k].tx = stack[k].tx
                      /\ s[k].inputs \subseteq stack[k].inputs
                      /\ k # n => s[k].inputs = stack[k].inputs
  BY <1>2, <1>3, <1>4, <1>5
<1>7. /\ Added' = Added /\ Pending' = Pending
      /\ \A u : Lost(u)' <=> Lost(u)
      /\ \A q : MadeAhead(q)' <=> MadeAhead(q)
  BY SameDraft
<1>8. /\ \A k \in 1..n : /\ s[k].tx \in Pending \ Added
                         /\ s[k].inputs \subseteq Ins[s[k].tx]
      /\ \A k \in 1..n : k < n => s[k + 1].tx \in ParentsOf(s[k].tx)
  <2>1. \A k \in 1..n : k < n => k + 1 \in 1..n
    BY <1>1
  <2> QED
    BY <1>6, <2>1 DEF StackRight
<1>9. \A k \in 1..n : \A q \in Ins[s[k].tx] \ s[k].inputs :
        \/ MadeAhead(q)
        \/ Lost(q[1])
        \/ k < n /\ q \in OutsOf(s[k + 1].tx)
        \/ k = n /\ q = p
  <2> SUFFICES ASSUME NEW k \in 1..n, NEW q \in Ins[s[k].tx] \ s[k].inputs,
                      ~ (k = n /\ q = p)
               PROVE  \/ MadeAhead(q)
                      \/ Lost(q[1])
                      \/ k < n /\ q \in OutsOf(s[k + 1].tx)
    OBVIOUS
  <2>1. q \in Ins[stack[k].tx] \ stack[k].inputs
    BY <1>2, <1>3, <1>5, <1>6
  <2>2. \/ MadeAhead(q)
        \/ Lost(q[1])
        \/ k < n /\ q \in OutsOf(stack[k + 1].tx)
    BY <2>1 DEF StackRight, InputsSeenTo
  <2>3. k < n => k + 1 \in 1..n
    BY <1>1
  <2> QED
    BY <1>6, <2>2, <2>3
<1> HIDE DEF n, c
<1>10. CASE stack' = s /\ MadeAhead(p)
  <2>1. ASSUME NEW k \in 1..n PROVE InputsSeenTo(k)'
    <3>1. \A q \in Ins[s[k].tx] \ s[k].inputs :
            \/ MadeAhead(q)
            \/ Lost(q[1])
            \/ k < n /\ q \in OutsOf(s[k + 1].tx)
      BY <1>9, <1>10
    <3>2. stack' = s /\ Len(stack') = n
      BY <1>3, <1>10
    <3> QED
      BY <1>7, <3>1, <3>2 DEF InputsSeenTo
  <2> QED
    BY <1>3, <1>7, <1>8, <1>10, <2>1 DEF StackRight
<1>11. ASSUME NEW t \in Pending \ Added, p \in OutsOf(t),
              stack' = Append(s, [tx |-> t, inputs |-> Ins[t]])
       PROVE  StackRight'
  <2> DEFINE d == [tx |-> t, inputs |-> Ins[t]]
  <2>1. d \in Calls /\ d.tx = t /\ d.inputs = Ins[t]
    BY TxInputs DEF Calls, PoolInv, PoolTyped, IsPool, Pending, Plain
  <2>2. /\ Len(stack') = n + 1
        /\ \A i \in 1..n : stack'[i] = s[i]
        /\ stack'[n + 1] = d
    <3> HIDE DEF d
    <3> QED
      BY <1>3, <1>11, <2>1, Pushed DEF d
  <2> HIDE DEF d
  <2>3. \A k \in 1..(n + 1) : (k \in 1..n /\ k < n + 1) \/ k = n + 1
    BY <1>1
  <2>4. \A k \in 1..n : k < n => k + 1 \in 1..n
    BY <1>1
  <2>5. \A k \in 1..n : k < n \/ k = n
    BY <1>1
  <2>6. ASSUME NEW k \in 1..(n + 1) PROVE InputsSeenTo(k)'
    <3>1. CASE k = n + 1
      BY <2>1, <2>2, <3>1 DEF InputsSeenTo
    <3>2. CASE k \in 1..n /\ k < n
      <4>1. stack'[k] = s[k] /\ stack'[k + 1] = s[k + 1] /\ k < n + 1
        <5>1. k + 1 \in 1..n
          BY <2>4, <3>2
        <5>2. k < n + 1
          BY <1>1, <3>2
        <5> QED
          BY <2>2, <3>2, <5>1, <5>2
      <4>2. k # n
        BY <1>1, <3>2
      <4> QED
        BY <1>7, <1>9, <2>2, <3>2, <4>1, <4>2 DEF InputsSeenTo
    <3>3. CASE k \in 1..n /\ k = n
      <4>1. stack'[k] = s[k] /\ stack'[k + 1].tx = t /\ k < n + 1
        BY <1>1, <2>1, <2>2, <3>3
      <4>2. ~ (k < n)
        BY <1>1, <3>3
      <4> QED
        BY <1>7, <1>9, <1>11, <2>2, <3>3, <4>1, <4>2 DEF InputsSeenTo
    <3> QED
      BY <2>3, <2>5, <3>1, <3>2, <3>3
  <2>7. \A k \in 1..(n + 1) : k < n + 1 =>
          stack'[k + 1].tx \in ParentsOf(stack'[k].tx)
    <3> SUFFICES ASSUME NEW k \in 1..(n + 1), k < n + 1
                 PROVE  stack'[k + 1].tx \in ParentsOf(stack'[k].tx)
      OBVIOUS
    <3>1. CASE k \in 1..n /\ k < n
      BY <1>8, <2>2, <2>4, <3>1
    <3>2. CASE k = n
      <4>1. p \in Ins[Top.tx] /\ p[1] = t
        <5>1. p \in stack[n].inputs
          BY <1>5 DEF n
        <5>2. p \in Ins[stack[n].tx]
          BY <1>5, <5>1 DEF StackRight, n
        <5> QED
          BY <1>5, <1>11, <5>2 DEF OutsOf
      <4>2. t \in ParentsOf(Top.tx)
        BY <4>1 DEF ParentsOf
      <4>3. stack'[k].tx = Top.tx /\ stack'[k + 1].tx = t
        BY <1>2, <1>3, <1>5, <2>1, <2>2, <3>2
      <4> QED
        BY <4>2, <4>3
    <3> QED
      BY <1>1, <3>1, <3>2
  <2>8. \A k \in 1..(n + 1) : /\ stack'[k].tx \in Pending \ Added
                              /\ stack'[k].inputs \subseteq Ins[stack'[k].tx]
    BY <1>8, <2>1, <2>2, <2>3
  <2> QED
    BY <1>7, <2>2, <2>6, <2>7, <2>8 DEF StackRight
<1> QED
  BY <1>10, <1>11

\* A call returns without placing its transaction: it is lost.
LEMMA NotPlaced ==
  ASSUME PoolInv, DraftRight, StackRight, stack # <<>>, Top.inputs = {},
         ~ Fits(Top.tx), stack' = Pop,
         UNCHANGED <<chainVars, poolVars, draft>>
  PROVE  DraftRight' /\ StackRight'
<1> DEFINE n == Len(stack)
<1>1. /\ n \in Nat /\ n >= 1 /\ Len(stack') = n - 1
      /\ \A i \in 1..(n - 1) : stack'[i] = stack[i]
  BY TopTyped DEF PoolInv
<1>2. /\ DraftRight' /\ Added' = Added /\ Pending' = Pending
      /\ \A u : Lost(u)' <=> Lost(u)
      /\ \A q : MadeAhead(q)' <=> MadeAhead(q)
  BY SameDraft
<1>3. Top = stack[n] /\ n \in 1..n
  BY <1>1 DEF Top
<1>4. Lost(Top.tx)
  BY <1>3 DEF StackRight, Lost
<1>5. \A k \in 1..(n - 1) : k \in 1..n /\ k < n /\ k + 1 \in 1..n
  BY <1>1
<1>6. \A k \in 1..(n - 1) : k < n - 1 => k + 1 \in 1..(n - 1)
  BY <1>1
<1>7. \A k \in 1..(n - 1) : k < n - 1 \/ k + 1 = n
  BY <1>1
<1> HIDE DEF n
<1>8. ASSUME NEW k \in 1..(n - 1) PROVE InputsSeenTo(k)'
  <2> SUFFICES ASSUME NEW q \in Ins[stack[k].tx] \ stack[k].inputs
               PROVE  \/ MadeAhead(q)
                      \/ Lost(q[1])
                      \/ k < n - 1 /\ q \in OutsOf(stack'[k + 1].tx)
    BY <1>1, <1>2 DEF InputsSeenTo
  <2>1. \/ MadeAhead(q)
        \/ Lost(q[1])
        \/ q \in OutsOf(stack[k + 1].tx)
    BY <1>5 DEF StackRight, InputsSeenTo, n
  <2>2. ASSUME q \in OutsOf(stack[k + 1].tx), k + 1 = n
        PROVE  Lost(q[1])
    BY <1>3, <1>4, <2>2 DEF OutsOf
  <2> QED
    BY <1>1, <1>6, <1>7, <2>1, <2>2
<1>9. \A k \in 1..(n - 1) : /\ stack'[k].tx \in Pending \ Added
                            /\ stack'[k].inputs \subseteq Ins[stack'[k].tx]
  BY <1>1, <1>5 DEF StackRight, n
<1>10. \A k \in 1..(n - 1) : k < n - 1 =>
         stack'[k + 1].tx \in ParentsOf(stack'[k].tx)
  BY <1>1, <1>5, <1>6 DEF StackRight, n
<1> QED
  BY <1>1, <1>2, <1>8, <1>9, <1>10 DEF StackRight

LEMMA AddedBy ==
  ASSUME AsmTyped, NEW t \in Plain, draft' = Append(draft, t)
  PROVE  /\ Added' = Added \cup {t}
         /\ Len(draft) \in Nat /\ Len(draft') = Len(draft) + 1
         /\ \A i \in 1..Len(draft) : draft'[i] = draft[i]
         /\ draft'[Len(draft) + 1] = t
<1> DEFINE n == Len(draft)
<1>1. draft \in Seq(Plain) /\ draft' \in Seq(Plain)
  BY AppendProperties DEF AsmTyped
<1>2. /\ n \in Nat /\ Len(draft') = n + 1
      /\ \A i \in 1..n : draft'[i] = draft[i]
      /\ draft'[n + 1] = t
  BY <1>1, AppendProperties, LenProperties
<1>3. DOMAIN draft = 1..n /\ DOMAIN draft' = 1..(n + 1)
  BY <1>1, <1>2, LenProperties
<1>4. \A i \in 1..(n + 1) : i \in 1..n \/ i = n + 1
  BY <1>2
<1>5. n + 1 \in 1..(n + 1) /\ \A i \in 1..n : i \in 1..(n + 1)
  BY <1>2
<1> HIDE DEF n
<1>6. Added' = Added \cup {t}
  <2>1. \A x \in Added' : x \in Added \cup {t}
    BY <1>2, <1>3, <1>4 DEF Added, Elements
  <2>2. \A x \in Added \cup {t} : x \in Added'
    BY <1>2, <1>3, <1>5 DEF Added, Elements
  <2> QED
    BY <2>1, <2>2
<1> QED
  BY <1>2, <1>6 DEF n

\* A transaction that fits is placed: what was lost stays lost.
LEMMA Placed ==
  ASSUME PoolInv, DraftRight, StackRight, stack # <<>>, Top.inputs = {},
         Fits(Top.tx), stack' = Pop, draft' = Append(draft, Top.tx),
         UNCHANGED <<chainVars, poolVars>>
  PROVE  DraftRight' /\ StackRight'
<1> DEFINE n == Len(stack)
           m == Len(draft)
           t == Top.tx
<1>1. /\ n \in Nat /\ n >= 1 /\ Len(stack') = n - 1
      /\ \A i \in 1..(n - 1) : stack'[i] = stack[i]
      /\ t \in Plain /\ Top = stack[n] /\ n \in 1..n
  BY TopTyped DEF PoolInv, Top
<1>2. /\ Added' = Added \cup {t}
      /\ m \in Nat /\ Len(draft') = m + 1
      /\ \A i \in 1..m : draft'[i] = draft[i]
      /\ draft'[m + 1] = t
  BY <1>1, AddedBy DEF PoolInv
<1>3. t \in Pending \ Added /\ InputsSeenTo(n)
  BY <1>1 DEF StackRight
<1>4. /\ utxo' = utxo /\ Pending' = Pending
  BY DEF chainVars, poolVars, Pending
<1>5. /\ IsFiniteSet(Pending) /\ Pending \subseteq Txs
      /\ \A u \in Pending : Size[u] \in Nat
      /\ Added \subseteq Pending
      /\ EmptyBlock \in Nat /\ MaxBlock \in Nat
  BY SizeTyped, PoolAssumption
  DEF PoolInv, PoolTyped, IsPool, Pending, Plain, DraftRight
<1>6. IsFiniteSet(Added)
  BY <1>5, FS_Subset
<1> HIDE DEF t, n, m
<1>7. /\ TotalSize(Added)' = Size[t] + TotalSize(Added)
      /\ Size[t] \in Nat /\ TotalSize(Added) \in Nat
  <2>1. TotalSize(Added)' = SumOver(Size, Added \cup {t})
    BY <1>2, TotalSizeIs
  <2>2. \A u \in Added \cup {t} : Size[u] \in Nat
    BY <1>3, <1>5
  <2>3. SumOver(Size, Added \cup {t}) = Size[t] + SumOver(Size, Added)
    BY <1>3, <1>6, <2>2, SumAdd
  <2>4. SumOver(Size, Added) \in Nat
    BY <1>6, <2>2, SumTyped
  <2> QED
    BY <1>3, <1>5, <2>1, <2>3, <2>4, TotalSizeIs
<1>8. ASSUME NEW u, Lost(u)
      PROVE  Lost(u)' /\ u # t
  <2>1. u # t
    BY <1>8 DEF Lost, t
  <2>2. u \in Pending \ Added /\ Size[u] \in Nat
    BY <1>5, <1>8 DEF Lost
  <2>3. ~ (EmptyBlock + TotalSize(Added) + Size[u] < MaxBlock)
    BY <1>8 DEF Lost, Fits
  <2>4. ~ (EmptyBlock + TotalSize(Added)' + Size[u] < MaxBlock)
    BY <1>5, <1>7, <2>2, <2>3, SMTT(40)
  <2>5. ~ Fits(u)'
    BY <2>4 DEF Fits
  <2> QED
    BY <1>2, <1>4, <2>1, <2>2, <2>5 DEF Lost
<1>9. \A q : MadeAhead(q) => MadeAhead(q)'
  BY <1>2, <1>4 DEF MadeAhead, OutsOfAll
<1>10. \A q \in OutsOf(t) : MadeAhead(q)'
  BY <1>2, <1>3, <1>4 DEF MadeAhead, OutsOfAll, OutsOf
<1>11. \A k \in 1..(n - 1) : k \in 1..n /\ k < n /\ k + 1 \in 1..n
  BY <1>1
<1>12. \A k \in 1..(n - 1) : k < n - 1 => k + 1 \in 1..(n - 1)
  BY <1>1
<1>13. \A k \in 1..(n - 1) : k < n - 1 \/ k + 1 = n
  BY <1>1
<1>14. StackRight'
  <2>1. ASSUME NEW k \in 1..(n - 1) PROVE InputsSeenTo(k)'
    <3> SUFFICES ASSUME NEW q \in Ins[stack[k].tx] \ stack[k].inputs
                 PROVE  \/ MadeAhead(q)'
                        \/ Lost(q[1])'
                        \/ k < n - 1 /\ q \in OutsOf(stack'[k + 1].tx)
      BY <1>1 DEF InputsSeenTo
    <3>1. \/ MadeAhead(q)
          \/ Lost(q[1])
          \/ q \in OutsOf(stack[k + 1].tx)
      BY <1>11 DEF StackRight, InputsSeenTo, n
    <3>2. ASSUME q \in OutsOf(stack[k + 1].tx), k + 1 = n
          PROVE  MadeAhead(q)'
      BY <1>1, <1>10, <3>2 DEF t
    <3> QED
      BY <1>1, <1>8, <1>9, <1>12, <1>13, <3>1, <3>2
  <2>2. \A k \in 1..(n - 1) : stack[k].tx # t
    BY <1>1, <1>11, CallsDiffer DEF t, n
  <2>3. \A k \in 1..(n - 1) : /\ stack'[k].tx \in Pending' \ Added'
                              /\ stack'[k].inputs \subseteq Ins[stack'[k].tx]
    BY <1>1, <1>2, <1>4, <1>11, <2>2 DEF StackRight, n
  <2>4. \A k \in 1..(n - 1) : k < n - 1 =>
          stack'[k + 1].tx \in ParentsOf(stack'[k].tx)
    BY <1>1, <1>11, <1>12 DEF StackRight, n
  <2> QED
    BY <1>1, <2>1, <2>3, <2>4 DEF StackRight
<1>15. DraftRight'
  <2>1. Added' \subseteq Pending'
    BY <1>2, <1>3, <1>4, <1>5
  <2>2. (EmptyBlock + TotalSize(Added) < MaxBlock)'
    <3>1. EmptyBlock + TotalSize(Added) + Size[t] < MaxBlock
      BY DEF Fits, t
    <3> QED
      BY <1>5, <1>7, <3>1
  <2>3. DOMAIN draft = 1..m /\ \A i \in 1..m : draft[i] \in Added
    BY LenProperties DEF PoolInv, AsmTyped, Added, Elements, m
  <2>4. \A i \in 1..(m + 1) : i \in 1..m \/ i = m + 1
    BY <1>2
  <2>5. ASSUME NEW i \in 1..(m + 1), NEW j \in 1..(m + 1), i # j
        PROVE  draft'[i] # draft'[j]
    <3>1. CASE i \in 1..m /\ j \in 1..m
      BY <1>2, <2>5, <3>1 DEF DraftRight, m
    <3>2. CASE i = m + 1 \/ j = m + 1
      BY <1>2, <1>3, <2>3, <2>4, <2>5, <3>2
    <3> QED
      BY <2>4, <3>1, <3>2
  <2>6. ASSUME NEW i \in 1..(m + 1), NEW q \in Ins[draft'[i]]
        PROVE  \/ q \in DOMAIN utxo
               \/ \E j \in 1..(i - 1) : q \in OutsOf(draft'[j])
               \/ Lost(q[1])'
    <3>1. \A j \in 1..(i - 1) : j \in 1..m
      BY <1>2
    <3>2. CASE i \in 1..m
      <4>1. \/ q \in DOMAIN utxo
            \/ \E j \in 1..(i - 1) : q \in OutsOf(draft[j])
            \/ Lost(q[1])
        BY <1>2, <2>6, <3>2 DEF DraftRight, m
      <4> QED
        BY <1>2, <1>8, <3>1, <4>1
    <3>3. CASE i = m + 1
      <4>1. q \in Ins[stack[n].tx] \ stack[n].inputs
        BY <1>1, <1>2, <2>6, <3>3 DEF t
      <4>2. MadeAhead(q) \/ Lost(q[1])
        BY <1>1, <1>3, <4>1 DEF InputsSeenTo, n
      <4>3. ASSUME q \in OutsOfAll(Pending), q[1] \in Added
            PROVE  \E j \in 1..m : q \in OutsOf(draft[j])
        <5>1. q \in OutsOf(q[1])
          BY <4>3 DEF OutsOfAll, OutsOf
        <5>2. PICK j \in 1..m : q[1] = draft[j]
          BY <2>3, <4>3 DEF Added, Elements
        <5> QED
          BY <5>1, <5>2
      <4>4. i - 1 = m
        BY <1>2, <3>3
      <4> QED
        BY <1>2, <1>8, <4>2, <4>3, <4>4 DEF MadeAhead
    <3> QED
      BY <2>4, <3>2, <3>3
  <2> QED
    BY <1>2, <1>4, <2>1, <2>2, <2>5, <2>6 DEF DraftRight
<1> QED
  BY <1>14, <1>15

LEMMA AssembleRight ==
  ASSUME PoolInv, DraftRight, StackRight,
         PickBest \/ SkipInput \/ AddParentFirst \/ PlaceTx
  PROVE  DraftRight' /\ StackRight'
<1>1. CASE PickBest
  BY <1>1, PickRight
<1>2. CASE SkipInput
  <2>1. PICK p \in Top.inputs :
          /\ MadeAhead(p)
          /\ stack' = Append(Pop, [Top EXCEPT !.inputs = @ \ {p}])
    BY <1>2 DEF SkipInput
  <2>2. stack # <<>> /\ UNCHANGED <<chainVars, poolVars, draft>>
    BY <1>2 DEF SkipInput
  <2>3. DraftRight'
    BY <2>2, SameDraft
  <2>4. StackRight'
    BY <2>1, <2>2, TopGoesOn
  <2> QED
    BY <2>3, <2>4
<1>3. CASE AddParentFirst
  <2>1. PICK p \in Top.inputs :
          /\ ~ MadeAhead(p) /\ p \in OutsOfAll(Pending)
          /\ stack' = Append(Append(Pop, [Top EXCEPT !.inputs = @ \ {p}]),
                             [tx |-> p[1], inputs |-> Ins[p[1]]])
    BY <1>3 DEF AddParentFirst
  <2>2. stack # <<>> /\ UNCHANGED <<chainVars, poolVars, draft>>
    BY <1>3 DEF AddParentFirst
  <2>3. DraftRight'
    BY <2>2, SameDraft
  <2>4. PICK t \in Pending : p \in OutsOf(t)
    BY <2>1 DEF OutsOfAll
  <2>5. p[1] = t
    BY <2>4 DEF OutsOf
  <2>6. t \notin Added
    BY <2>1, <2>5 DEF MadeAhead
  <2> DEFINE s == Append(Pop, [Top EXCEPT !.inputs = @ \ {p}])
  <2>7. stack' = Append(s, [tx |-> t, inputs |-> Ins[t]])
    BY <2>1, <2>5
  <2>8. s = Append(Pop, [Top EXCEPT !.inputs = @ \ {p}])
    OBVIOUS
  <2> HIDE DEF s
  <2>9. StackRight'
    BY <2>2, <2>4, <2>6, <2>7, <2>8, TopGoesOn
  <2> QED
    BY <2>3, <2>9
<1>4. CASE PlaceTx
  <2>1. /\ stack # <<>> /\ Top.inputs = {} /\ stack' = Pop
        /\ UNCHANGED <<chainVars, poolVars>>
        /\ draft' = IF Fits(Top.tx) THEN Append(draft, Top.tx) ELSE draft
    BY <1>4 DEF PlaceTx
  <2>2. CASE Fits(Top.tx)
    BY <2>1, <2>2, Placed
  <2>3. CASE ~ Fits(Top.tx)
    BY <2>1, <2>3, NotPlaced
  <2> QED
    BY <2>2, <2>3
<1> QED
  BY <1>1, <1>2, <1>3, <1>4

LEMMA BeforeIs ==
  ASSUME NEW s \in Seq(Plain), NEW i \in 1..Len(s)
  PROVE  Elements(SubSeq(s, 1, i - 1)) = {s[j] : j \in 1..(i - 1)}
<1> DEFINE b == SubSeq(s, 1, i - 1)
           S == Plain
<1>1. Len(s) \in Nat /\ i \in Nat /\ i >= 1 /\ i - 1 \in Int /\ i - 1 <= Len(s)
  BY LenProperties
<1>2. /\ b \in Seq(S)
      /\ Len(b) = IF 1 <= i - 1 THEN i - 1 - 1 + 1 ELSE 0
      /\ \A k \in 1 .. i - 1 - 1 + 1 : b[k] = s[1 + k - 1]
  <2>1. s \in Seq(S)
    OBVIOUS
  <2> HIDE DEF S
  <2> QED
    BY <1>1, <2>1, SubSeqTyped
<1>3. Len(b) = i - 1 /\ \A k \in 1..(i - 1) : b[k] = s[k]
  <2> HIDE DEF b
  <2> QED
    BY <1>1, <1>2
<1>4. DOMAIN b = 1..(i - 1)
  <2> HIDE DEF b
  <2> QED
    BY <1>2, <1>3, LenProperties
<1> HIDE DEF b
<1>5. Elements(b) = {s[j] : j \in 1..(i - 1)}
  BY <1>3, <1>4 DEF Elements
<1> QED
  BY <1>5 DEF b

\* When nothing is left out, nothing was lost.
LEMMA FinishRight ==
  ASSUME PoolInv, DraftRight, FinishAssembly
  PROVE  TemplateConnects'
<1>1. /\ template' = [status |-> "built", txs |-> draft]
      /\ Pending \subseteq Added /\ utxo' = utxo /\ reorgs' = reorgs
  BY DEF FinishAssembly, chainVars
<1>2. ASSUME reorgs = 0
      PROVE  ConnectsInOrder(draft)
  <2>1. draft \in Seq(Plain) /\ Len(draft) \in Nat
    BY LenProperties DEF PoolInv, AsmTyped
  <2>2. DOMAIN draft = 1..Len(draft)
    BY <2>1, LenProperties
  <2> SUFFICES ASSUME NEW i \in 1..Len(draft)
               PROVE  LET before == Elements(SubSeq(draft, 1, i - 1))
                          spent  == UNION {Ins[t] : t \in before}
                      IN  Ins[draft[i]]
                            \subseteq (DOMAIN utxo \cup OutsOfAll(before)) \ spent
    BY <2>2 DEF ConnectsInOrder
  <2> DEFINE before == Elements(SubSeq(draft, 1, i - 1))
             spent == UNION {Ins[t] : t \in before}
  <2>3. before = {draft[j] : j \in 1..(i - 1)}
    BY <2>1, BeforeIs
  <2>4. \A j \in 1..(i - 1) : j \in 1..Len(draft) /\ j # i
    BY <2>1
  <2>5. \A j \in 1..Len(draft) : draft[j] \in Pending
    BY <2>2 DEF DraftRight, Added, Elements
  <2> HIDE DEF before
  <2>6. ASSUME NEW p \in Ins[draft[i]]
        PROVE  p \in DOMAIN utxo \cup OutsOfAll(before)
    <3>1. ~ Lost(p[1])
      BY <1>1 DEF Lost
    <3>2. p \in DOMAIN utxo \/ \E j \in 1..(i - 1) : p \in OutsOf(draft[j])
      BY <3>1 DEF DraftRight
    <3> QED
      BY <2>3, <3>2 DEF OutsOfAll
  <2>7. ASSUME NEW p \in Ins[draft[i]], NEW t \in before
        PROVE  p \notin Ins[t]
    <3>1. PICK j \in 1..(i - 1) : t = draft[j]
      BY <2>3
    <3>2. draft[j] # draft[i] /\ draft[j] \in Pending /\ draft[i] \in Pending
      BY <2>4, <2>5 DEF DraftRight
    <3> QED
      BY <1>2, <3>1, <3>2 DEF PoolInv, NoDoubleSpendPending
  <2> QED
    BY <2>6, <2>7 DEF before
<1>3. template'.txs = draft
  BY <1>1
<1>4. ConnectsInOrder(template.txs)' <=> ConnectsInOrder(draft)
  BY <1>1, <1>3 DEF ConnectsInOrder
<1>5. TotalSize(Elements(template.txs))' = TotalSize(Added)
  <2>1. TotalSize(Elements(template.txs))' = SumOver(Size, Added)
    BY <1>3, TotalSizeIs DEF Added
  <2> QED
    BY <2>1, TotalSizeIs
<1>6. EmptyBlock + TotalSize(Added) < MaxBlock
  BY DEF DraftRight
<1> QED
  BY <1>1, <1>2, <1>4, <1>5, <1>6 DEF TemplateConnects

\* A template that stays, on a map that stays, or none.
LEMMA TemplateKept ==
  ASSUME TemplateConnects,
         \/ template' = NoTemplate
         \/ template'.status = "failed"
         \/ template' = template /\ utxo' = utxo /\ reorgs' = reorgs
  PROVE  TemplateConnects'
<1>1. CASE template' = NoTemplate \/ template'.status = "failed"
  BY <1>1 DEF TemplateConnects, NoTemplate
<1>2. CASE template' = template /\ utxo' = utxo /\ reorgs' = reorgs
  <2>1. TotalSize(Elements(template.txs))' = TotalSize(Elements(template.txs))
    <3>1. TotalSize(Elements(template.txs))'
            = SumOver(Size, Elements(template.txs))
      BY <1>2, TotalSizeIs
    <3> QED
      BY <3>1, TotalSizeIs
  <2>2. ConnectsInOrder(template.txs)' <=> ConnectsInOrder(template.txs)
    BY <1>2 DEF ConnectsInOrder
  <2> QED
    BY <1>2, <2>1, <2>2 DEF TemplateConnects
<1> QED
  BY <1>1, <1>2

LEMMA NextAsm ==
  ASSUME PoolInv, AsmInv, [Next]_vars
  PROVE  AsmInv'
<1>1. TemplateConnects /\ (stage = "assemble" => DraftRight /\ StackRight)
  BY DEF AsmInv
<1>2. CASE \E t \in Txs \ Coinbases : AddTx(t)
  <2>1. stage' = "evict" /\ UNCHANGED <<chainVars, asmVars>>
    BY <1>2 DEF AddTx, AddFresh, ReplaceByFee, Insert
  <2>2. template' = template /\ utxo' = utxo /\ reorgs' = reorgs
    BY <2>1 DEF chainVars, asmVars
  <2> QED
    BY <1>1, <2>1, <2>2, TemplateKept DEF AsmInv
<1>3. CASE Evict
  <2>1. stage' # "assemble" /\ UNCHANGED <<chainVars, asmVars>>
    BY <1>3 DEF Evict, EvictWorst, EvictionDone
  <2>2. template' = template /\ utxo' = utxo /\ reorgs' = reorgs
    BY <2>1 DEF chainVars, asmVars
  <2> QED
    BY <1>1, <2>1, <2>2, TemplateKept DEF AsmInv
<1>4. CASE StartAssembly
  <2>1. template' = NoTemplate
    BY <1>4 DEF StartAssembly
  <2> QED
    BY <1>1, <1>4, <2>1, StartRight, TemplateKept DEF AsmInv
<1>5. CASE PickBest \/ SkipInput \/ AddParentFirst \/ PlaceTx
  <2>1. /\ stage = "assemble" /\ template' = template
        /\ utxo' = utxo /\ reorgs' = reorgs
    BY <1>5 DEF PickBest, SkipInput, AddParentFirst, PlaceTx, chainVars
  <2>2. DraftRight' /\ StackRight'
    BY <1>1, <1>5, <2>1, AssembleRight
  <2> QED
    BY <1>1, <2>1, <2>2, TemplateKept DEF AsmInv
<1>6. CASE GiveUpAssembly
  <2>1. template'.status = "failed" /\ stage' = "idle"
    BY <1>6 DEF GiveUpAssembly
  <2> QED
    BY <1>1, <2>1, TemplateKept DEF AsmInv
<1>7. CASE FinishAssembly
  <2>1. stage = "assemble" /\ stage' = "idle"
    BY <1>7 DEF FinishAssembly
  <2> QED
    BY <1>1, <1>7, <2>1, FinishRight DEF AsmInv
<1>8. CASE (\E txs \in Bodies : PeerBlock(txs)) \/ MinedBlock \/ DisconnectTip
  <2>1. stage' = "idle" /\ template' = NoTemplate
    BY <1>8 DEF PeerBlock, MinedBlock, Connect, DisconnectTip
  <2> QED
    BY <1>1, <2>1, TemplateKept DEF AsmInv
<1>9. CASE UNCHANGED vars
  <2>1. /\ UNCHANGED <<chainVars, poolVars, draft>>
        /\ UNCHANGED <<stack, stage, template>>
        /\ utxo' = utxo /\ reorgs' = reorgs
    BY <1>9 DEF vars, asmVars, chainVars
  <2>2. TemplateConnects'
    BY <1>1, <2>1, TemplateKept
  <2>3. ASSUME stage = "assemble" PROVE DraftRight' /\ StackRight'
    <3>1. /\ DraftRight' /\ Added' = Added /\ Pending' = Pending
          /\ \A u : Lost(u)' <=> Lost(u)
          /\ \A p : MadeAhead(p)' <=> MadeAhead(p)
      BY <1>1, <2>1, <2>3, SameDraft
    <3>2. \A k \in 1..Len(stack) : InputsSeenTo(k) => InputsSeenTo(k)'
      BY <2>1, <3>1 DEF InputsSeenTo
    <3> QED
      BY <1>1, <2>1, <2>3, <3>1, <3>2 DEF StackRight
  <2> QED
    BY <2>1, <2>2, <2>3 DEF AsmInv
<1> QED
  BY <1>2, <1>3, <1>4, <1>5, <1>6, <1>7, <1>8, <1>9 DEF Next, Assemble

(***************************************************************************)
(* Until a reorganisation, a block the assembly is content with can be     *)
(* connected: parents first, no output spent twice, below the size limit   *)
(* (mempool.cpp:44).  A child may be placed though its parent does not     *)
(* fit, but then the loop, which waits for everything to be placed, never  *)
(* returns the block.                                                      *)
(***************************************************************************)
THEOREM TemplatesConnect == Spec => []TemplateConnects
<1>1. Init => AsmInv
  BY DEF Init, NoTemplate, AsmInv, TemplateConnects
<1>2. PoolInv /\ AsmInv /\ [Next]_vars => AsmInv'
  BY NextAsm
<1>3. AsmInv => TemplateConnects
  BY DEF AsmInv
<1> QED
  BY <1>1, <1>2, <1>3, Invariance, PTL DEF Spec

-----------------------------------------------------------------------------
(* How large families get. *)

\* No replacement spends an output of a transaction it pushes out.
KeepsParents ==
  \A t \in Plain : ReplaceByFee(t) => ~ReplacesParent(t)

Below == CHOOSE B \in SUBSET Txs : ChainBelow(B)

\* The transactions of the whole chain.
Settled == Below \cup UNION {Elements(mined[i]) : i \in DOMAIN mined}

\* What is on the chain is there with all it spends, and never comes back.
ChainClosed ==
  /\ \A p \in DOMAIN utxo : p[1] \in Settled
  /\ \A t \in Settled : /\ Ins[t] \cap DOMAIN utxo = {}
                        /\ ParentsOf(t) \subseteq Settled

PoolClosed ==
  /\ Pending \cap Settled = {}
  /\ \A t \in Pending : ParentsOf(t) \subseteq Pending \cup Settled

\* Only a block the assembly is content with has transactions.
TemplateBuilt == template.status # "built" => template.txs = <<>>

\* After a reorganisation nothing of this is promised any more.
FamInv ==
  /\ Orderly /\ TemplateBuilt
  /\ reorgs = 0 => ChainClosed /\ PoolClosed /\ FamiliesBounded

\* Who has a transaction among its descendants is among its ancestors.
LEMMA FamilyOfChild ==
  ASSUME NEW x \in Pending, NEW ts \in SUBSET Pending,
         ts \cap WithDescendants({x}) # {}
  PROVE  x \in WithAncestors(ts)
<1> DEFINE A == WithAncestors(ts)
           S == Pending \ A
<1>1. ts \subseteq A /\ A \subseteq Pending
  BY DEF WithAncestors
<1>2. ASSUME NEW u \in A, NEW v \in ParentsOf(u) \cap Pending
      PROVE  v \in A
  BY <1>2, ZenonT(40) DEF WithAncestors
<1> HIDE DEF A
<1>3. SUFFICES ASSUME x \notin A PROVE FALSE
  BY DEF A
<1>4. \A u \in Pending : ParentsOf(u) \cap S # {} => u \in S
  BY <1>2
<1>5. S \in SUBSET Pending /\ {x} \cap Pending \subseteq S
  BY <1>3
<1> HIDE DEF S
<1>6. WithDescendants({x}) \subseteq S
  BY <1>4, <1>5 DEF WithDescendants
<1> QED
  BY <1>1, <1>6 DEF S

\* A family of the next pool, from a set that is closed there.
LEMMA NextFamily ==
  ASSUME NEW x, NEW S \in SUBSET Pending',
         {x} \cap Pending' \subseteq S,
         \A u \in Pending' : ParentsOf(u) \cap S # {} => u \in S
  PROVE  Descendants(x)' \subseteq S \ {x}
<1>1. WithDescendants({x})' \subseteq S
  BY DEF WithDescendants, ParentsOf
<1> QED
  BY <1>1 DEF Descendants

LEMMA SmallerFamily ==
  ASSUME IsFiniteSet(Pending), FamiliesBounded, reorgs = 0,
         NEW x \in Pending, NEW D \in SUBSET Descendants(x)
  PROVE  Cardinality(D) < MaxDescendants
<1>1. Descendants(x) \subseteq Pending
  BY FamilyInside DEF Descendants
<1>2. IsFiniteSet(Descendants(x))
  BY <1>1, FS_Subset
<1>3. Cardinality(D) <= Cardinality(Descendants(x)) /\ IsFiniteSet(D)
  BY <1>2, FS_Subset
<1>4. Cardinality(Descendants(x)) < MaxDescendants
  BY DEF FamiliesBounded
<1> QED
  BY <1>2, <1>3, <1>4, FS_CardinalityType, PoolAssumption

\* Families do not grow when nothing comes.
LEMMA FamiliesShrink ==
  ASSUME IsFiniteSet(Pending), FamiliesBounded, Pending' \subseteq Pending,
         reorgs' = reorgs
  PROVE  FamiliesBounded'
<1> SUFFICES ASSUME reorgs = 0, NEW x \in Pending'
             PROVE  Cardinality(Descendants(x)') < MaxDescendants
  BY DEF FamiliesBounded
<1> DEFINE S == WithDescendants({x}) \cap Pending'
<1>1. S \in SUBSET Pending' /\ {x} \cap Pending' \subseteq S
  BY FamilyInside
<1>2. ASSUME NEW u \in Pending', ParentsOf(u) \cap S # {}
      PROVE  u \in S
  BY <1>2, FamilyClosed
<1> HIDE DEF S
<1>3. Descendants(x)' \subseteq S \ {x}
  BY <1>1, <1>2, NextFamily
<1>4. Descendants(x)' \subseteq Descendants(x)
  BY <1>3 DEF S, Descendants
<1> QED
  BY <1>4, SmallerFamily

(***************************************************************************)
(* A newcomer without children in the pool joins the families of its       *)
(* ancestors, which violates_chain_limits has looked at, and no other.     *)
(***************************************************************************)
LEMMA FamiliesJoined ==
  ASSUME IsFiniteSet(Pending), FamiliesBounded, reorgs' = reorgs,
         NEW t, t \notin Pending, ~ TooDeep(t),
         \A u \in Pending \cup {t} : t \notin ParentsOf(u),
         NEW gone \in SUBSET Pending, Pending' = (Pending \ gone) \cup {t}
  PROVE  FamiliesBounded'
<1> SUFFICES ASSUME reorgs = 0, NEW x \in Pending'
             PROVE  Cardinality(Descendants(x)') < MaxDescendants
  BY DEF FamiliesBounded
<1> DEFINE F == WithDescendants({x})
           parents == ParentsOf(t) \cap Pending
<1>1. CASE x = t
  <2>1. Descendants(x)' \subseteq {t} \ {x}
    <3>1. \A u \in Pending' : ParentsOf(u) \cap {t} = {}
      OBVIOUS
    <3>2. {t} \in SUBSET Pending' /\ {x} \cap Pending' \subseteq {t}
      BY <1>1
    <3> QED
      BY <3>1, <3>2, NextFamily
  <2>2. Descendants(x)' = {}
    BY <1>1, <2>1
  <2> QED
    BY <2>2, FS_EmptySet, PoolAssumption
<1>2. CASE x # t /\ x \notin WithAncestors(parents)
  <2> DEFINE S == F \cap Pending'
  <2>1. x \in Pending
    BY <1>2
  <2>2. parents \cap F = {}
    BY <1>2, <2>1, FamilyOfChild
  <2>3. S \in SUBSET Pending' /\ {x} \cap Pending' \subseteq S
    BY <2>1, FamilyInside
  <2>4. ASSUME NEW u \in Pending', ParentsOf(u) \cap S # {}
        PROVE  u \in S
    <3>1. F \in SUBSET Pending
      BY FamilyInside
    <3>2. u # t
      BY <2>2, <2>4, <3>1
    <3> QED
      BY <2>4, <3>2, FamilyClosed
  <2> HIDE DEF S
  <2>5. Descendants(x)' \subseteq S \ {x}
    BY <2>3, <2>4, NextFamily
  <2>6. Descendants(x)' \subseteq Descendants(x)
    BY <2>5 DEF S, Descendants
  <2> QED
    BY <2>1, <2>6, SmallerFamily
<1>3. CASE x # t /\ x \in WithAncestors(parents)
  <2> DEFINE S == (F \cap Pending') \cup {t}
             D == Descendants(x)
  <2>1. x \in Pending
    BY <1>3
  <2>2. S \in SUBSET Pending' /\ {x} \cap Pending' \subseteq S
    BY <2>1, FamilyInside
  <2>3. ASSUME NEW u \in Pending', ParentsOf(u) \cap S # {}
        PROVE  u \in S
    <3>1. CASE u = t
      BY <3>1
    <3>2. CASE u # t
      <4>1. ParentsOf(u) \cap F # {} /\ u \in Pending
        BY <2>3, <3>2
      <4> QED
        BY <4>1, <2>3, FamilyClosed
    <3> QED
      BY <3>1, <3>2
  <2> HIDE DEF S
  <2>4. Descendants(x)' \subseteq S \ {x}
    BY <2>2, <2>3, NextFamily
  <2>5. Descendants(x)' \subseteq D \cup {t}
    BY <2>4 DEF S, Descendants
  <2>6. Cardinality(D) + 1 < MaxDescendants \/ ~ (Cardinality(D) + 1 \in Int)
    <3>1. ~ (Cardinality(D) + 1 >= MaxDescendants)
      BY <1>3 DEF TooDeep
    <3> QED
      BY <3>1, PoolAssumption
  <2>7. D \in SUBSET Pending
    BY FamilyInside DEF Descendants
  <2> HIDE DEF D
  <2>8. IsFiniteSet(D) /\ Cardinality(D) \in Nat
    BY <2>7, FS_Subset, FS_CardinalityType
  <2>9. /\ IsFiniteSet(D \cup {t}) /\ Cardinality(D \cup {t}) \in Nat
        /\ Cardinality(D \cup {t}) <= Cardinality(D) + 1
    <3>1. /\ IsFiniteSet(D \cup {t})
          /\ Cardinality(D \cup {t}) \in {Cardinality(D), Cardinality(D) + 1}
      BY <2>8, FS_AddElement
    <3> QED
      BY <2>8, <3>1
  <2>10. /\ Cardinality(Descendants(x)') <= Cardinality(D \cup {t})
         /\ Cardinality(Descendants(x)') \in Nat
    BY <2>5, <2>9, FS_Subset, FS_CardinalityType
  <2> QED
    BY <2>6, <2>8, <2>9, <2>10, PoolAssumption
<1> QED
  BY <1>1, <1>2, <1>3

-----------------------------------------------------------------------------
(* Who is on the chain stays there. *)

LEMMA SettledGrows ==
  ASSUME PoolTyped, NEW txs \in Seq(Plain), mined' = Append(mined, txs)
  PROVE  Settled' = Settled \cup Elements(txs)
<1> DEFINE B == Seq(Plain)
<1>1. mined \in Seq(B) /\ txs \in B
  BY DEF PoolTyped, IsChain
<1> HIDE DEF B
<1>2. /\ Len(mined) \in Nat /\ DOMAIN mined = 1..Len(mined)
      /\ Append(mined, txs) \in Seq(B)
      /\ Len(Append(mined, txs)) = Len(mined) + 1
      /\ \A i \in 1..Len(mined) : Append(mined, txs)[i] = mined[i]
      /\ Append(mined, txs)[Len(mined) + 1] = txs
  BY <1>1, AppendProperties, LenProperties
<1>3. DOMAIN mined' = 1..(Len(mined) + 1)
  BY <1>2, LenProperties
<1>4. DOMAIN mined' = DOMAIN mined \cup {Len(mined) + 1}
  BY <1>2, <1>3
<1> DEFINE old == UNION {Elements(mined[i]) : i \in DOMAIN mined}
           new == UNION {Elements(mined'[i]) : i \in DOMAIN mined'}
<1>5. new = old \cup Elements(txs)
  BY <1>2, <1>4
<1> QED
  BY <1>5 DEF Settled

\* What the chain has is not accepted again: its inputs are gone.
LEMMA NeverAgain ==
  ASSUME PoolTyped, ChainClosed, NEW ts \in SUBSET Plain, ts \cap Settled # {},
         \A t \in ts : Ins[t] \subseteq DOMAIN utxo \cup OutsOfAll(ts)
  PROVE  FALSE
<1> DEFINE S == ts \cap Settled
<1>1. S \in SUBSET Txs /\ S # {}
  BY DEF Plain
<1>2. PICK t \in S : \A p \in Ins[t] : p[1] \notin S
  BY <1>1, PoolAssumption
<1>3. PICK p \in Ins[t] : TRUE
  BY <1>2, PoolAssumption DEF Plain
<1>4. p \notin DOMAIN utxo /\ p[1] \in Settled
  BY <1>2, <1>3 DEF ChainClosed, ParentsOf
<1>5. PICK u \in ts : p \in OutsOf(u)
  BY <1>2, <1>4 DEF OutsOfAll
<1>6. p[1] \in S
  BY <1>4, <1>5 DEF OutsOf
<1> QED
  BY <1>2, <1>6

LEMMA NewcomerNew ==
  ASSUME ChainClosed, PoolClosed, NEW t \in Plain, Acceptable(t)
  PROVE  /\ t \notin Settled /\ ParentsOf(t) \subseteq Pending \cup Settled
         /\ \A u \in Pending \cup {t} : t \notin ParentsOf(u)
<1>1. /\ t \notin Pending /\ t \in Txs
      /\ Ins[t] \subseteq DOMAIN utxo \cup OutsOfAll(Pending)
  BY DEF Acceptable, ValidTx, Plain
<1>2. \A p \in Ins[t] : p \in DOMAIN utxo \/ p[1] \in Pending
  BY <1>1 DEF OutsOfAll, OutsOf
<1>3. t \notin Settled
  <2>1. PICK p \in Ins[t] : TRUE
    BY PoolAssumption DEF Plain
  <2>2. SUFFICES ASSUME t \in Settled PROVE FALSE
    OBVIOUS
  <2>3. p \notin DOMAIN utxo /\ p[1] \in Settled
    BY <2>1, <2>2 DEF ChainClosed, ParentsOf
  <2> QED
    BY <1>2, <2>1, <2>3 DEF PoolClosed
<1>4. ParentsOf(t) \subseteq Pending \cup Settled
  BY <1>2 DEF ChainClosed, ParentsOf
<1>5. t \notin ParentsOf(t)
  <2>1. {t} \in SUBSET Txs /\ {t} # {}
    BY <1>1
  <2>2. \A p \in Ins[t] : p[1] \notin {t}
    BY <2>1, PoolAssumption
  <2> QED
    BY <2>2 DEF ParentsOf
<1> QED
  BY <1>1, <1>3, <1>4, <1>5 DEF PoolClosed

LEMMA InsertInFamily ==
  ASSUME PoolInv, ChainClosed, PoolClosed, FamiliesBounded, reorgs = 0,
         NEW t \in Plain, Acceptable(t), NEW ts,
         ParentsOf(t) \cap WithDescendants(ts) = {},
         Insert(t, WithDescendants(ts))
  PROVE  ChainClosed' /\ PoolClosed' /\ FamiliesBounded'
<1> DEFINE gone == WithDescendants(ts)
<1>1. /\ gone \in SUBSET Pending /\ Pending' = (Pending \ gone) \cup {t}
      /\ utxo' = utxo /\ mined' = mined /\ reorgs' = reorgs
  BY FamilyInside DEF Insert, Pending, chainVars
<1>2. Settled' = Settled
  BY <1>1 DEF Settled
<1>3. ChainClosed'
  BY <1>1, <1>2 DEF ChainClosed, ParentsOf
<1>4. /\ t \notin Settled /\ ParentsOf(t) \subseteq Pending \cup Settled
      /\ \A u \in Pending \cup {t} : t \notin ParentsOf(u)
  BY NewcomerNew
<1>5. \A u \in Pending \ gone : ParentsOf(u) \cap gone = {}
  BY FamilyClosed
<1>6. ParentsOf(t) \cap gone = {}
  OBVIOUS
<1>7. IsFiniteSet(Pending) /\ t \notin Pending /\ ~ TooDeep(t)
  BY DEF PoolInv, PoolTyped, IsPool, Pending, Acceptable
<1> HIDE DEF gone
<1>8. PoolClosed'
  <2>1. Pending' \cap Settled' = {}
    BY <1>1, <1>2, <1>4 DEF PoolClosed
  <2>2. ASSUME NEW u \in Pending' PROVE ParentsOf(u) \subseteq Pending' \cup Settled'
    <3>1. ParentsOf(u) \subseteq Pending \cup Settled
      BY <1>1, <1>4, <2>2 DEF PoolClosed
    <3>2. ParentsOf(u) \cap gone = {}
      BY <1>1, <1>5, <1>6, <2>2
    <3> QED
      BY <1>1, <1>2, <3>1, <3>2
  <2> QED
    BY <2>1, <2>2 DEF PoolClosed, ParentsOf
<1>9. FamiliesBounded'
  BY <1>1, <1>4, <1>7, FamiliesJoined
<1> QED
  BY <1>3, <1>8, <1>9

LEMMA AddInFamily ==
  ASSUME PoolInv, ChainClosed, PoolClosed, FamiliesBounded, reorgs = 0,
         NEW t \in Plain, AddTx(t), KeepsParents
  PROVE  ChainClosed' /\ PoolClosed' /\ FamiliesBounded'
<1>1. Acceptable(t)
  BY DEF AddTx, AddFresh, ReplaceByFee
<1>2. WithDescendants({}) = {}
  <2>1. {} \in SUBSET Pending
    OBVIOUS
  <2>2. WithDescendants({}) \subseteq UNION {WithDescendants({c}) : c \in {}}
    BY <2>1, FamilySplits
  <2> QED
    BY <2>2
<1>3. CASE AddFresh(t)
  <2>1. Insert(t, WithDescendants({}))
    BY <1>2, <1>3 DEF AddFresh
  <2> QED
    BY <1>1, <1>2, <2>1, InsertInFamily
<1>4. CASE ReplaceByFee(t)
  <2>1. Insert(t, WithDescendants(Conflicting(t)))
    BY <1>4 DEF ReplaceByFee
  <2>2. ParentsOf(t) \cap WithDescendants(Conflicting(t)) = {}
    BY <1>4 DEF KeepsParents, ReplacesParent
  <2> QED
    BY <1>1, <2>1, <2>2, InsertInFamily
<1> QED
  BY <1>3, <1>4 DEF AddTx

\* What leaves the pool takes its family along, or goes to the chain.
LEMMA LeaveInFamily ==
  ASSUME PoolInv, PoolClosed, FamiliesBounded, reorgs' = reorgs,
         Settled \subseteq Settled', Pending' \subseteq Pending,
         Pending' \cap Settled' = {},
         \A u \in Pending' : ParentsOf(u) \cap Pending \subseteq Pending' \cup Settled'
  PROVE  PoolClosed' /\ FamiliesBounded'
<1>1. IsFiniteSet(Pending)
  BY DEF PoolInv, PoolTyped, IsPool, Pending
<1>2. FamiliesBounded'
  BY <1>1, FamiliesShrink
<1>3. \A u \in Pending' : ParentsOf(u) \subseteq Pending' \cup Settled'
  BY DEF PoolClosed
<1>4. PoolClosed'
  BY <1>3 DEF PoolClosed, ParentsOf
<1> QED
  BY <1>2, <1>4

LEMMA EvictInFamily ==
  ASSUME PoolInv, ChainClosed, PoolClosed, FamiliesBounded, EvictWorst
  PROVE  ChainClosed' /\ PoolClosed' /\ FamiliesBounded'
<1>1. PICK worst \in Pending : pool' = Without(EvictedWith(worst))
  BY DEF EvictWorst
<1> DEFINE gone == WithDescendants({worst})
<1>2. /\ Pending' = Pending \ gone
      /\ utxo' = utxo /\ mined' = mined /\ reorgs' = reorgs
  BY <1>1 DEF EvictWorst, Pending, Without, EvictedWith, chainVars
<1>3. Settled' = Settled
  BY <1>2 DEF Settled
<1>4. ChainClosed'
  BY <1>2, <1>3 DEF ChainClosed, ParentsOf
<1>5. \A u \in Pending \ gone : ParentsOf(u) \cap gone = {}
  BY FamilyClosed
<1> HIDE DEF gone
<1>6. /\ Pending' \cap Settled' = {}
      /\ \A u \in Pending' : ParentsOf(u) \cap Pending \subseteq Pending' \cup Settled'
  BY <1>2, <1>3, <1>5 DEF PoolClosed
<1> QED
  BY <1>2, <1>3, <1>4, <1>6, LeaveInFamily

LEMMA ConnectInFamily ==
  ASSUME PoolInv, ChainClosed, PoolClosed, FamiliesBounded,
         NEW txs \in Seq(Plain), ParentsFirst(txs), Connect(txs)
  PROVE  ChainClosed' /\ PoolClosed' /\ FamiliesBounded'
<1>1. /\ mined' = Append(mined, txs) /\ reorgs' = reorgs
      /\ utxo' = ConnectTxs(utxo, txs, Height + 1)
      /\ pool' = Without(Elements(txs))
      /\ Connectable(txs)
  BY DEF Connect, LeavePool
<1> DEFINE new == Elements(txs)
<1>2. /\ Settled' = Settled \cup new /\ Pending' = Pending \ new
      /\ new \in SUBSET Plain /\ PoolTyped
  BY <1>1, SettledGrows, ElementsTyped DEF PoolInv, Pending, Without
<1>3. \A t \in new : Ins[t] \subseteq DOMAIN utxo \cup OutsOfAll(new)
  BY <1>1 DEF Connectable, ValidTx
<1>4. new \cap Settled = {}
  BY <1>2, <1>3, NeverAgain
<1>5. DOMAIN utxo' = (DOMAIN utxo \ SpentIn(txs)) \cup MadeAndKept(txs)
  BY <1>1 DEF ConnectTxs
<1>6. \A i \in DOMAIN txs : i \in Nat /\ i >= 1 /\ txs[i] \in new
  BY LenProperties DEF Elements
<1>7. \A p \in MadeAndKept(txs) : p[1] \in new
  BY <1>6 DEF MadeAndKept, OutsOf
<1>8. ASSUME NEW t \in Settled'
      PROVE  Ins[t] \cap DOMAIN utxo' = {} /\ ParentsOf(t) \subseteq Settled'
  <2>1. CASE t \in Settled
    <3>1. Ins[t] \cap DOMAIN utxo = {} /\ ParentsOf(t) \subseteq Settled
      BY <2>1 DEF ChainClosed
    <3>2. \A p \in Ins[t] : p[1] \notin new
      BY <1>4, <3>1 DEF ParentsOf
    <3> HIDE DEF new
    <3> QED
      BY <1>2, <1>5, <1>7, <3>1, <3>2
  <2>2. CASE t \in new
    <3>1. PICK i \in DOMAIN txs : t = txs[i]
      BY <2>2 DEF Elements
    <3>2. ASSUME NEW p \in Ins[t] PROVE p \notin DOMAIN utxo'
      <4>1. p \in SpentIn(txs)
        BY <1>6, <3>1, <3>2 DEF SpentIn, SpentFrom
      <4>2. ASSUME NEW j \in DOMAIN txs, p \in OutsOf(txs[j]) \ SpentFrom(txs, j + 1)
            PROVE  FALSE
        <5>1. txs[j] \in ParentsOf(txs[i])
          BY <3>1, <3>2, <4>2 DEF OutsOf, ParentsOf
        <5>2. j < i
          BY <5>1 DEF ParentsFirst
        <5>3. i >= j + 1
          BY <1>6, <5>2
        <5> QED
          BY <3>1, <3>2, <4>2, <5>3 DEF SpentFrom
      <4> QED
        BY <1>5, <4>1, <4>2 DEF MadeAndKept
    <3>3. ParentsOf(t) \subseteq Settled'
      <4>1. \A p \in Ins[t] : p[1] \in Settled \/ p[1] \in new
        BY <1>3, <2>2 DEF ChainClosed, OutsOfAll, OutsOf
      <4> QED
        BY <1>2, <4>1 DEF ParentsOf
    <3> QED
      BY <3>2, <3>3
  <2> HIDE DEF new
  <2> QED
    BY <1>2, <2>1, <2>2
<1> HIDE DEF new
<1>9. \A p \in DOMAIN utxo' : p[1] \in Settled'
  BY <1>2, <1>5, <1>7 DEF ChainClosed
<1>10. ChainClosed'
  BY <1>8, <1>9 DEF ChainClosed, ParentsOf
<1>11. /\ Pending' \cap Settled' = {}
       /\ \A u \in Pending' : ParentsOf(u) \cap Pending \subseteq Pending' \cup Settled'
  BY <1>2 DEF PoolClosed
<1> QED
  BY <1>1, <1>2, <1>10, <1>11, LeaveInFamily

\* What connects in order has its parents first, and nothing twice.
LEMMA OrderedParents ==
  ASSUME PoolTyped, ChainClosed, NEW txs \in Seq(Plain), Connectable(txs),
         ConnectsInOrder(txs)
  PROVE  ParentsFirst(txs)
<1> SUFFICES ASSUME NEW i \in DOMAIN txs, NEW j \in DOMAIN txs,
                    txs[j] \in ParentsOf(txs[i])
             PROVE  j < i
  BY DEF ParentsFirst
<1>1. /\ DOMAIN txs = 1..Len(txs) /\ Len(txs) \in Nat
      /\ i \in 1..Len(txs) /\ j \in 1..Len(txs)
  BY LenProperties
<1> DEFINE before(k) == {txs[m] : m \in 1..(k - 1)}
<1>2. \A k \in 1..Len(txs) : Elements(SubSeq(txs, 1, k - 1)) = before(k)
  BY BeforeIs
<1>3. \A k \in 1..Len(txs) :
        Ins[txs[k]] \subseteq (DOMAIN utxo \cup OutsOfAll(before(k)))
                              \ UNION {Ins[t] : t \in before(k)}
  BY <1>1, <1>2 DEF ConnectsInOrder
<1>4. PICK p \in Ins[txs[i]] : p[1] = txs[j]
  BY DEF ParentsOf
<1>5. p \notin DOMAIN utxo
  <2> DEFINE ts == Elements(txs)
  <2>1. ts \in SUBSET Plain
    BY ElementsTyped
  <2>2. \A t \in ts : Ins[t] \subseteq DOMAIN utxo \cup OutsOfAll(ts)
    BY DEF Connectable, ValidTx
  <2>3. txs[j] \in ts
    BY DEF Elements
  <2> HIDE DEF ts
  <2>4. txs[j] \notin Settled
    BY <2>1, <2>2, <2>3, NeverAgain
  <2> QED
    BY <1>4, <2>4 DEF ChainClosed
<1>6. p \in OutsOfAll(before(i))
  BY <1>1, <1>3, <1>4, <1>5
<1>7. PICK k \in 1..(i - 1) : p \in OutsOf(txs[k])
  BY <1>6 DEF OutsOfAll
<1>8. txs[k] = txs[j]
  BY <1>4, <1>7 DEF OutsOf
<1>9. SUFFICES ASSUME ~ (j < i) PROVE FALSE
  OBVIOUS
<1>10. k \in 1..(j - 1)
  BY <1>1, <1>7, <1>9
<1>11. txs[j] \in Plain
  BY <1>1, ElementOfSeq
<1>12. Ins[txs[j]] \cap Ins[txs[k]] = {}
  <2>1. txs[k] \in before(j)
    BY <1>10
  <2>2. Ins[txs[j]] \cap UNION {Ins[t] : t \in before(j)} = {}
    BY <1>1, <1>3
  <2> QED
    BY <2>1, <2>2
<1> QED
  BY <1>8, <1>11, <1>12, PoolAssumption DEF Plain

LEMMA TemplateStaysBuilt ==
  ASSUME TemplateBuilt, [Next]_vars
  PROVE  TemplateBuilt'
<1>1. \/ template' = template \/ template' = NoTemplate
      \/ template'.status = "built" \/ template'.txs = <<>>
  <2>1. CASE \E t \in Txs \ Coinbases : AddTx(t)
    BY <2>1 DEF AddTx, AddFresh, ReplaceByFee, Insert, asmVars
  <2>2. CASE Evict
    BY <2>2 DEF Evict, EvictWorst, EvictionDone, asmVars
  <2>3. CASE StartAssembly \/ Assemble
    BY <2>3 DEF StartAssembly, Assemble, PickBest, SkipInput, AddParentFirst,
                PlaceTx, GiveUpAssembly, FinishAssembly
  <2>4. CASE (\E txs \in Bodies : PeerBlock(txs)) \/ MinedBlock \/ DisconnectTip
    BY <2>4 DEF PeerBlock, MinedBlock, Connect, DisconnectTip
  <2>5. CASE UNCHANGED vars
    BY <2>5 DEF vars, asmVars
  <2> QED
    BY <2>1, <2>2, <2>3, <2>4, <2>5 DEF Next
<1> QED
  BY <1>1 DEF TemplateBuilt, NoTemplate

LEMMA InitFamily == Init /\ Orderly => FamInv
<1> SUFFICES ASSUME Init, Orderly PROVE FamInv
  OBVIOUS
<1>1. utxo = Coins /\ mined = <<>> /\ pool = <<>> /\ template = NoTemplate
  BY DEF Init
<1>2. ChainBelow(Below)
  BY DEF Orderly, Below
<1>3. Settled = Below
  BY <1>1, EmptySeq DEF Settled
<1>4. Pending = {}
  BY <1>1 DEF Pending
<1>5. ChainClosed
  BY <1>1, <1>2, <1>3 DEF ChainClosed, ChainBelow
<1>6. PoolClosed /\ FamiliesBounded
  BY <1>4 DEF PoolClosed, FamiliesBounded
<1>7. TemplateBuilt
  BY <1>1 DEF TemplateBuilt, NoTemplate
<1> QED
  BY <1>5, <1>6, <1>7 DEF FamInv

LEMMA NextFamInv ==
  ASSUME PoolInv, AsmInv, FamInv, [Next]_vars, [KeepsParents]_vars
  PROVE  FamInv'
<1>1. TemplateBuilt' /\ Orderly'
  BY TemplateStaysBuilt DEF FamInv, Orderly, ChainBelow, ParentsFirst, ParentsOf
<1>2. SUFFICES ASSUME reorgs' = 0
               PROVE  ChainClosed' /\ PoolClosed' /\ FamiliesBounded'
  BY <1>1 DEF FamInv
<1>3. CASE DisconnectTip
  <2>1. reorgs' = reorgs + 1 /\ reorgs \in Nat
    BY <1>3 DEF DisconnectTip, PoolInv, PoolTyped
  <2> QED
    BY <1>2, <2>1
<1>4. ASSUME UNCHANGED <<utxo, mined, reorgs, pool>>
      PROVE  ChainClosed' /\ PoolClosed' /\ FamiliesBounded'
  <2>1. reorgs = 0 /\ ChainClosed /\ PoolClosed /\ FamiliesBounded
    BY <1>2, <1>4 DEF FamInv
  <2>2. Pending' = Pending /\ Settled' = Settled
    BY <1>4 DEF Pending, Settled
  <2>3. IsFiniteSet(Pending)
    BY DEF PoolInv, PoolTyped, IsPool, Pending
  <2>4. FamiliesBounded'
    BY <1>4, <2>1, <2>2, <2>3, FamiliesShrink
  <2> QED
    BY <1>4, <2>1, <2>2, <2>4 DEF ChainClosed, PoolClosed, ParentsOf
<1>5. CASE UNCHANGED vars
  BY <1>4, <1>5 DEF vars, chainVars, poolVars
<1>6. CASE EvictionDone
  BY <1>4, <1>6 DEF EvictionDone, chainVars, poolVars
<1>7. CASE StartAssembly \/ Assemble
  BY <1>4, <1>7, AssemblyTyped DEF chainVars, poolVars
<1>8. CASE \E t \in Txs \ Coinbases : AddTx(t)
  <2>1. PICK t \in Plain : AddTx(t)
    BY <1>8 DEF Plain
  <2>2. stage' = "evict" /\ stage = "idle" /\ reorgs' = reorgs
    BY <2>1 DEF AddTx, AddFresh, ReplaceByFee, Insert, chainVars
  <2>3. KeepsParents
    BY <2>2 DEF vars
  <2>4. reorgs = 0 /\ ChainClosed /\ PoolClosed /\ FamiliesBounded
    BY <1>2, <2>2 DEF FamInv
  <2> QED
    BY <2>1, <2>3, <2>4, AddInFamily
<1>9. CASE EvictWorst
  <2>1. reorgs' = reorgs
    BY <1>9 DEF EvictWorst, chainVars
  <2>2. ChainClosed /\ PoolClosed /\ FamiliesBounded
    BY <1>2, <2>1 DEF FamInv
  <2> QED
    BY <1>9, <2>2, EvictInFamily
<1>10. CASE (\E txs \in Bodies : PeerBlock(txs)) \/ MinedBlock
  <2>1. PICK txs \in Seq(Plain) : /\ Connect(txs)
                                  /\ txs \in Bodies \/ txs = template.txs
    BY <1>10, BlocksTyped DEF PeerBlock, MinedBlock, PoolInv
  <2>2. reorgs' = reorgs /\ Connectable(txs)
    BY <2>1 DEF Connect
  <2>3. /\ ChainClosed /\ PoolClosed /\ FamiliesBounded
        /\ Orderly /\ TemplateBuilt /\ PoolTyped
    BY <1>2, <2>2 DEF FamInv, PoolInv
  <2>4. ParentsFirst(txs)
    <3>1. CASE txs \in Bodies
      BY <2>3, <3>1 DEF Orderly
    <3>2. CASE txs = template.txs /\ template.status = "built"
      <4>1. ConnectsInOrder(txs)
        BY <1>2, <2>2, <3>2 DEF AsmInv, TemplateConnects
      <4> QED
        BY <2>2, <2>3, <4>1, OrderedParents
    <3>3. CASE txs = template.txs /\ template.status # "built"
      <4>1. txs = <<>>
        BY <2>3, <3>3 DEF TemplateBuilt
      <4> QED
        BY <4>1, EmptySeq DEF ParentsFirst
    <3> QED
      BY <2>1, <3>1, <3>2, <3>3
  <2> QED
    BY <2>1, <2>3, <2>4, ConnectInFamily
<1> QED
  BY <1>3, <1>5, <1>6, <1>7, <1>8, <1>9, <1>10 DEF Next, Evict

(***************************************************************************)
(* Until a reorganisation no pending transaction has more descendants than *)
(* MAX_DESCENDANT_COUNT leaves, though violates_chain_limits is asked only *)
(* when a descendant comes (mempool.cpp:486): nothing that was mined comes *)
(* back below it.  It takes blocks with parents first and replacements     *)
(* that spend nothing they push out; without either the bound is lost.     *)
(***************************************************************************)
THEOREM FamiliesStayBounded ==
  Spec /\ Orderly /\ [][KeepsParents]_vars => []FamiliesBounded
<1>1. Init /\ Orderly => FamInv
  BY InitFamily
<1>2. Init => AsmInv
  BY DEF Init, NoTemplate, AsmInv, TemplateConnects
<1>3. PoolInv /\ AsmInv /\ [Next]_vars => AsmInv'
  BY NextAsm
<1>4. PoolInv /\ AsmInv /\ FamInv /\ [Next]_vars /\ [KeepsParents]_vars
        => FamInv'
  BY NextFamInv
<1>5. PoolInv /\ FamInv => FamiliesBounded
  BY DEF FamInv, FamiliesBounded
<1> QED
  BY <1>1, <1>2, <1>3, <1>4, <1>5, Invariance, PTL DEF Spec

=============================================================================
