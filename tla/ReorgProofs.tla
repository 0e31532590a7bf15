---------------------------- MODULE ReorgProofs -----------------------------
(***************************************************************************)
(* Proofs about the reorganisations of Chain: a rollback gives back the    *)
(* chain it took apart, so the settled chain refines BestChain, no block   *)
(* is forgotten, and no orphan is left behind.                             *)
(***************************************************************************)
EXTENDS CoinsProofs

-----------------------------------------------------------------------------
(* Blocks that fit on a chain, whatever the state of the node. *)

\* get_median_time_past and get_next_work_required on the tip of a chain.
TimeAfter(c) == IF MtpWindow > Len(c) THEN 0 ELSE MedianTime(c, MtpWindow)

BitsAfter(c) ==
  IF Len(c) % PeriodBlocks # 0
  THEN Bits[c[Len(c)]]
  ELSE LET first == Max({Len(c) - PeriodBlocks + 1, 1})
       IN  Retarget(Bits[c[Len(c)]], Stamp[c[Len(c)]] - Stamp[c[first]])

\* What ValidOnTip asks of the transactions of a block.
PaysRight(b, c, pool) ==
  LET txs == NonCoinbase(TxsOf[b])
  IN  /\ \A t \in txs : ValidTx(t, CoinsOf(c), OutsOfAll(txs), Len(c))
      /\ TotalValue(OutsOf(TxsOf[b][1]))
           <= Subsidy(Len(c)) + TotalFees(txs, CoinsOf(c), pool)

\* connect_block puts the block on this chain if its transactions are pending.
Fits(height, time, b, c) ==
  /\ b \in Sound /\ b # Genesis /\ height[b] = Len(c) /\ Parent[b] = c[Len(c)]
  /\ Stamp[b] - time <= MaxFuture /\ Stamp[b] > TimeAfter(c)
  /\ Bits[b] = BitsAfter(c)
  /\ PaysRight(b, c, NonCoinbase(TxsOf[b]))
  /\ FindsCoins(c, b)

Upto(c, n) == SubSeq(c, 1, n)

\* A chain that could be connected block by block.
Good(height, time, c) ==
  /\ c \in Seq(Blocks) /\ c # <<>> /\ c[1] = Genesis
  /\ \A i \in 1 .. Len(c) - 1 : Fits(height, time, c[i + 1], Upto(c, i))

-----------------------------------------------------------------------------
(* Prefixes. *)

LEMMA UptoIs ==
  ASSUME NEW c \in Seq(Blocks), NEW n \in Nat, n <= Len(c)
  PROVE  /\ Upto(c, n) \in Seq(Blocks) /\ Len(Upto(c, n)) = n
         /\ \A i \in 1 .. n : Upto(c, n)[i] = c[i]
<1> DEFINE one == 1
           s == SubSeq(c, one, n)
<1>1. /\ one \in Nat \ {0} /\ n \in Int /\ n - one + 1 = n
      /\ (IF one <= n THEN n - one + 1 ELSE 0) = n
      /\ \A i \in 1 .. n : one + i - 1 = i
  OBVIOUS
<1> HIDE DEF one
<1>2. /\ s \in Seq(Blocks) /\ Len(s) = IF one <= n THEN n - one + 1 ELSE 0
      /\ \A i \in 1 .. n - one + 1 : s[i] = c[one + i - 1]
  BY <1>1, SubSeqTyped
<1> HIDE DEF s
<1>3. s \in Seq(Blocks) /\ Len(s) = n /\ \A i \in 1 .. n : s[i] = c[i]
  BY <1>1, <1>2
<1> QED
  BY <1>3, Zenon DEF s, one, Upto

LEMMA UptoSame ==
  ASSUME NEW c \in Seq(Blocks), NEW e \in Seq(Blocks), NEW n \in Nat,
         n <= Len(c), n <= Len(e), \A i \in 1 .. n : c[i] = e[i]
  PROVE  Upto(c, n) = Upto(e, n)
<1>1. /\ Upto(c, n) \in Seq(Blocks) /\ Upto(e, n) \in Seq(Blocks)
      /\ Len(Upto(c, n)) = n /\ Len(Upto(e, n)) = n
      /\ \A i \in 1 .. n : Upto(c, n)[i] = Upto(e, n)[i]
  BY UptoIs
<1> QED
  BY <1>1, SeqEqual

LEMMA UptoAll ==
  ASSUME NEW c \in Seq(Blocks)
  PROVE  Upto(c, Len(c)) = c
  BY SubSeqFull DEF Upto

LEMMA UptoUpto ==
  ASSUME NEW c \in Seq(Blocks), NEW n \in Nat, n <= Len(c), NEW m \in Nat, m <= n
  PROVE  Upto(Upto(c, n), m) = Upto(c, m)
<1>1. /\ Upto(c, n) \in Seq(Blocks) /\ Len(Upto(c, n)) = n
      /\ \A i \in 1 .. n : Upto(c, n)[i] = c[i]
  BY UptoIs
<1>2. Len(c) \in Nat
  BY LenProperties
<1>3. m <= Len(c) /\ \A i \in 1 .. m : i \in 1 .. n
  BY <1>2
<1> QED
  BY <1>1, <1>3, UptoSame

\* A prefix of one chain before another.
LEMMA JoinIs ==
  ASSUME NEW c \in Seq(Blocks), NEW n \in Nat, n <= Len(c), NEW o \in Seq(Blocks)
  PROVE  /\ Upto(c, n) \o o \in Seq(Blocks)
         /\ Len(o) \in Nat /\ Len(Upto(c, n) \o o) = n + Len(o)
         /\ \A i \in 1 .. n : (Upto(c, n) \o o)[i] = c[i]
         /\ \A i \in 1 .. Len(o) : (Upto(c, n) \o o)[n + i] = o[i]
<1> DEFINE p == Upto(c, n)
           j == p \o o
           m == Len(o)
<1>1. p \in Seq(Blocks) /\ Len(p) = n /\ \A i \in 1 .. n : p[i] = c[i]
  BY UptoIs
<1>2. m \in Nat
  BY LenProperties
<1> HIDE DEF p
<1>3. /\ j \in Seq(Blocks) /\ Len(j) = Len(p) + Len(o)
      /\ \A i \in 1 .. Len(p) + Len(o) : j[i] = IF i <= Len(p) THEN p[i] ELSE o[i - Len(p)]
  BY <1>1, ConcatProperties
<1> HIDE DEF j
<1>4. Len(j) = n + m /\ \A i \in 1 .. n + m : j[i] = IF i <= n THEN p[i] ELSE o[i - n]
  BY <1>1, <1>3
<1> HIDE DEF m
<1>5. \A i \in 1 .. n : j[i] = c[i]
  BY <1>1, <1>2, <1>4
<1>6. ASSUME NEW i \in 1 .. m
      PROVE  j[n + i] = o[i]
  <2>1. n + i \in 1 .. n + m /\ ~(n + i <= n) /\ (n + i) - n = i
    BY <1>2
  <2> QED
    BY <1>4, <2>1
<1> QED
  BY <1>2, <1>3, <1>4, <1>5, <1>6 DEF j, p, m

-----------------------------------------------------------------------------
(* Chains that could be connected block by block. *)

LEMMA GoodAppend ==
  ASSUME NEW h, NEW t, NEW c, Good(h, t, c), NEW b \in Blocks, Fits(h, t, b, c)
  PROVE  Good(h, t, Append(c, b))
<1> DEFINE e == Append(c, b)
           n == Len(c)
<1>1. c \in Seq(Blocks) /\ c # <<>> /\ c[1] = Genesis
  BY DEF Good
<1>2. /\ n \in Nat \ {0} /\ e \in Seq(Blocks) /\ Len(e) = n + 1
      /\ \A i \in 1 .. n : e[i] = c[i] /\ c[i] \in Blocks
  BY <1>1, Longer
<1>3. e[n + 1] = b /\ e # <<>>
  BY <1>1, AppendProperties
<1>4. \A i \in 1 .. n - 1 : Fits(h, t, c[i + 1], Upto(c, i))
  BY DEF Good
<1> HIDE DEF e, n
<1>5. ASSUME NEW i \in 1 .. n
      PROVE  Upto(e, i) = Upto(c, i)
  <2>1. i \in Nat /\ i <= n /\ i <= n + 1 /\ \A k \in 1 .. i : k \in 1 .. n
    BY <1>2
  <2> QED
    BY <1>1, <1>2, <2>1, UptoSame DEF n
<1>6. ASSUME NEW i \in 1 .. (n + 1) - 1
      PROVE  Fits(h, t, e[i + 1], Upto(e, i))
  <2>1. i \in 1 .. n /\ (i = n \/ (i \in 1 .. n - 1 /\ i + 1 \in 1 .. n))
    BY <1>2
  <2>2. CASE i = n
    <3>1. Upto(e, i) = c
      BY <1>1, <1>5, <2>1, <2>2, UptoAll DEF n
    <3> QED
      BY <1>3, <2>2, <3>1
  <2>3. CASE i \in 1 .. n - 1 /\ i + 1 \in 1 .. n
    BY <1>2, <1>4, <1>5, <2>1, <2>3
  <2> QED
    BY <2>1, <2>2, <2>3
<1>7. e[1] = Genesis
  BY <1>1, <1>2
<1> QED
  BY <1>2, <1>3, <1>6, <1>7 DEF Good, e

LEMMA GoodPrefix ==
  ASSUME NEW h, NEW t, NEW c, Good(h, t, c), NEW n \in 1 .. Len(c)
  PROVE  Good(h, t, Upto(c, n))
<1> DEFINE e == Upto(c, n)
<1>1. c \in Seq(Blocks) /\ c[1] = Genesis /\ Len(c) \in Nat
  BY LenProperties DEF Good
<1>2. e \in Seq(Blocks) /\ Len(e) = n /\ \A i \in 1 .. n : e[i] = c[i]
  BY <1>1, UptoIs
<1>3. \A i \in 1 .. n - 1 : Upto(e, i) = Upto(c, i)
  BY <1>1, UptoUpto
<1> HIDE DEF e
<1>4. \A i \in 1 .. n - 1 : i + 1 \in 1 .. n /\ i \in 1 .. Len(c) - 1
  BY <1>1
<1>5. e # <<>>
  <2>1. Len(e) # 0
    BY <1>2
  <2> QED
    BY <2>1, EmptySeq
<1> QED
  BY <1>1, <1>2, <1>3, <1>4, <1>5 DEF Good, e

LEMMA GoodFits ==
  ASSUME NEW h, NEW t, NEW c, Good(h, t, c), NEW n \in 1 .. Len(c) - 1
  PROVE  Fits(h, t, c[n + 1], Upto(c, n))
  BY DEF Good

\* It is linked and at its heights.
LEMMA GoodPlaced ==
  ASSUME NEW h, NEW t, NEW c, Good(h, t, c), h[Genesis] = 0
  PROVE  /\ Len(c) \in Nat \ {0} /\ DOMAIN c = 1 .. Len(c)
         /\ \A i \in 1 .. Len(c) : c[i] \in Blocks /\ h[c[i]] = i - 1
         /\ \A i \in 2 .. Len(c) :
              /\ c[i] # Genesis /\ Parent[c[i]] = c[i - 1] /\ c[i] \in Sound
              /\ Fits(h, t, c[i], Upto(c, i - 1))
<1> DEFINE n == Len(c)
<1>1. c \in Seq(Blocks) /\ c # <<>> /\ c[1] = Genesis
  BY DEF Good
<1>2. n \in Nat \ {0} /\ DOMAIN c = 1 .. n /\ \A i \in 1 .. n : c[i] \in Blocks
  BY <1>1, LenProperties, ElementOfSeq, EmptySeq
<1>3. ASSUME NEW i \in 2 .. n
      PROVE  /\ Fits(h, t, c[i], Upto(c, i - 1))
             /\ Len(Upto(c, i - 1)) = i - 1 /\ Upto(c, i - 1)[i - 1] = c[i - 1]
  <2>1. /\ i - 1 \in 1 .. n - 1 /\ (i - 1) + 1 = i /\ i - 1 \in Nat /\ i - 1 <= n
        /\ i - 1 \in 1 .. i - 1
    BY <1>2
  <2>2. Fits(h, t, c[(i - 1) + 1], Upto(c, i - 1))
    BY <2>1 DEF Good
  <2>3. Len(Upto(c, i - 1)) = i - 1 /\ \A k \in 1 .. i - 1 : Upto(c, i - 1)[k] = c[k]
    BY <1>1, <2>1, UptoIs
  <2> QED
    BY <2>1, <2>2, <2>3
<1>4. \A i \in 2 .. n : /\ c[i] # Genesis /\ Parent[c[i]] = c[i - 1] /\ c[i] \in Sound
                        /\ h[c[i]] = i - 1
  BY <1>3 DEF Fits
<1>5. \A i \in 1 .. n : i = 1 \/ i \in 2 .. n
  BY <1>2
<1>6. h[c[1]] = 1 - 1
  BY <1>1
<1> HIDE DEF n
<1>7. \A i \in 1 .. n : h[c[i]] = i - 1
  BY <1>4, <1>5, <1>6
<1> QED
  BY <1>2, <1>3, <1>4, <1>7 DEF n

\* A block is on it once.
LEMMA GoodOnce ==
  ASSUME NEW h, NEW t, NEW c, Good(h, t, c), h[Genesis] = 0,
         NEW i \in 1 .. Len(c), NEW j \in 1 .. Len(c), c[i] = c[j]
  PROVE  i = j
<1>1. Len(c) \in Nat /\ i - 1 = j - 1
  BY GoodPlaced
<1> QED
  BY <1>1

\* Time only makes a block fit better.
LEMMA GoodLater ==
  ASSUME NEW h, NEW t \in Nat, NEW u \in Nat, t <= u, NEW c, Good(h, t, c)
  PROVE  Good(h, u, c)
<1>1. ASSUME NEW b \in Blocks, NEW e, Fits(h, t, b, e)
      PROVE  Fits(h, u, b, e)
  <2>1. Stamp[b] \in Nat /\ MaxFuture \in Nat
    BY BlockAssumption, ParameterAssumption
  <2>2. Stamp[b] - t <= MaxFuture
    BY <1>1 DEF Fits
  <2>3. Stamp[b] - u <= MaxFuture
    BY <2>1, <2>2
  <2> QED
    BY <1>1, <2>3 DEF Fits
<1>2. c \in Seq(Blocks)
  BY DEF Good
<1>3. Len(c) \in Nat
  BY <1>2, LenProperties
<1>4. \A i \in 1 .. Len(c) - 1 : i + 1 \in 1 .. Len(c)
  BY <1>3
<1>5. \A i \in 1 .. Len(c) - 1 : c[i + 1] \in Blocks
  BY <1>2, <1>4, ElementOfSeq
<1> QED
  BY <1>1, <1>5 DEF Good

-----------------------------------------------------------------------------
(* Values and fees. *)

Made == OutsOfAll(Txs)

LEMMA OutsFinite ==
  ASSUME NEW t \in Txs
  PROVE  OutsOf(t) \subseteq Made /\ IsFiniteSet(OutsOf(t))
<1> DEFINE n == Len(Outs[t])
           f == [i \in 1..n |-> <<t, i>>]
<1>1. Outs[t] \in Seq(Nat)
  BY TxAssumption
<1>2. n \in Nat /\ DOMAIN Outs[t] = 1..n
  BY <1>1, LenProperties
<1>3. OutsOf(t) = {<<t, i>> : i \in 1..n}
  BY <1>2 DEF OutsOf
<1>4. f \in Surjection(1..n, OutsOf(t))
  BY <1>3 DEF Surjection
<1>5. IsFiniteSet(1..n)
  BY <1>2, FS_Interval
<1>6. IsFiniteSet(OutsOf(t))
  BY <1>4, <1>5, FS_Surjection
<1> QED
  BY <1>6 DEF Made, OutsOfAll

LEMMA ValueTyped ==
  ASSUME NEW p \in Made
  PROVE  Value(p) \in Nat
<1>1. PICK t \in Txs : p \in OutsOf(t)
  BY DEF Made, OutsOfAll
<1>2. PICK i \in DOMAIN Outs[t] : p = <<t, i>>
  BY <1>1 DEF OutsOf
<1>3. Outs[t] \in Seq(Nat)
  BY TxAssumption
<1>4. Outs[t][i] \in Nat
  BY <1>3, LenProperties, ElementOfSeq
<1> QED
  BY <1>2, <1>4 DEF Value

Values(S) == [p \in S |-> Value(p)]

LEMMA TotalValueIs ==
  ASSUME NEW S, IsFiniteSet(S)
  PROVE  TotalValue(S) = SumOver(Values(S), S)
<1> DEFINE f == Values(S)
           Fold(g) == g = [s \in SUBSET S |->
                             IF s = {} THEN 0
                             ELSE Value(First(s)) + g[Others(s)]]
           h == CHOOSE g : Fold(g)
<1>1. TotalValue(S) = h[S]
  BY DEF TotalValue, MapThenSumSet, MapThenFoldSet, First, Others
<1>2. PICK g : Folds(f, S, g)
  BY FoldsExist
<1>3. \A s \in SUBSET S : s # {} => f[First(s)] = Value(First(s))
  BY FirstInside DEF Values
<1>4. Fold(g)
  BY <1>2, <1>3 DEF Folds
<1>5. Fold(h)
  BY <1>4
<1>6. Folds(f, S, h)
  BY <1>3, <1>5 DEF Folds
<1> HIDE DEF h
<1> QED
  BY <1>1, <1>6, FoldIsSum

\* The value of outputs that transactions make.
LEMMA TotalValueGrows ==
  ASSUME NEW T \in SUBSET Made, IsFiniteSet(T), NEW S \in SUBSET T
  PROVE  /\ TotalValue(S) \in Nat /\ TotalValue(T) \in Nat
         /\ TotalValue(S) <= TotalValue(T)
<1> DEFINE f == Values(T)
           g == Values(S)
<1>1. IsFiniteSet(S)
  BY FS_Subset
<1>2. /\ \A p \in T : f[p] \in Nat
      /\ \A p \in S : g[p] = f[p] /\ f[p] \in Nat
  BY ValueTyped DEF Values
<1>3. TotalValue(S) = SumOver(g, S) /\ TotalValue(T) = SumOver(f, T)
  BY <1>1, TotalValueIs
<1> HIDE DEF f, g
<1>4. SumOver(g, S) = SumOver(f, S)
  BY <1>1, <1>2, SumSame
<1>5. SumOver(f, S) <= SumOver(f, T) /\ SumOver(f, S) \in Nat /\ SumOver(f, T) \in Nat
  BY <1>1, <1>2, SumGrows, SumTyped
<1> QED
  BY <1>3, <1>4, <1>5

FeesIn(ts, coins, pool) == [t \in ts |-> Fees(t, coins, pool)]

LEMMA TotalFeesIs ==
  ASSUME NEW ts, IsFiniteSet(ts), NEW coins, NEW pool
  PROVE  TotalFees(ts, coins, pool) = SumOver(FeesIn(ts, coins, pool), ts)
<1> DEFINE f == FeesIn(ts, coins, pool)
           Fold(g) == g = [s \in SUBSET ts |->
                             IF s = {} THEN 0
                             ELSE Fees(First(s), coins, pool) + g[Others(s)]]
           h == CHOOSE g : Fold(g)
<1>1. TotalFees(ts, coins, pool) = h[ts]
  BY DEF TotalFees, MapThenSumSet, MapThenFoldSet, First, Others
<1>2. PICK g : Folds(f, ts, g)
  BY FoldsExist
<1>3. \A s \in SUBSET ts : s # {} => f[First(s)] = Fees(First(s), coins, pool)
  BY FirstInside DEF FeesIn
<1>4. Fold(g)
  BY <1>2, <1>3 DEF Folds
<1>5. Fold(h)
  BY <1>4
<1>6. Folds(f, ts, h)
  BY <1>3, <1>5 DEF Folds
<1> HIDE DEF h
<1> QED
  BY <1>1, <1>6, FoldIsSum

LEMMA BlockTxs ==
  ASSUME NEW b \in Blocks
  PROVE  /\ NonCoinbase(TxsOf[b]) \subseteq Elements(TxsOf[b])
         /\ NonCoinbase(TxsOf[b]) \in SUBSET Txs
         /\ IsFiniteSet(Elements(TxsOf[b])) /\ IsFiniteSet(NonCoinbase(TxsOf[b]))
<1> DEFINE s == TxsOf[b]
           f == [i \in 1 .. Len(s) |-> s[i]]
<1>1. s \in Seq(Txs) /\ Elements(s) \subseteq Txs
  BY BlockTyped
<1>2. Len(s) \in Nat /\ DOMAIN s = 1 .. Len(s)
  BY <1>1, LenProperties
<1>3. f \in Surjection(1 .. Len(s), Elements(s))
  BY <1>2 DEF Elements, Surjection
<1>4. IsFiniteSet(Elements(s))
  BY <1>2, <1>3, FS_Interval, FS_Surjection
<1>5. NonCoinbase(s) \subseteq Elements(s)
  BY DEF NonCoinbase
<1> QED
  BY <1>1, <1>4, <1>5, FS_Subset

\* Transactions whose inputs are all found pay all their fees, and with fewer
\* found they pay no more.
LEMMA FeesOfFound ==
  ASSUME NEW ts \in SUBSET Txs, IsFiniteSet(ts), NEW coins,
         \A t \in ts : Ins[t] \subseteq DOMAIN coins \cup OutsOfAll(ts),
         \A t \in ts : Ins[t] \subseteq Made, NEW pool
  PROVE  /\ TotalFees(ts, coins, pool) <= TotalFees(ts, coins, ts)
         /\ ts \subseteq pool => TotalFees(ts, coins, pool) = TotalFees(ts, coins, ts)
         /\ TotalFees(ts, coins, pool) \in Nat /\ TotalFees(ts, coins, ts) \in Nat
<1> DEFINE some == FeesIn(ts, coins, pool)
           all  == FeesIn(ts, coins, ts)
<1>1. ASSUME NEW t \in ts
      PROVE  /\ some[t] \in Nat /\ all[t] \in Nat /\ some[t] <= all[t]
             /\ ts \subseteq pool => some[t] = all[t]
  <2> DEFINE X == Ins[t] \cap (DOMAIN coins \cup OutsOfAll(pool))
             v == TotalValue(OutsOf(t))
  <2>1. Ins[t] \cap (DOMAIN coins \cup OutsOfAll(ts)) = Ins[t]
    OBVIOUS
  <2>2. IsFiniteSet(Ins[t]) /\ Ins[t] \in SUBSET Made /\ X \in SUBSET Ins[t]
    BY TxAssumption
  <2>3. /\ TotalValue(X) \in Nat /\ TotalValue(Ins[t]) \in Nat
        /\ TotalValue(X) <= TotalValue(Ins[t])
    BY <2>2, TotalValueGrows
  <2>4. v \in Nat
    BY OutsFinite, TotalValueGrows
  <2>5. ts \subseteq pool => X = Ins[t]
    <3>1. ts \subseteq pool => OutsOfAll(ts) \subseteq OutsOfAll(pool)
      BY DEF OutsOfAll
    <3> QED
      BY <3>1
  <2>6. /\ some[t] = IF TotalValue(X) < v THEN 0 ELSE TotalValue(X) - v
        /\ all[t] = IF TotalValue(Ins[t]) < v THEN 0 ELSE TotalValue(Ins[t]) - v
    BY <2>1 DEF FeesIn, Fees
  <2> HIDE DEF X, v, some, all
  <2> QED
    BY <2>3, <2>4, <2>5, <2>6
<1>2. /\ TotalFees(ts, coins, pool) = SumOver(some, ts)
      /\ TotalFees(ts, coins, ts) = SumOver(all, ts)
  BY TotalFeesIs
<1> HIDE DEF some, all
<1>3. SumOver(some, ts) <= SumOver(all, ts)
  BY <1>1, SumBelow
<1>4. ts \subseteq pool => SumOver(some, ts) = SumOver(all, ts)
  <2>1. ASSUME ts \subseteq pool
        PROVE  \A t \in ts : some[t] = all[t]
    BY <1>1, <2>1
  <2> QED
    BY <2>1, SumSame
<1>5. SumOver(some, ts) \in Nat /\ SumOver(all, ts) \in Nat
  BY <1>1, SumTyped
<1> QED
  BY <1>2, <1>3, <1>4, <1>5

-----------------------------------------------------------------------------
(* A block fits on the active chain when connect_block takes it. *)

LEMMA SubsidyTyped ==
  ASSUME NEW n \in Nat
  PROVE  Subsidy(n) \in Nat
<1> DEFINE d == n \div HalvingBlocks
           q == TwoTo[d]
<1>1. HalvingBlocks \in Nat \ {0} /\ InitialSubsidy \in Nat
  BY ParameterAssumption
<1>2. d \in Nat
  BY <1>1
<1> HIDE DEF d
<1>3. q \in Nat \ {0}
  BY <1>2, PowersOfTwo
<1> HIDE DEF q
<1>4. InitialSubsidy \div q \in Nat
  BY <1>1, <1>3
<1> QED
  BY <1>4 DEF Subsidy, d, q

LEMMA MinedTyped ==
  ASSUME NEW c \in Seq(Blocks), NEW n \in Nat, n <= Len(c)
  PROVE  MinedTo(c, n) \subseteq Txs /\ Unspent(MinedTo(c, n)) \subseteq Made
<1>1. Len(c) \in Nat
  BY LenProperties
<1>2. \A i \in 2 .. n : c[i] \in Blocks
  <2>1. \A i \in 2 .. n : i \in 1 .. Len(c)
    BY <1>1
  <2> QED
    BY <2>1, ElementOfSeq
<1>3. \A i \in 2 .. n : TxsAt(c, i) \subseteq Txs
  BY <1>2, BlockTyped DEF TxsAt
<1>4. MinedTo(c, n) \subseteq Txs
  BY <1>3 DEF MinedTo
<1> QED
  BY <1>4 DEF Unspent, OutsOfAll, Made

\* What its transactions spend was made, and its coinbase has a value.
LEMMA BlockValues ==
  ASSUME NEW c \in Seq(Blocks), NEW b \in Blocks, b \in Sound, FindsCoins(c, b)
  PROVE  /\ \A t \in Elements(TxsOf[b]) : Ins[t] \subseteq Made
         /\ TxsOf[b][1] \in Elements(TxsOf[b]) /\ TxsOf[b][1] \in Txs
         /\ TotalValue(OutsOf(TxsOf[b][1])) \in Nat
<1>1. Len(c) \in Nat
  BY LenProperties
<1>2. Unspent(MinedTo(c, Len(c))) \subseteq Made
  BY <1>1, MinedTyped
<1>3. Elements(TxsOf[b]) \subseteq Txs /\ TxsOf[b] \in Seq(Txs)
  BY BlockTyped
<1>4. OutsOfAll(Elements(TxsOf[b])) \subseteq Made
  BY <1>3 DEF OutsOfAll, Made
<1>5. \A t \in Elements(TxsOf[b]) : Ins[t] \subseteq Made
  BY <1>2, <1>4 DEF FindsCoins
<1>6. 1 \in DOMAIN TxsOf[b]
  <2>1. TxsOf[b] # <<>>
    BY SoundAssumption
  <2>2. Len(TxsOf[b]) \in Nat \ {0} /\ DOMAIN TxsOf[b] = 1 .. Len(TxsOf[b])
    BY <1>3, <2>1, EmptySeq, LenProperties
  <2> QED
    BY <2>2
<1>7. TxsOf[b][1] \in Elements(TxsOf[b]) /\ TxsOf[b][1] \in Txs
  BY <1>3, <1>6 DEF Elements
<1>8. TotalValue(OutsOf(TxsOf[b][1])) \in Nat
  BY <1>7, OutsFinite, TotalValueGrows
<1> QED
  BY <1>5, <1>7, <1>8

\* The fees of a block whose transactions are valid: the pool may only add to
\* what is found.
LEMMA FeesOfValid ==
  ASSUME NEW c \in Seq(Blocks), NEW b \in Blocks, b \in Sound, FindsCoins(c, b),
         \A t \in NonCoinbase(TxsOf[b]) :
           ValidTx(t, CoinsOf(c), OutsOfAll(NonCoinbase(TxsOf[b])), Len(c)),
         NEW pool
  PROVE  LET txs == NonCoinbase(TxsOf[b])
         IN  /\ TotalFees(txs, CoinsOf(c), pool) <= TotalFees(txs, CoinsOf(c), txs)
             /\ txs \subseteq pool => TotalFees(txs, CoinsOf(c), pool) = TotalFees(txs, CoinsOf(c), txs)
             /\ TotalFees(txs, CoinsOf(c), pool) \in Nat
             /\ TotalFees(txs, CoinsOf(c), txs) \in Nat
<1> DEFINE txs == NonCoinbase(TxsOf[b])
           coins == CoinsOf(c)
<1>1. txs \in SUBSET Txs /\ IsFiniteSet(txs) /\ txs \subseteq Elements(TxsOf[b])
  BY BlockTxs
<1>2. \A t \in txs : Ins[t] \subseteq DOMAIN coins \cup OutsOfAll(txs)
  BY DEF ValidTx
<1>3. \A t \in txs : Ins[t] \subseteq Made
  BY <1>1, BlockValues
<1> HIDE DEF txs, coins
<1>4. /\ TotalFees(txs, coins, pool) <= TotalFees(txs, coins, txs)
      /\ txs \subseteq pool => TotalFees(txs, coins, pool) = TotalFees(txs, coins, txs)
      /\ TotalFees(txs, coins, pool) \in Nat /\ TotalFees(txs, coins, txs) \in Nat
  BY <1>1, <1>2, <1>3, FeesOfFound
<1> QED
  BY <1>4 DEF txs, coins

LEMMA RulesOfTip ==
  /\ MedianTimePast = TimeAfter(activeChain)
  /\ NextBits = BitsAfter(activeChain)
  BY DEF MedianTimePast, TimeAfter, NextBits, BitsAfter, Tip

LEMMA ExtensionFits ==
  ASSUME IInv, NEW height, Orderly(height), CoinInv(height),
         NEW b \in Blocks, ~OnActive(b), ExtendsActive(b)
  PROVE  Fits(height, now, b, activeChain)
<1> DEFINE txs == NonCoinbase(TxsOf[b])
           n == Len(activeChain)
           value == TotalValue(OutsOf(TxsOf[b][1]))
           some == TotalFees(txs, CoinsOf(activeChain), mempool)
           all == TotalFees(txs, CoinsOf(activeChain), txs)
<1>1. FindsCoins(activeChain, b) /\ b \in Sound /\ height[b] = n
  BY ExtensionFindsCoins
<1>2. /\ Stamp[b] - now <= MaxFuture /\ Stamp[b] > TimeAfter(activeChain)
      /\ Parent[b] = activeChain[n] /\ ValidOnTip(b) /\ Bits[b] = BitsAfter(activeChain)
  BY RulesOfTip DEF ExtendsActive, Timely, ValidOnTip, Tip
<1>3. b # Genesis
  BY ActiveChain
<1>4. activeChain \in Seq(Blocks) /\ n \in Nat
  BY ActiveChain DEF IInv, TypeOK, ChainTypeOK
<1>5. /\ \A t \in txs : ValidTx(t, CoinsOf(activeChain), OutsOfAll(txs), n)
      /\ value <= Subsidy(n) + some
  BY <1>2 DEF ValidOnTip, CoinInv
<1>6. some <= all /\ some \in Nat /\ all \in Nat
  BY <1>1, <1>4, <1>5, FeesOfValid
<1>7. value \in Nat /\ Subsidy(n) \in Nat
  BY <1>1, <1>4, BlockValues, SubsidyTyped
<1>8. value <= Subsidy(n) + all
  <2> HIDE DEF value, some, all, n
  <2> QED
    BY <1>5, <1>6, <1>7
<1>9. PaysRight(b, activeChain, txs)
  BY <1>5, <1>8 DEF PaysRight
<1> QED
  BY <1>1, <1>2, <1>3, <1>9 DEF Fits

LEMMA FitsExtends ==
  ASSUME IInv, NEW height, Orderly(height), CoinInv(height),
         NEW b \in Blocks, Fits(height, now, b, activeChain),
         NonCoinbase(TxsOf[b]) \subseteq mempool
  PROVE  ~OnActive(b) /\ ExtendsActive(b)
<1> DEFINE txs == NonCoinbase(TxsOf[b])
           n == Len(activeChain)
<1>1. activeChain \in Seq(Blocks) /\ n \in Nat \ {0} /\ OnActive(Tip)
      /\ \A a : OnActive(a) <=> \E i \in 1 .. n : activeChain[i] = a
  BY ActiveChain DEF IInv, TypeOK, ChainTypeOK
<1>2. ~OnActive(b)
  <2>1. ASSUME OnActive(b)
        PROVE  FALSE
    <3>1. PICK i \in 1 .. n : activeChain[i] = b
      BY <1>1, <2>1
    <3>2. height[b] = i - 1 /\ height[b] = n
      BY <3>1 DEF CoinInv, Placed, Fits
    <3> QED
      BY <1>1, <3>1, <3>2
  <2> QED
    BY <2>1
<1>3. Timely(b)
  BY RulesOfTip DEF Fits, Timely
<1>4. Parent[b] = Tip /\ OnActive(Parent[b])
  BY <1>1 DEF Fits, Tip
<1>5. ValidOnTip(b)
  <2>1. /\ \A t \in txs : ValidTx(t, CoinsOf(activeChain), OutsOfAll(txs), n)
        /\ TotalValue(OutsOf(TxsOf[b][1]))
             <= Subsidy(n) + TotalFees(txs, CoinsOf(activeChain), txs)
        /\ FindsCoins(activeChain, b) /\ b \in Sound /\ Bits[b] = NextBits
    BY RulesOfTip DEF Fits, PaysRight
  <2>2. TotalFees(txs, CoinsOf(activeChain), mempool) = TotalFees(txs, CoinsOf(activeChain), txs)
    BY <1>1, <2>1, FeesOfValid
  <2>3. utxo = CoinsOf(activeChain)
    BY DEF CoinInv
  <2> QED
    BY <2>1, <2>2, <2>3 DEF ValidOnTip
<1> QED
  BY <1>2, <1>3, <1>4, <1>5 DEF ExtendsActive

-----------------------------------------------------------------------------
(* Reorganisations. *)

\* The place of the fork block in the active chain.
ForkPlace == activeChainIndex[forkBlock] + 1

\* The new transactions of what was disconnected are pending, or in the blocks
\* that were connected instead.
PoolKeeps ==
  /\ at = "disconnect" => \A i \in DOMAIN old : NonCoinbase(TxsOf[old[i]]) \subseteq mempool
  /\ at \in {"extend", "rollback"} =>
       \A i \in DOMAIN old : \A t \in NonCoinbase(TxsOf[old[i]]) :
         \/ t \in mempool
         \/ \E j \in ForkPlace + 1 .. Len(activeChain) : t \in TxsAt(activeChain, j)
  /\ at = "restore" =>
       \A i \in DOMAIN old : i >= pos => NonCoinbase(TxsOf[old[i]]) \subseteq mempool

\* How far the loops of try_reorg and rollback_reorg have come.
Walks ==
  /\ at \in {"extend", "restore"} => Len(activeChain) = ForkPlace + pos - 1
  /\ at = "extend" =>
       /\ pos <= Len(frozen[branch]) + 1
       /\ \A i \in 1 .. pos - 1 : activeChain[ForkPlace + i] = frozen[branch][i]
  /\ at = "rollback" =>
       \A i \in ForkPlace + 1 .. Len(activeChain) : activeChain[i] \in Elements(frozen[branch])
  /\ at = "restore" =>
       /\ pos <= Len(old) + 1
       /\ \A i \in 1 .. pos - 1 : activeChain[ForkPlace + i] = old[i]

\* The work the scan compares with is that of the settled chain.
Weighs ==
  /\ at = "scan" \/ Reorganising => startWork = ChainWork(SettledChain)
  /\ at \in {"disconnect", "extend"} =>
       ChainWork(Upto(activeChain, ForkPlace) \o frozen[branch]) > startWork

ReorgInv(height) ==
  /\ Good(height, now, activeChain) /\ Good(height, now, SettledChain)
  /\ PoolKeeps /\ Walks /\ Weighs

LEMMA ForkIs ==
  ASSUME IInv, Reorganising
  PROVE  /\ ForkPlace \in 1 .. Len(activeChain) /\ activeChain[ForkPlace] = forkBlock
         /\ \A i \in 1 .. Len(activeChain) : activeChain[i] = forkBlock => i = ForkPlace
<1>1. OnActive(forkBlock)
  BY DEF IInv, ForkStaysActive
<1>2. /\ Len(activeChain) \in Nat /\ DOMAIN activeChain = 1 .. Len(activeChain)
      /\ \E i \in 1 .. Len(activeChain) : activeChain[i] = forkBlock
  BY <1>1, ActiveChain
<1>3. \A i \in 1 .. Len(activeChain) : activeChainIndex[activeChain[i]] = i - 1
  BY <1>2 DEF IInv, ChainIndexed
<1> DEFINE n == Len(activeChain)
<1> HIDE DEF n
<1>4. \A i \in 1 .. n : activeChain[i] = forkBlock => activeChainIndex[forkBlock] = i - 1
  BY <1>3 DEF n
<1>5. \A i \in 1 .. n : activeChain[i] = forkBlock => i = ForkPlace
  BY <1>4 DEF ForkPlace
<1> QED
  BY <1>2, <1>5 DEF n

LEMMA SettledIs ==
  ASSUME IInv
  PROVE  /\ ~Reorganising => SettledChain = activeChain
         /\ at = "disconnect" => SettledChain = Upto(activeChain, Len(activeChain)) \o old
         /\ at \in {"extend", "rollback", "restore"}
              => SettledChain = Upto(activeChain, ForkPlace) \o old
  BY DEF SettledChain, Reorganising, ForkPlace, Upto

\* The same of the next state.
LEMMA SettledNext ==
  /\ ~Reorganising' => SettledChain' = activeChain'
  /\ at' = "disconnect" => SettledChain' = Upto(activeChain', Len(activeChain')) \o old'
  /\ at' \in {"extend", "rollback", "restore"}
       => SettledChain' = Upto(activeChain', ForkPlace') \o old'
  BY DEF SettledChain, Reorganising, ForkPlace, Upto

\* A block more above the fork.
LEMMA PushedAboveFork ==
  ASSUME IInv, Reorganising, NEW b \in Blocks, ~OnActive(b), PushOnActive(b),
         UNCHANGED forkBlock
  PROVE  LET n == Len(activeChain)
         IN  /\ n \in Nat \ {0} /\ activeChain' \in Seq(Blocks) /\ Len(activeChain') = n + 1
             /\ \A i \in 1 .. n : activeChain'[i] = activeChain[i]
             /\ activeChain'[n + 1] = b /\ activeChain' = Append(activeChain, b)
             /\ ForkPlace' = ForkPlace
             /\ mempool' = mempool \ Elements(TxsOf[b])
<1>1. activeChain \in Seq(Blocks) /\ activeChain # <<>>
  BY DEF IInv, TypeOK, ChainTypeOK, ChainIndexed
<1>2. activeChain' = Append(activeChain, b)
  BY DEF PushOnActive
<1>3. OnActive(forkBlock)
  BY DEF IInv, ForkStaysActive
<1>4. activeChainIndex'[forkBlock] = activeChainIndex[forkBlock]
  BY <1>3 DEF PushOnActive, IndexBlock, OnActive
<1>5. ForkPlace' = ForkPlace
  BY <1>4 DEF ForkPlace
<1> QED
  BY <1>1, <1>2, <1>5, Longer DEF PushOnActive, RemoveFromPool

\* A block less above the fork.
LEMMA PoppedAboveFork ==
  ASSUME IInv, DisconnectTip
  PROVE  LET n == Len(activeChain)
         IN  /\ n \in Nat \ {0} /\ activeChain' \in Seq(Blocks) /\ Len(activeChain') = n - 1
             /\ activeChain' = Upto(activeChain, n - 1)
             /\ \A i \in 1 .. n - 1 : activeChain'[i] = activeChain[i]
             /\ ForkPlace' = ForkPlace /\ ForkPlace \in 1 .. n - 1
             /\ mempool' = mempool \cup NonCoinbase(TxsOf[activeChain[n]])
             /\ Tip = activeChain[n] /\ Tip \in Blocks
             /\ Reorganising
<1> DEFINE n == Len(activeChain)
<1>1. Reorganising /\ Tip # forkBlock /\ PopTip /\ UNCHANGED forkBlock
  BY DEF DisconnectTip, Reorganising
<1>2. activeChain \in Seq(Blocks) /\ n \in Nat \ {0} /\ Tip = activeChain[n] /\ Tip \in Blocks
  BY ActiveChain DEF IInv, TypeOK, ChainTypeOK, Tip
<1>3. ForkPlace \in 1 .. n /\ activeChain[ForkPlace] = forkBlock
  BY <1>1, ForkIs
<1>4. ForkPlace \in 1 .. n - 1
  <2>1. ForkPlace # n
    BY <1>1, <1>2, <1>3
  <2> HIDE DEF n
  <2> QED
    BY <1>2, <1>3, <2>1
<1>5. activeChain' = Upto(activeChain, n - 1)
  BY <1>1 DEF PopTip, Front, Upto
<1>6. n - 1 \in Nat /\ n - 1 <= n
  BY <1>2
<1>7. OnActive(forkBlock)
  BY <1>1 DEF IInv, ForkStaysActive
<1>8. activeChainIndex'[forkBlock] = activeChainIndex[forkBlock]
  BY <1>1, <1>7 DEF PopTip, UnindexBlock, OnActive
<1>9. ForkPlace' = ForkPlace
  BY <1>1, <1>8 DEF ForkPlace
<1>10. mempool' = mempool \cup NonCoinbase(TxsOf[activeChain[n]])
  BY <1>1, <1>2 DEF PopTip
<1> QED
  BY <1>1, <1>2, <1>4, <1>5, <1>6, <1>9, <1>10, UptoIs

LEMMA GoodStart ==
  ASSUME NEW h, NEW t
  PROVE  Good(h, t, <<Genesis>>)
<1>1. Genesis \in Blocks /\ <<Genesis>> \in Seq(Blocks) /\ Len(<<Genesis>>) = 1
  BY BlockAssumption
<1>2. <<Genesis>> # <<>> /\ <<Genesis>>[1] = Genesis /\ 1 .. 1 - 1 = {}
  OBVIOUS
<1> QED
  BY <1>1, <1>2 DEF Good

\* Steps outside a reorganisation that leave the chain and the call alone.
LEMMA ReorgInvKept ==
  ASSUME IInv, NEW height, ReorgInv(height),
         UNCHANGED <<activeChain, activeChainIndex, at, reorgVars>>,
         mempool \subseteq mempool', now' \in Nat, now <= now'
  PROVE  ReorgInv(height)' /\ SettledChain' = SettledChain
<1> USE DEF reorgVars
<1>1. SettledChain' = SettledChain
  BY DEF SettledChain, Reorganising
<1>2. now \in Nat
  BY DEF IInv, TypeOK, NodeTypeOK
<1>3. Good(height, now', activeChain) /\ Good(height, now', SettledChain)
  BY <1>2, GoodLater DEF ReorgInv
<1>4. PoolKeeps'
  BY DEF ReorgInv, PoolKeeps, ForkPlace
<1>5. Walks'
  BY DEF ReorgInv, Walks, ForkPlace
<1>6. Weighs'
  BY <1>1 DEF ReorgInv, Weighs, ForkPlace, Reorganising
<1> QED
  BY <1>1, <1>3, <1>4, <1>5, <1>6 DEF ReorgInv

\* Steps to a state between reorganisations.
LEMMA ReorgInvOutside ==
  ASSUME NEW height, Good(height, now', activeChain'), at' \in {"idle", "scan", "crashed"},
         at' = "scan" => startWork' = ChainWork(activeChain')
  PROVE  ReorgInv(height)' /\ SettledChain' = activeChain'
<1>1. ~Reorganising'
  BY DEF Reorganising
<1>2. SettledChain' = activeChain'
  BY <1>1, SettledNext
<1>3. PoolKeeps' /\ Walks'
  BY DEF PoolKeeps, Walks
<1>4. Weighs'
  BY <1>1, <1>2 DEF Weighs
<1> QED
  BY <1>2, <1>3, <1>4 DEF ReorgInv

\* connect_block, not called by a reorganisation.
LEMMA ConnectWalks ==
  ASSUME IInv, NEW height, Orderly(height), CoinInv(height), ReorgInv(height),
         NEW b \in Blocks,
         \/ IgnoreSeen(b) \/ RejectBlock(b) \/ StoreOrphan(b)
         \/ ConnectToActive(b) \/ ConnectAside(b)
  PROVE  /\ ReorgInv(height)'
         /\ \/ SettledChain' = SettledChain
            \/ SettledChain' = Append(SettledChain, b)
<1>1. at = "idle" /\ SettledChain = activeChain
  <2>1. at = "idle"
    BY DEF IgnoreSeen, RejectBlock, StoreOrphan, ConnectToActive, ConnectAside, Connecting,
           NextCallIs
  <2> QED
    BY <2>1, SettledIs DEF Reorganising
<1>2. CASE IgnoreSeen(b) \/ RejectBlock(b) \/ StoreOrphan(b)
  <2>1. UNCHANGED <<activeChain, activeChainIndex, at, reorgVars, mempool, now>>
    BY <1>2 DEF IgnoreSeen, RejectBlock, StoreOrphan, NothingConnected, KeepOrphan, chainVars,
                ledgerVars, envVars
  <2>2. now \in Nat /\ now <= now
    BY DEF IInv, TypeOK, NodeTypeOK
  <2> QED
    BY <2>1, <2>2, ReorgInvKept
<1>3. CASE ConnectToActive(b)
  <2>1. /\ ~OnActive(b) /\ ExtendsActive(b) /\ activeChain' = Append(activeChain, b)
        /\ now' = now /\ at' = "scan" /\ startWork' = ChainWork(activeChain')
    BY <1>3 DEF ConnectToActive, Known, PushOnActive, StartScan, envVars
  <2>2. Good(height, now, activeChain)
    BY DEF ReorgInv
  <2>3. Good(height, now', activeChain')
    BY <2>1, <2>2, ExtensionFits, GoodAppend
  <2> QED
    BY <1>1, <2>1, <2>3, ReorgInvOutside
<1>4. CASE ConnectAside(b)
  <2>1. /\ activeChain' = activeChain
        /\ now' = now /\ at' = "scan" /\ startWork' = ChainWork(activeChain')
    BY <1>4 DEF ConnectAside, PushAside, PushOnBranch, PushOnNewBranch, StartScan, envVars
  <2>2. Good(height, now', activeChain')
    BY <2>1 DEF ReorgInv
  <2> QED
    BY <1>1, <2>1, <2>2, ReorgInvOutside
<1> QED
  BY <1>2, <1>3, <1>4

\* The disk, and the rest of the node.
LEMMA OthersWalk ==
  ASSUME IInv, NEW height, ReorgInv(height),
         SaveToDisk \/ FinishLoad \/ FailLoad \/ Environment
  PROVE  /\ ReorgInv(height)'
         /\ SettledChain' = SettledChain \/ FailLoad \/ restarts' # restarts
<1> USE DEF chainVars, ledgerVars, diskVars, fileVars, envVars, callVars
<1>1. now \in Nat /\ now <= now /\ now <= now + 1 /\ now + 1 \in Nat
  BY DEF IInv, TypeOK, NodeTypeOK
<1>2. CASE SaveToDisk \/ FinishLoad
  <2>1. UNCHANGED <<activeChain, activeChainIndex, at, reorgVars, mempool, now>>
    BY <1>2 DEF SaveToDisk, FinishLoad, WriteFile
  <2> QED
    BY <1>1, <2>1, ReorgInvKept
<1>3. CASE FailLoad
  <2>1. activeChain' = <<Genesis>> /\ at' = "idle"
    BY <1>3 DEF FailLoad, NextCallIs
  <2> QED
    BY <1>3, <2>1, GoodStart, ReorgInvOutside
<1>4. CASE Restart
  <2>1. activeChain' = <<Genesis>> /\ at' = "idle"
    BY <1>4 DEF Restart
  <2>2. restarts' # restarts
    BY <1>4 DEF Restart, IInv, TypeOK, NodeTypeOK
  <2> QED
    BY <2>1, <2>2, GoodStart, ReorgInvOutside
<1>5. ASSUME NEW b \in Blocks, ReceiveBlock(b) \/ ConnectMined(b)
      PROVE  ReorgInv(height)' /\ SettledChain' = SettledChain
  <2>1. UNCHANGED <<activeChain, activeChainIndex, at, reorgVars, mempool, now>>
    BY <1>5 DEF ReceiveBlock, ConnectMined
  <2> QED
    BY <1>1, <2>1, ReorgInvKept
<1>6. ASSUME NEW t \in Txs, AddTx(t)
      PROVE  ReorgInv(height)' /\ SettledChain' = SettledChain
  <2>1. UNCHANGED <<activeChain, activeChainIndex, at, reorgVars, now>> /\ mempool \subseteq mempool'
    BY <1>6 DEF AddTx
  <2> QED
    BY <1>1, <2>1, ReorgInvKept
<1>7. CASE StartMining \/ LoadFromDisk
  <2>1. UNCHANGED <<activeChain, activeChainIndex, at, reorgVars, mempool, now>>
    BY <1>7 DEF StartMining, LoadFromDisk
  <2> QED
    BY <1>1, <2>1, ReorgInvKept
<1>8. CASE Tick
  <2>1. UNCHANGED <<activeChain, activeChainIndex, at, reorgVars, mempool>> /\ now' = now + 1
    BY <1>8 DEF Tick
  <2> QED
    BY <1>1, <2>1, ReorgInvKept
<1> QED
  BY <1>2, <1>3, <1>4, <1>5, <1>6, <1>7, <1>8 DEF Environment

\* The whole chain, and nothing set aside.
LEMMA NothingJoined ==
  ASSUME NEW c \in Seq(Blocks)
  PROVE  Upto(c, Len(c)) \o <<>> = c
<1>1. Upto(c, Len(c)) = c
  BY UptoAll
<1> QED
  BY <1>1

\* reorg_if_necessary goes on, or ends.
LEMMA ScanWalks ==
  ASSUME IInv, NEW height, ReorgInv(height),
         SkipBranch \/ ReadOutOfBounds \/ ScanDone
  PROVE  ReorgInv(height)' /\ SettledChain' = SettledChain
<1>1. at = "scan" /\ SettledChain = activeChain /\ startWork = ChainWork(activeChain)
  <2>1. at = "scan"
    BY DEF SkipBranch, ReadOutOfBounds, ScanDone, Scanning
  <2> QED
    BY <2>1, SettledIs DEF Reorganising, ReorgInv, Weighs
<1>2. activeChain' = activeChain /\ now' = now
  BY DEF SkipBranch, ReadOutOfBounds, ScanDone, chainVars, envVars
<1>3. \/ at' = "scan" /\ startWork' = startWork
      \/ at' = "crashed"
      \/ at' = "idle"
  BY <1>1 DEF SkipBranch, ReadOutOfBounds, ScanDone, ReturnConnected, callVars
<1>4. Good(height, now', activeChain')
  BY <1>2 DEF ReorgInv
<1> QED
  BY <1>1, <1>2, <1>3, <1>4, ReorgInvOutside

\* try_reorg begins.
LEMMA StartWalks ==
  ASSUME IInv, NEW height, ReorgInv(height), StartReorg
  PROVE  ReorgInv(height)' /\ SettledChain' = SettledChain
<1> DEFINE p == Parent[frozen[branch][1]]
<1>1. /\ at = "scan" /\ SettledChain = activeChain /\ startWork = ChainWork(activeChain)
      /\ Heavier /\ ForkHeight >= 0
      /\ at' = "disconnect" /\ forkBlock' = activeChain[ForkHeight + 1] /\ old' = <<>>
      /\ UNCHANGED <<activeChain, activeChainIndex, mempool, now, frozen, branch, startWork>>
  <2>1. at = "scan"
    BY DEF StartReorg, Scanning
  <2> QED
    BY <2>1, SettledIs DEF Reorganising, ReorgInv, Weighs, StartReorg, chainVars, envVars,
                           ledgerVars
<1>2. activeChain \in Seq(Blocks) /\ DOMAIN activeChain = 1 .. Len(activeChain)
  BY ActiveChain DEF IInv, TypeOK, ChainTypeOK
<1>3. OnActive(p) /\ ForkHeight = activeChainIndex[p]
  <2>1. ~(-1 >= 0)
    OBVIOUS
  <2> QED
    BY <1>1, <2>1 DEF ForkHeight
<1>4. PICK i \in 1 .. Len(activeChain) : activeChain[i] = p
  BY <1>3, ActiveChain
<1>5. activeChainIndex[p] = i - 1
  BY <1>2, <1>4 DEF IInv, ChainIndexed
<1>6. ForkHeight + 1 = i /\ activeChainIndex[p] + 1 = i
  BY <1>3, <1>5
<1>7. forkBlock' = p /\ ForkPlace' = ForkHeight + 1
  BY <1>1, <1>4, <1>6 DEF ForkPlace
<1>8. SettledChain' = activeChain
  BY <1>1, <1>2, SettledNext, NothingJoined
<1>9. FullBranch = Upto(activeChain, ForkHeight + 1) \o frozen[branch]
  BY DEF FullBranch, Upto
<1>10. Weighs'
  BY <1>1, <1>7, <1>8, <1>9 DEF Weighs, Heavier, Reorganising
<1>11. PoolKeeps' /\ Walks'
  BY <1>1 DEF PoolKeeps, Walks
<1> QED
  BY <1>1, <1>8, <1>10, <1>11 DEF ReorgInv

\* disconnect_to_fork reaches the fork.
LEMMA ForkWalks ==
  ASSUME IInv, NEW height, ReorgInv(height), ForkReached
  PROVE  ReorgInv(height)' /\ SettledChain' = SettledChain
<1> DEFINE n == Len(activeChain)
<1>1. /\ at \in {"disconnect", "rollback"} /\ Tip = forkBlock /\ Reorganising /\ pos' = 1
      /\ at' = IF at = "disconnect" THEN "extend" ELSE "restore"
      /\ UNCHANGED <<activeChain, activeChainIndex, mempool, now, frozen, branch, startWork,
                     forkBlock, old>>
  BY DEF ForkReached, Reorganising, chainVars, envVars, ledgerVars
<1>2. /\ activeChain \in Seq(Blocks) /\ n \in Nat \ {0} /\ old \in Seq(Blocks)
      /\ Len(old) \in Nat /\ branch \in 1 .. Len(frozen) /\ Len(frozen) \in Nat
      /\ Len(frozen[branch]) \in Nat
  <2>1. activeChain \in Seq(Blocks) /\ n \in Nat \ {0} /\ old \in Seq(Blocks)
        /\ frozen \in Seq(Seq(Blocks)) /\ branch >= 1 /\ branch <= Len(frozen) /\ branch \in Nat
    BY <1>1, ActiveChain DEF IInv, TypeOK, ChainTypeOK, CallTypeOK, LoopsInBounds
  <2>2. Len(frozen) \in Nat /\ branch \in 1 .. Len(frozen)
    BY <2>1, LenProperties
  <2>3. frozen[branch] \in Seq(Blocks)
    BY <2>1, <2>2, ElementOfSeq
  <2> QED
    BY <2>1, <2>2, <2>3, LenProperties
<1>3. ForkPlace = n /\ ForkPlace' = n
  <2>1. ForkPlace = n
    <3>1. n \in 1 .. n /\ activeChain[n] = forkBlock
      BY <1>1, <1>2 DEF Tip
    <3> QED
      BY <1>1, <3>1, ForkIs
  <2> QED
    BY <1>1, <2>1 DEF ForkPlace
<1>4. SettledChain' = SettledChain
  <2>1. CASE at = "disconnect"
    <3>1. SettledChain = Upto(activeChain, n) \o old
      BY <2>1, SettledIs
    <3>2. at' = "extend"
      BY <1>1, <2>1
    <3>3. SettledChain' = Upto(activeChain', ForkPlace') \o old'
      BY <3>2, SettledNext
    <3> QED
      BY <1>1, <1>3, <3>1, <3>3
  <2>2. CASE at = "rollback"
    <3>1. SettledChain = Upto(activeChain, ForkPlace) \o old
      BY <2>2, SettledIs
    <3>2. at' = "restore"
      BY <1>1, <2>2
    <3>3. SettledChain' = Upto(activeChain', ForkPlace') \o old'
      BY <3>2, SettledNext
    <3> QED
      BY <1>1, <1>3, <3>1, <3>3
  <2> QED
    BY <1>1, <2>1, <2>2
<1>5. n = n + 1 - 1 /\ 1 <= Len(frozen[branch]) + 1 /\ 1 <= Len(old) + 1
      /\ 1 .. 1 - 1 = {} /\ n + 1 .. n = {}
  BY <1>2
<1> HIDE DEF n
<1>6. Walks'
  BY <1>1, <1>3, <1>5 DEF Walks, n
<1>7. PoolKeeps'
  BY <1>1, <1>3, <1>5 DEF PoolKeeps, ReorgInv, n
<1>8. Weighs'
  BY <1>1, <1>3, <1>4 DEF Weighs, ReorgInv, Reorganising
<1> QED
  BY <1>1, <1>4, <1>6, <1>7, <1>8 DEF ReorgInv

\* A block before a sequence of blocks.
LEMMA Before1 ==
  ASSUME NEW b \in Blocks, NEW o \in Seq(Blocks)
  PROVE  /\ <<b>> \o o \in Seq(Blocks) /\ Len(o) \in Nat /\ Len(<<b>> \o o) = Len(o) + 1
         /\ DOMAIN o = 1 .. Len(o) /\ DOMAIN (<<b>> \o o) = 1 .. Len(o) + 1
         /\ (<<b>> \o o)[1] = b
         /\ \A i \in 1 .. Len(o) : (<<b>> \o o)[i + 1] = o[i]
<1> DEFINE p == <<b>>
           j == p \o o
           m == Len(o)
<1>1. p \in Seq(Blocks) /\ Len(p) = 1 /\ p[1] = b
  OBVIOUS
<1>2. m \in Nat /\ DOMAIN o = 1 .. m
  BY LenProperties
<1> HIDE DEF p
<1>3. /\ j \in Seq(Blocks) /\ Len(j) = Len(p) + Len(o)
      /\ \A i \in 1 .. Len(p) + Len(o) : j[i] = IF i <= Len(p) THEN p[i] ELSE o[i - Len(p)]
  BY <1>1, ConcatProperties
<1> HIDE DEF j
<1>4. Len(j) = m + 1 /\ \A i \in 1 .. 1 + m : j[i] = IF i <= 1 THEN p[i] ELSE o[i - 1]
  BY <1>1, <1>2, <1>3
<1>5. DOMAIN j = 1 .. m + 1
  BY <1>3, <1>4, LenProperties
<1> HIDE DEF m
<1>6. j[1] = b /\ \A i \in 1 .. m : j[i + 1] = o[i]
  BY <1>1, <1>2, <1>4
<1> QED
  BY <1>2, <1>3, <1>4, <1>5, <1>6 DEF j, p, m

\* The last block of the chain goes to what was set aside.
LEMMA JoinMoves ==
  ASSUME NEW c \in Seq(Blocks), c # <<>>, NEW o \in Seq(Blocks)
  PROVE  Upto(c, Len(c) - 1) \o (<<c[Len(c)]>> \o o) = c \o o
<1>1. c = Append(SubSeq(c, 1, Len(c) - 1), c[Len(c)])
  OBVIOUS
<1> DEFINE d == Upto(c, Len(c) - 1)
           b == c[Len(c)]
<1>2. c = Append(d, b)
  BY <1>1 DEF Upto
<1>3. d \in Seq(Blocks) /\ b \in Blocks
  <2>1. Len(c) \in Nat /\ Len(c) # 0
    BY EmptySeq, LenProperties
  <2>2. Len(c) - 1 \in Nat /\ Len(c) - 1 <= Len(c) /\ Len(c) \in 1 .. Len(c)
    BY <2>1
  <2> QED
    BY <2>2, UptoIs, ElementOfSeq
<1> HIDE DEF d, b
<1>4. Append(d, b) = d \o <<b>>
  BY <1>3, AppendIsConcat
<1>5. d \o (<<b>> \o o) = Append(d, b) \o o
  BY <1>3, <1>4, ConcatAssociative, SMTT(40)
<1> QED
  BY <1>2, <1>5 DEF d, b

\* disconnect_block.
LEMMA DisconnectWalks ==
  ASSUME IInv, NEW height, Orderly(height), ReorgInv(height), DisconnectTip
  PROVE  ReorgInv(height)' /\ SettledChain' = SettledChain
<1> DEFINE n == Len(activeChain)
           b == activeChain[n]
           f == ForkPlace
<1>1. /\ n \in Nat \ {0} /\ activeChain' \in Seq(Blocks) /\ Len(activeChain') = n - 1
      /\ activeChain' = Upto(activeChain, n - 1)
      /\ \A i \in 1 .. n - 1 : activeChain'[i] = activeChain[i]
      /\ ForkPlace' = f /\ f \in 1 .. n - 1
      /\ mempool' = mempool \cup NonCoinbase(TxsOf[b])
      /\ Tip = b /\ b \in Blocks /\ Reorganising
  BY PoppedAboveFork
<1>2. /\ at \in {"disconnect", "rollback"} /\ at' = at
      /\ old' = IF at = "disconnect" THEN <<Tip>> \o old ELSE old
      /\ UNCHANGED <<now, frozen, branch, startWork, forkBlock, pos>>
  BY DEF DisconnectTip, callVars, envVars
<1>3. activeChain \in Seq(Blocks) /\ old \in Seq(Blocks)
  BY DEF IInv, TypeOK, ChainTypeOK, CallTypeOK
<1>4. Good(height, now, activeChain')
  <2>1. n - 1 \in 1 .. n
    BY <1>1
  <2> QED
    BY <1>1, <2>1, GoodPrefix DEF ReorgInv
<1>5. Upto(activeChain', f) = Upto(activeChain, f)
  <2>1. /\ f \in Nat /\ f <= Len(activeChain) /\ f <= n - 1
        /\ \A i \in 1 .. f : activeChain'[i] = activeChain[i]
    BY <1>1
  <2>2. f <= Len(activeChain')
    BY <1>1, <2>1
  <2> HIDE DEF f
  <2> QED
    BY <1>1, <1>3, <2>1, <2>2, UptoSame
<1>6. SettledChain' = SettledChain
  <2>1. CASE at = "disconnect"
    <3>1. SettledChain = activeChain \o old
      BY <1>3, <2>1, SettledIs, UptoAll
    <3>2. SettledChain' = Upto(activeChain', Len(activeChain')) \o (<<b>> \o old)
      BY <1>1, <1>2, <2>1, SettledNext
    <3>3. SettledChain' = Upto(activeChain, n - 1) \o (<<b>> \o old)
      BY <1>1, <3>2, UptoAll
    <3>4. activeChain # <<>>
      BY DEF IInv, ChainIndexed
    <3>5. Upto(activeChain, n - 1) \o (<<b>> \o old) = activeChain \o old
      BY <1>3, <3>4, JoinMoves
    <3> QED
      BY <3>1, <3>3, <3>5
  <2>2. CASE at = "rollback"
    <3>1. SettledChain = Upto(activeChain, f) \o old
      BY <2>2, SettledIs
    <3>2. SettledChain' = Upto(activeChain', f) \o old
      BY <1>1, <1>2, <2>2, SettledNext
    <3> QED
      BY <1>5, <3>1, <3>2
  <2> QED
    BY <1>2, <2>1, <2>2
<1>7. PoolKeeps'
  <2>1. CASE at = "disconnect"
    <3>1. \A i \in DOMAIN old : NonCoinbase(TxsOf[old[i]]) \subseteq mempool'
      BY <1>1, <2>1 DEF ReorgInv, PoolKeeps
    <3>2. ASSUME NEW i \in DOMAIN old'
          PROVE  NonCoinbase(TxsOf[old'[i]]) \subseteq mempool'
      <4> DEFINE m == Len(old)
      <4>1. /\ old' = <<b>> \o old /\ m \in Nat /\ DOMAIN old = 1 .. m
            /\ DOMAIN old' = 1 .. m + 1 /\ old'[1] = b
            /\ \A k \in 1 .. m : old'[k + 1] = old[k]
        BY <1>1, <1>2, <1>3, <2>1, Before1
      <4> HIDE DEF m
      <4>2. CASE i = 1
        BY <1>1, <4>1, <4>2
      <4>3. CASE i # 1
        <5>1. i - 1 \in 1 .. m /\ (i - 1) + 1 = i
          BY <3>2, <4>1, <4>3
        <5>2. old'[i] = old[i - 1]
          BY <4>1, <5>1
        <5> QED
          BY <3>1, <4>1, <5>1, <5>2
      <4> QED
        BY <4>2, <4>3
    <3> QED
      BY <1>2, <2>1, <3>2 DEF PoolKeeps
  <2>2. CASE at = "rollback"
    <3>1. ASSUME NEW i \in DOMAIN old, NEW t \in NonCoinbase(TxsOf[old[i]])
          PROVE  \/ t \in mempool'
                 \/ \E j \in f + 1 .. n - 1 : t \in TxsAt(activeChain', j)
      <4>1. CASE t \in mempool
        BY <1>1, <4>1
      <4>2. CASE \E j \in f + 1 .. n : t \in TxsAt(activeChain, j)
        <5>1. PICK j \in f + 1 .. n : t \in TxsAt(activeChain, j)
          BY <4>2
        <5>2. CASE j = n
          <6>1. t \in Elements(TxsOf[b]) /\ t \notin Coinbases
            BY <3>1, <5>1, <5>2 DEF TxsAt, NonCoinbase
          <6> QED
            BY <1>1, <6>1 DEF NonCoinbase
        <5>3. CASE j # n
          <6>1. j \in f + 1 .. n - 1 /\ j \in 1 .. n - 1
            <7> HIDE DEF f, n
            <7> QED
              BY <1>1, <5>1, <5>3
          <6>2. activeChain'[j] = activeChain[j]
            BY <1>1, <6>1
          <6> QED
            BY <5>1, <6>1, <6>2 DEF TxsAt
        <5> QED
          BY <5>2, <5>3
      <4> QED
        BY <2>2, <4>1, <4>2 DEF ReorgInv, PoolKeeps
    <3> QED
      BY <1>1, <1>2, <2>2, <3>1 DEF PoolKeeps
  <2> QED
    BY <1>2, <2>1, <2>2
<1>8. Walks'
  <2>1. CASE at = "disconnect"
    BY <1>2, <2>1 DEF Walks
  <2>2. CASE at = "rollback"
    <3>1. ASSUME NEW i \in f + 1 .. n - 1
          PROVE  activeChain'[i] \in Elements(frozen[branch])
      <4>1. i \in f + 1 .. n /\ i \in 1 .. n - 1
        BY <1>1
      <4>2. activeChain'[i] = activeChain[i]
        BY <1>1, <4>1
      <4> QED
        BY <2>2, <4>1, <4>2 DEF ReorgInv, Walks
    <3> QED
      BY <1>1, <1>2, <2>2, <3>1 DEF Walks
  <2> QED
    BY <1>2, <2>1, <2>2
<1>9. Weighs'
  BY <1>1, <1>2, <1>5, <1>6 DEF ReorgInv, Weighs, Reorganising
<1> QED
  BY <1>2, <1>4, <1>6, <1>7, <1>8, <1>9 DEF ReorgInv

\* What the running reorganisation works on.
LEMMA LoopFacts ==
  ASSUME IInv, Reorganising
  PROVE  /\ activeChain \in Seq(Blocks) /\ old \in Seq(Blocks) /\ pos \in Nat
         /\ Len(old) \in Nat /\ DOMAIN old = 1 .. Len(old)
         /\ \A i \in 1 .. Len(old) : old[i] \in Blocks
         /\ branch \in 1 .. Len(frozen) /\ frozen[branch] \in Seq(Blocks)
         /\ Len(frozen[branch]) \in Nat
         /\ DOMAIN frozen[branch] = 1 .. Len(frozen[branch])
         /\ \A i \in 1 .. Len(frozen[branch]) : frozen[branch][i] \in Blocks
         /\ at \in {"extend", "restore"} => pos >= 1
<1>1. /\ activeChain \in Seq(Blocks) /\ old \in Seq(Blocks) /\ pos \in Nat
      /\ frozen \in Seq(Seq(Blocks)) /\ branch >= 1 /\ branch <= Len(frozen) /\ branch \in Nat
      /\ at \in {"extend", "restore"} => pos >= 1
  BY DEF IInv, TypeOK, ChainTypeOK, CallTypeOK, LoopsInBounds
<1>2. Len(frozen) \in Nat /\ branch \in 1 .. Len(frozen)
  BY <1>1, LenProperties
<1>3. frozen[branch] \in Seq(Blocks)
  BY <1>1, <1>2, ElementOfSeq
<1>4. /\ Len(old) \in Nat /\ DOMAIN old = 1 .. Len(old)
      /\ \A i \in 1 .. Len(old) : old[i] \in Blocks
  BY <1>1, LenProperties, ElementOfSeq
<1>5. /\ Len(frozen[branch]) \in Nat /\ DOMAIN frozen[branch] = 1 .. Len(frozen[branch])
      /\ \A i \in 1 .. Len(frozen[branch]) : frozen[branch][i] \in Blocks
  BY <1>3, LenProperties, ElementOfSeq
<1> QED
  BY <1>1, <1>2, <1>3, <1>4, <1>5

\* A block that is pushed above the fork leaves the chain up to the fork.
LEMMA ForkBelow ==
  ASSUME IInv, Reorganising, NEW b \in Blocks, ~OnActive(b), PushOnActive(b),
         UNCHANGED forkBlock
  PROVE  Upto(activeChain', ForkPlace') = Upto(activeChain, ForkPlace)
<1> DEFINE n == Len(activeChain)
           f == ForkPlace
<1>1. /\ n \in Nat \ {0} /\ activeChain' \in Seq(Blocks) /\ Len(activeChain') = n + 1
      /\ \A i \in 1 .. n : activeChain'[i] = activeChain[i]
      /\ ForkPlace' = f
  BY PushedAboveFork
<1>2. f \in 1 .. n /\ activeChain \in Seq(Blocks)
  BY ForkIs, LoopFacts
<1> HIDE DEF f
<1>3. /\ f \in Nat /\ f <= n /\ f <= n + 1
      /\ \A i \in 1 .. f : i \in 1 .. n
  BY <1>1, <1>2
<1>4. \A i \in 1 .. f : activeChain'[i] = activeChain[i]
  BY <1>1, <1>3
<1>5. Upto(activeChain', f) = Upto(activeChain, f)
  BY <1>1, <1>2, <1>3, <1>4, UptoSame
<1> QED
  BY <1>1, <1>5 DEF f

\* try_reorg connects a block of the branch.
LEMMA ExtendWalks ==
  ASSUME IInv, NEW height, Orderly(height), CoinInv(height), ReorgInv(height), ExtendReorg
  PROVE  ReorgInv(height)' /\ SettledChain' = SettledChain
<1> DEFINE b == frozen[branch][pos]
           n == Len(activeChain)
           f == ForkPlace
           s == frozen[branch]
<1>1. /\ at = "extend" /\ at' = "extend" /\ pos <= Len(s) /\ Reorganising /\ pos' = pos + 1
      /\ ~OnActive(b) /\ ExtendsActive(b) /\ PushOnActive(b)
      /\ UNCHANGED <<now, frozen, branch, startWork, forkBlock, old>>
  BY DEF ExtendReorg, Extending, ConnectInReorg, Reorganising, callVars, envVars
<1>2. /\ pos \in 1 .. Len(s) /\ b \in Blocks /\ pos \in Nat /\ Len(s) \in Nat
  <2>1. pos \in Nat /\ pos >= 1 /\ Len(s) \in Nat /\ \A i \in 1 .. Len(s) : s[i] \in Blocks
    BY <1>1, LoopFacts
  <2>2. pos \in 1 .. Len(s)
    BY <1>1, <2>1
  <2> QED
    BY <2>1, <2>2
<1>3. /\ n \in Nat \ {0} /\ activeChain' \in Seq(Blocks) /\ Len(activeChain') = n + 1
      /\ \A i \in 1 .. n : activeChain'[i] = activeChain[i]
      /\ activeChain'[n + 1] = b /\ activeChain' = Append(activeChain, b)
      /\ ForkPlace' = f
      /\ mempool' = mempool \ Elements(TxsOf[b])
  BY <1>1, <1>2, PushedAboveFork
<1>4. Upto(activeChain', f) = Upto(activeChain, f)
  BY <1>1, <1>2, <1>3, ForkBelow
<1>5. Good(height, now, activeChain')
  BY <1>1, <1>2, <1>3, ExtensionFits, GoodAppend DEF ReorgInv
<1>6. SettledChain' = SettledChain
  <2>1. SettledChain = Upto(activeChain, f) \o old
    BY <1>1, SettledIs
  <2>2. SettledChain' = Upto(activeChain', ForkPlace') \o old'
    BY <1>1, SettledNext
  <2> QED
    BY <1>1, <1>3, <1>4, <2>1, <2>2
<1>7. n = f + pos - 1 /\ f \in 1 .. n /\ \A i \in 1 .. pos - 1 : activeChain[f + i] = s[i]
  BY <1>1, ForkIs DEF ReorgInv, Walks
<1>8. PoolKeeps'
  <2>1. ASSUME NEW i \in DOMAIN old, NEW t \in NonCoinbase(TxsOf[old[i]])
        PROVE  \/ t \in mempool'
               \/ \E j \in f + 1 .. n + 1 : t \in TxsAt(activeChain', j)
    <3>1. n + 1 \in f + 1 .. n + 1 /\ \A j \in f + 1 .. n : j \in f + 1 .. n + 1 /\ j \in 1 .. n
      <4> HIDE DEF f, n
      <4> QED
        BY <1>3, <1>7
    <3>2. CASE t \in Elements(TxsOf[b])
      BY <1>3, <3>1, <3>2 DEF TxsAt
    <3>3. CASE t \in mempool /\ t \notin Elements(TxsOf[b])
      BY <1>3, <3>3
    <3>4. ASSUME NEW j \in f + 1 .. n, t \in TxsAt(activeChain, j)
          PROVE  j \in f + 1 .. n + 1 /\ t \in TxsAt(activeChain', j)
      <4>1. j \in f + 1 .. n + 1 /\ activeChain'[j] = activeChain[j]
        BY <1>3, <3>1, <3>4
      <4> QED
        BY <3>4, <4>1 DEF TxsAt
    <3> QED
      BY <1>1, <3>2, <3>3, <3>4 DEF ReorgInv, PoolKeeps
  <2> QED
    BY <1>1, <1>3, <2>1 DEF PoolKeeps
<1>9. Walks'
  <2> DEFINE p == pos
  <2>1. /\ n + 1 = f + (p + 1) - 1 /\ p + 1 <= Len(s) + 1 /\ (p + 1) - 1 = p
        /\ f + p = n + 1
    <3> HIDE DEF f, n, p, s
    <3>1. p \in Nat /\ f \in Nat /\ n = f + p - 1 /\ Len(s) \in Nat /\ p <= Len(s)
      BY <1>1, <1>2, <1>3, <1>7 DEF p
    <3> QED
      BY <3>1
  <2>2. ASSUME NEW i \in 1 .. p
        PROVE  activeChain'[f + i] = s[i]
    <3>1. CASE i = p
      BY <1>3, <2>1, <3>1
    <3>2. CASE i # p
      <4>1. i \in 1 .. p - 1 /\ f + i \in 1 .. n
        <5> HIDE DEF f, n, p
        <5> QED
          BY <1>2, <1>3, <1>7, <2>1, <2>2, <3>2 DEF p
      <4> QED
        BY <1>3, <1>7, <4>1
    <3> QED
      BY <3>1, <3>2
  <2> QED
    BY <1>1, <1>3, <2>1, <2>2 DEF Walks
<1>10. Weighs'
  BY <1>1, <1>3, <1>4, <1>6 DEF ReorgInv, Weighs, Reorganising
<1> QED
  BY <1>1, <1>5, <1>6, <1>8, <1>9, <1>10 DEF ReorgInv

\* A block of the branch is refused.
LEMMA AbandonWalks ==
  ASSUME IInv, NEW height, ReorgInv(height), AbandonReorg
  PROVE  ReorgInv(height)' /\ SettledChain' = SettledChain
<1> DEFINE n == Len(activeChain)
           f == ForkPlace
           s == frozen[branch]
<1>1. /\ at = "extend" /\ at' = "rollback" /\ Reorganising
      /\ UNCHANGED <<activeChain, activeChainIndex, mempool, now, reorgVars>>
  BY DEF AbandonReorg, Extending, Reorganising, FailInReorg, NothingConnected, KeepOrphan,
         PushAside, PushOnBranch, PushOnNewBranch, chainVars, envVars, ledgerVars
<1>2. ForkPlace' = f
  BY <1>1 DEF ForkPlace, reorgVars
<1>3. SettledChain' = SettledChain
  <2>1. SettledChain = Upto(activeChain, f) \o old
    BY <1>1, SettledIs
  <2>2. SettledChain' = Upto(activeChain', ForkPlace') \o old'
    BY <1>1, SettledNext
  <2> QED
    BY <1>1, <1>2, <2>1, <2>2 DEF reorgVars
<1>4. PoolKeeps'
  BY <1>1, <1>2 DEF ReorgInv, PoolKeeps, reorgVars
<1>5. Walks'
  <2>1. /\ n = f + pos - 1 /\ pos <= Len(s) + 1 /\ f \in 1 .. n /\ pos \in Nat /\ Len(s) \in Nat
        /\ \A i \in 1 .. pos - 1 : activeChain[f + i] = s[i]
        /\ DOMAIN s = 1 .. Len(s)
    BY <1>1, ForkIs, LoopFacts DEF ReorgInv, Walks
  <2>2. ASSUME NEW i \in f + 1 .. n
        PROVE  activeChain[i] \in Elements(s)
    <3> DEFINE k == i - f
    <3>1. k \in 1 .. pos - 1 /\ f + k = i /\ k \in 1 .. Len(s)
      <4> HIDE DEF f, n, s
      <4> QED
        BY <2>1, <2>2
    <3> HIDE DEF k, f
    <3>2. activeChain[i] = s[k]
      BY <2>1, <3>1
    <3> QED
      BY <2>1, <3>1, <3>2 DEF Elements
  <2> QED
    BY <1>1, <1>2, <2>2 DEF Walks, reorgVars
<1>6. Weighs'
  BY <1>1, <1>3 DEF ReorgInv, Weighs, Reorganising, reorgVars
<1> QED
  BY <1>1, <1>3, <1>4, <1>5, <1>6 DEF ReorgInv

\* A chain that goes on above the fork with the first blocks of a sequence.
LEMMA JoinPrefix ==
  ASSUME NEW c \in Seq(Blocks), NEW f \in 1 .. Len(c), NEW o \in Seq(Blocks),
         NEW k \in 0 .. Len(o), Len(c) = f + k, \A i \in 1 .. k : c[f + i] = o[i]
  PROVE  /\ Upto(c, f) \o o \in Seq(Blocks) /\ Len(Upto(c, f) \o o) = f + Len(o)
         /\ Upto(Upto(c, f) \o o, Len(c)) = c
         /\ \A i \in 1 .. Len(o) : (Upto(c, f) \o o)[f + i] = o[i]
<1> DEFINE j == Upto(c, f) \o o
           n == Len(c)
<1>1. f \in Nat /\ f <= Len(c)
  OBVIOUS
<1>2. /\ j \in Seq(Blocks) /\ Len(o) \in Nat /\ Len(j) = f + Len(o)
      /\ \A i \in 1 .. f : j[i] = c[i]
      /\ \A i \in 1 .. Len(o) : j[f + i] = o[i]
  BY <1>1, JoinIs
<1> HIDE DEF j
<1>3. n \in Nat /\ n <= Len(j) /\ n <= Len(c)
  BY <1>1, <1>2
<1>4. ASSUME NEW i \in 1 .. n
      PROVE  j[i] = c[i]
  <2>1. CASE i <= f
    <3>1. i \in 1 .. f
      BY <1>1, <1>4, <2>1
    <3> QED
      BY <1>2, <3>1
  <2>2. CASE i > f
    <3> DEFINE l == i - f
    <3>1. l \in 1 .. k /\ l \in 1 .. Len(o) /\ f + l = i
      BY <1>1, <1>2, <1>4, <2>2
    <3> HIDE DEF l
    <3>2. j[f + l] = o[l] /\ c[f + l] = o[l]
      BY <1>2, <3>1
    <3> QED
      BY <3>1, <3>2
  <2>3. i <= f \/ i > f
    BY <1>1, <1>4
  <2> QED
    BY <2>1, <2>2, <2>3
<1> HIDE DEF n
<1>5. Upto(j, n) = Upto(c, n)
  BY <1>2, <1>3, <1>4, UptoSame
<1>6. Upto(c, n) = c
  BY UptoAll DEF n
<1> QED
  BY <1>2, <1>5, <1>6 DEF j, n

\* try_reorg ends: the active chain is the branch on the chain below it.
LEMMA CommitWalks ==
  ASSUME IInv, NEW height, ReorgInv(height), CommitReorg
  PROVE  /\ ReorgInv(height)'
         /\ SettledChain' = activeChain
         /\ ChainWork(activeChain) > ChainWork(SettledChain)
<1> DEFINE n == Len(activeChain)
           f == ForkPlace
           s == frozen[branch]
<1>1. /\ at = "extend" /\ at' = "idle" /\ Reorganising /\ pos > Len(s)
      /\ activeChain' = activeChain /\ now' = now
  BY DEF CommitReorg, ReturnConnected, Reorganising, envVars
<1>2. /\ n = f + pos - 1 /\ pos <= Len(s) + 1 /\ f \in 1 .. n /\ pos \in Nat /\ Len(s) \in Nat
      /\ \A i \in 1 .. pos - 1 : activeChain[f + i] = s[i]
      /\ s \in Seq(Blocks) /\ activeChain \in Seq(Blocks)
  BY <1>1, ForkIs, LoopFacts DEF ReorgInv, Walks
<1>3. pos - 1 = Len(s) /\ n = f + Len(s) /\ Len(s) \in 0 .. Len(s)
  <2> DEFINE m == Len(s)
             p == pos
  <2>1. n = f + p - 1 /\ f \in Nat /\ p \in Nat /\ m \in Nat /\ p <= m + 1 /\ p > m
    BY <1>1, <1>2
  <2> HIDE DEF n, f, m, p
  <2>2. p - 1 = m /\ n = f + m /\ m \in 0 .. m
    BY <2>1
  <2> QED
    BY <2>2 DEF m, p
<1>4. Upto(activeChain, f) \o s = activeChain
  <2> HIDE DEF f, s
  <2>1. \A i \in 1 .. Len(s) : activeChain[f + i] = s[i]
    BY <1>2, <1>3
  <2>2. /\ Upto(activeChain, f) \o s \in Seq(Blocks)
        /\ Len(Upto(activeChain, f) \o s) = f + Len(s)
        /\ Upto(Upto(activeChain, f) \o s, n) = activeChain
    BY <1>2, <1>3, <2>1, JoinPrefix
  <2>3. Upto(Upto(activeChain, f) \o s, Len(Upto(activeChain, f) \o s)) = Upto(activeChain, f) \o s
    BY <2>2, UptoAll
  <2> QED
    BY <1>3, <2>2, <2>3
<1>5. ChainWork(activeChain) > startWork /\ startWork = ChainWork(SettledChain)
  BY <1>1, <1>4 DEF ReorgInv, Weighs
<1>6. Good(height, now', activeChain')
  BY <1>1 DEF ReorgInv
<1>7. ReorgInv(height)' /\ SettledChain' = activeChain'
  BY <1>1, <1>6, ReorgInvOutside
<1> QED
  BY <1>1, <1>5, <1>7

\* The next of the old blocks fits on the active chain, and its transactions are
\* pending.
LEMMA NextOldFits ==
  ASSUME IInv, NEW height, ReorgInv(height), at = "restore", pos <= Len(old)
  PROVE  /\ pos \in 1 .. Len(old) /\ old[pos] \in Blocks
         /\ Fits(height, now, old[pos], activeChain)
         /\ NonCoinbase(TxsOf[old[pos]]) \subseteq mempool
<1> DEFINE n == Len(activeChain)
           f == ForkPlace
           c == SettledChain
           p == pos - 1
<1>1. Reorganising /\ c = Upto(activeChain, f) \o old
  BY SettledIs DEF Reorganising
<1>2. /\ n = f + pos - 1 /\ f \in 1 .. n /\ pos \in Nat /\ Len(old) \in Nat /\ pos >= 1
      /\ \A i \in 1 .. pos - 1 : activeChain[f + i] = old[i]
      /\ old \in Seq(Blocks) /\ activeChain \in Seq(Blocks) /\ DOMAIN old = 1 .. Len(old)
      /\ \A i \in 1 .. Len(old) : old[i] \in Blocks
  BY <1>1, ForkIs, LoopFacts DEF ReorgInv, Walks
<1>3. p \in 0 .. Len(old) /\ n = f + p /\ pos \in 1 .. Len(old) /\ f + pos = n + 1
  <2> HIDE DEF n, f
  <2> QED
    BY <1>2
<1>4. /\ Len(c) = f + Len(old) /\ Upto(c, n) = activeChain
      /\ \A i \in 1 .. Len(old) : c[f + i] = old[i]
  <2> HIDE DEF f, p, c
  <2>1. \A i \in 1 .. p : activeChain[f + i] = old[i]
    BY <1>2 DEF p
  <2> QED
    BY <1>1, <1>2, <1>3, <2>1, JoinPrefix
<1>5. n \in 1 .. Len(c) - 1
  <2> HIDE DEF f, n, c
  <2> QED
    BY <1>2, <1>3, <1>4
<1>6. c[n + 1] = old[pos]
  <2> HIDE DEF f, n, c
  <2> QED
    BY <1>3, <1>4
<1>7. Good(height, now, c)
  BY DEF ReorgInv
<1>8. Fits(height, now, c[n + 1], Upto(c, n))
  <2> HIDE DEF c, n
  <2> QED
    BY <1>5, <1>7, GoodFits
<1>9. Fits(height, now, old[pos], activeChain)
  BY <1>4, <1>6, <1>8
<1>10. NonCoinbase(TxsOf[old[pos]]) \subseteq mempool
  <2>1. pos \in DOMAIN old /\ pos >= pos
    BY <1>2, <1>3
  <2> QED
    BY <2>1 DEF ReorgInv, PoolKeeps
<1> QED
  BY <1>2, <1>3, <1>9, <1>10

\* connect_block takes a block that extends the active chain.
LEMMA ExtensionIsTaken ==
  ASSUME NEW b \in Blocks, ~OnActive(b), ExtendsActive(b)
  PROVE  ~FailInReorg(b)
  BY DEF FailInReorg, ExtendsActive, IsInvalid, IsOrphan, Known, PushAside, ExtendsBranch,
         OpensBranch

\* The blocks of a good chain have different transactions.
LEMMA GoodApart ==
  ASSUME NEW h, NEW t, NEW c, Good(h, t, c), h[Genesis] = 0,
         NEW i \in 2 .. Len(c), NEW j \in 2 .. Len(c), i < j
  PROVE  Elements(TxsOf[c[i]]) \cap Elements(TxsOf[c[j]]) = {}
<1> DEFINE d == Upto(c, j - 1)
           l == j - 1
<1>1. Fits(h, t, c[j], d)
  BY GoodPlaced
<1>2. c \in Seq(Blocks) /\ Len(c) \in Nat
  BY LenProperties DEF Good
<1>3. l \in Nat /\ l <= Len(c) /\ i \in 2 .. l /\ i \in 1 .. l
  BY <1>2
<1>4. Len(d) = l /\ d[i] = c[i]
  <2> HIDE DEF l
  <2>1. Len(Upto(c, l)) = l /\ \A k \in 1 .. l : Upto(c, l)[k] = c[k]
    BY <1>2, <1>3, UptoIs
  <2> QED
    BY <1>3, <2>1 DEF l
<1> HIDE DEF d, l
<1>5. FindsCoins(d, c[j])
  BY <1>1 DEF Fits
<1>6. Elements(TxsOf[c[i]]) \subseteq MinedTo(d, Len(d))
  BY <1>3, <1>4 DEF MinedTo, TxsAt
<1> QED
  BY <1>5, <1>6 DEF FindsCoins

\* The old blocks that wait to be connected again have no transaction of the one
\* that is connected now.
LEMMA OldApart ==
  ASSUME IInv, NEW height, Orderly(height), ReorgInv(height), at = "restore", pos <= Len(old),
         NEW i \in DOMAIN old, i > pos
  PROVE  Elements(TxsOf[old[pos]]) \cap Elements(TxsOf[old[i]]) = {}
<1> DEFINE f == ForkPlace
           c == SettledChain
           n == Len(activeChain)
<1>1. Reorganising /\ c = Upto(activeChain, f) \o old /\ height[Genesis] = 0
  BY SettledIs DEF Reorganising, Orderly, IsHeight
<1>2. /\ f \in 1 .. n /\ Len(old) \in Nat /\ pos \in Nat /\ pos >= 1
      /\ old \in Seq(Blocks) /\ activeChain \in Seq(Blocks) /\ DOMAIN old = 1 .. Len(old)
  BY <1>1, ForkIs, LoopFacts
<1>3. n \in Nat
  BY <1>2, LenProperties
<1>4. f \in Nat /\ f <= n /\ f >= 1
  <2> HIDE DEF f, n
  <2> QED
    BY <1>2, <1>3
<1>5. Len(c) = f + Len(old) /\ \A k \in 1 .. Len(old) : c[f + k] = old[k]
  <2> HIDE DEF f, c
  <2> QED
    BY <1>1, <1>2, <1>4, JoinIs, ZenonT(40)
<1>6. /\ f + pos \in 2 .. Len(c) /\ f + i \in 2 .. Len(c) /\ f + pos < f + i
      /\ pos \in 1 .. Len(old) /\ i \in 1 .. Len(old)
  <2> HIDE DEF f, c, n
  <2> QED
    BY <1>2, <1>4, <1>5
<1>7. Good(height, now, c)
  BY DEF ReorgInv
<1>8. Elements(TxsOf[c[f + pos]]) \cap Elements(TxsOf[c[f + i]]) = {}
  <2> HIDE DEF f, c
  <2> QED
    BY <1>1, <1>6, <1>7, GoodApart
<1> QED
  BY <1>5, <1>6, <1>8

\* rollback_reorg connects a block again: connect_block always takes it.
LEMMA RestoreWalks ==
  ASSUME IInv, NEW height, Orderly(height), CoinInv(height), ReorgInv(height), RestoreOld
  PROVE  /\ ReorgInv(height)' /\ SettledChain' = SettledChain
         /\ PushOnActive(old[pos]) /\ ~OnActive(old[pos]) /\ at = "restore" /\ at' = "restore"
<1> DEFINE b == old[pos]
           n == Len(activeChain)
           f == ForkPlace
<1>1. /\ at = "restore" /\ at' = "restore" /\ pos <= Len(old) /\ Reorganising /\ pos' = pos + 1
      /\ ConnectInReorg(b) \/ FailInReorg(b)
      /\ UNCHANGED <<now, frozen, branch, startWork, forkBlock, old>>
  BY DEF RestoreOld, Reorganising, callVars, envVars
<1>2. /\ pos \in 1 .. Len(old) /\ b \in Blocks /\ Fits(height, now, b, activeChain)
      /\ NonCoinbase(TxsOf[b]) \subseteq mempool
  BY <1>1, NextOldFits
<1>3. ~OnActive(b) /\ ExtendsActive(b)
  BY <1>2, FitsExtends
<1>4. PushOnActive(b)
  BY <1>1, <1>2, <1>3, ExtensionIsTaken DEF ConnectInReorg
<1>5. /\ n \in Nat \ {0} /\ activeChain' \in Seq(Blocks) /\ Len(activeChain') = n + 1
      /\ \A i \in 1 .. n : activeChain'[i] = activeChain[i]
      /\ activeChain'[n + 1] = b /\ activeChain' = Append(activeChain, b)
      /\ ForkPlace' = f
      /\ mempool' = mempool \ Elements(TxsOf[b])
  BY <1>1, <1>2, <1>3, <1>4, PushedAboveFork
<1>6. Upto(activeChain', f) = Upto(activeChain, f)
  BY <1>1, <1>2, <1>3, <1>4, <1>5, ForkBelow
<1>7. Good(height, now, activeChain')
  BY <1>2, <1>5, GoodAppend DEF ReorgInv
<1>8. SettledChain' = SettledChain
  <2>1. SettledChain = Upto(activeChain, f) \o old
    BY <1>1, SettledIs
  <2>2. SettledChain' = Upto(activeChain', ForkPlace') \o old'
    BY <1>1, SettledNext
  <2> QED
    BY <1>1, <1>5, <1>6, <2>1, <2>2
<1>9. PoolKeeps'
  <2>1. ASSUME NEW i \in DOMAIN old, i >= pos + 1
        PROVE  NonCoinbase(TxsOf[old[i]]) \subseteq mempool'
    <3>1. i > pos /\ i >= pos
      <4>1. DOMAIN old \subseteq Nat /\ pos \in Nat
        BY <1>1, LoopFacts
      <4> QED
        BY <2>1, <4>1
    <3>2. NonCoinbase(TxsOf[old[i]]) \subseteq mempool
      BY <1>1, <3>1 DEF ReorgInv, PoolKeeps
    <3>3. Elements(TxsOf[b]) \cap Elements(TxsOf[old[i]]) = {}
      BY <1>1, <3>1, OldApart
    <3> QED
      BY <1>5, <3>2, <3>3 DEF NonCoinbase
  <2> QED
    BY <1>1, <2>1 DEF PoolKeeps
<1>10. Walks'
  <2> DEFINE p == pos
  <2>1. /\ n = f + p - 1 /\ f \in 1 .. n /\ p \in Nat /\ p >= 1 /\ Len(old) \in Nat
        /\ \A i \in 1 .. p - 1 : activeChain[f + i] = old[i]
    BY <1>1, ForkIs, LoopFacts DEF ReorgInv, Walks
  <2>2. /\ n + 1 = f + (p + 1) - 1 /\ p + 1 <= Len(old) + 1 /\ (p + 1) - 1 = p
        /\ f + p = n + 1
    <3> DEFINE m == Len(old)
    <3>1. f \in Nat /\ m \in Nat /\ p <= m
      BY <1>1, <2>1
    <3> HIDE DEF f, n, p, m
    <3>2. n = f + p - 1 /\ p \in Nat
      BY <2>1
    <3>3. n + 1 = f + (p + 1) - 1 /\ p + 1 <= m + 1 /\ (p + 1) - 1 = p /\ f + p = n + 1
      BY <3>1, <3>2
    <3> QED
      BY <3>3 DEF m
  <2>3. ASSUME NEW i \in 1 .. p
        PROVE  activeChain'[f + i] = old[i]
    <3>1. CASE i = p
      BY <1>5, <2>2, <3>1
    <3>2. CASE i # p
      <4>1. i \in 1 .. p - 1 /\ f + i \in 1 .. n
        <5> HIDE DEF f, n, p
        <5> QED
          BY <1>5, <2>1, <2>2, <2>3, <3>2
      <4> QED
        BY <1>5, <2>1, <4>1
    <3> QED
      BY <3>1, <3>2
  <2> QED
    BY <1>1, <1>5, <2>2, <2>3 DEF Walks
<1>11. Weighs'
  BY <1>1, <1>8 DEF ReorgInv, Weighs, Reorganising
<1> QED
  BY <1>1, <1>3, <1>4, <1>7, <1>8, <1>9, <1>10, <1>11 DEF ReorgInv

\* rollback_reorg ends: the active chain is the settled one again.
LEMMA RollbackWalks ==
  ASSUME IInv, NEW height, ReorgInv(height), RollbackDone
  PROVE  /\ ReorgInv(height)' /\ SettledChain' = SettledChain
         /\ activeChain = SettledChain /\ at = "restore"
<1> DEFINE n == Len(activeChain)
           f == ForkPlace
<1>1. /\ at = "restore" /\ at' = "scan" /\ Reorganising /\ pos > Len(old)
      /\ activeChain' = activeChain /\ now' = now /\ startWork' = startWork
      /\ SettledChain = Upto(activeChain, f) \o old
  BY SettledIs DEF RollbackDone, Reorganising, envVars, chainVars
<1>2. /\ n = f + pos - 1 /\ pos <= Len(old) + 1 /\ f \in 1 .. n /\ pos \in Nat /\ Len(old) \in Nat
      /\ \A i \in 1 .. pos - 1 : activeChain[f + i] = old[i]
      /\ old \in Seq(Blocks) /\ activeChain \in Seq(Blocks)
  BY <1>1, ForkIs, LoopFacts DEF ReorgInv, Walks
<1>3. pos - 1 = Len(old) /\ n = f + Len(old) /\ Len(old) \in 0 .. Len(old)
  <2> DEFINE m == Len(old)
             p == pos
  <2>1. n = f + p - 1 /\ f \in Nat /\ p \in Nat /\ m \in Nat /\ p <= m + 1 /\ p > m
    BY <1>1, <1>2
  <2> HIDE DEF n, f, m, p
  <2>2. p - 1 = m /\ n = f + m /\ m \in 0 .. m
    BY <2>1
  <2> QED
    BY <2>2 DEF m, p
<1>4. Upto(activeChain, f) \o old = activeChain
  <2> HIDE DEF f
  <2>1. \A i \in 1 .. Len(old) : activeChain[f + i] = old[i]
    BY <1>2, <1>3
  <2>2. /\ Upto(activeChain, f) \o old \in Seq(Blocks)
        /\ Len(Upto(activeChain, f) \o old) = f + Len(old)
        /\ Upto(Upto(activeChain, f) \o old, n) = activeChain
    BY <1>2, <1>3, <2>1, JoinPrefix
  <2>3. Upto(Upto(activeChain, f) \o old, Len(Upto(activeChain, f) \o old))
          = Upto(activeChain, f) \o old
    BY <2>2, UptoAll
  <2> QED
    BY <1>3, <2>2, <2>3
<1>5. startWork' = ChainWork(activeChain')
  BY <1>1, <1>4 DEF ReorgInv, Weighs
<1>6. Good(height, now', activeChain')
  BY <1>1 DEF ReorgInv
<1>7. ReorgInv(height)' /\ SettledChain' = activeChain'
  BY <1>1, <1>5, <1>6, ReorgInvOutside
<1> QED
  BY <1>1, <1>4, <1>7

-----------------------------------------------------------------------------
(* A block adds work. *)

WorkAt(c) == [i \in DOMAIN c |-> BlockWork(Bits[c[i]])]

LEMMA ChainWorkIs ==
  ASSUME NEW c, IsFiniteSet(DOMAIN c)
  PROVE  ChainWork(c) = SumOver(WorkAt(c), DOMAIN c)
<1> DEFINE f == WorkAt(c)
           S == DOMAIN c
           Fold(g) == g = [s \in SUBSET S |->
                             IF s = {} THEN 0
                             ELSE BlockWork(Bits[c[First(s)]]) + g[Others(s)]]
           h == CHOOSE g : Fold(g)
<1>1. ChainWork(c) = h[S]
  BY DEF ChainWork, MapThenSumSet, MapThenFoldSet, First, Others
<1>2. PICK g : Folds(f, S, g)
  BY FoldsExist
<1>3. \A s \in SUBSET S : s # {} => f[First(s)] = BlockWork(Bits[c[First(s)]])
  BY FirstInside DEF WorkAt
<1>4. Fold(g)
  BY <1>2, <1>3 DEF Folds
<1>5. Fold(h)
  BY <1>4
<1>6. Folds(f, S, h)
  BY <1>3, <1>5 DEF Folds
<1> HIDE DEF h
<1> QED
  BY <1>1, <1>6, FoldIsSum

LEMMA BlockWorks ==
  ASSUME NEW b \in Blocks
  PROVE  BlockWork(Bits[b]) \in Nat \ {0}
<1> DEFINE n == Bits[b]
           p == TwoTo[n]
           q == TwoTo[n + 1]
<1>1. n \in Nat
  BY BlockAssumption
<1> HIDE DEF n
<1>2. p \in Nat \ {0} /\ q = 2 * p
  BY <1>1, PowersOfTwo
<1> HIDE DEF p, q
<1>3. q - 1 \in Nat \ {0}
  BY <1>2
<1> QED
  BY <1>3 DEF BlockWork, q, n

LEMMA MoreWork ==
  ASSUME NEW c \in Seq(Blocks), c # <<>>, NEW b \in Blocks
  PROVE  ChainWork(Append(c, b)) > ChainWork(c)
<1> DEFINE e == Append(c, b)
           n == Len(c)
           f == WorkAt(c)
           g == WorkAt(e)
<1>1. /\ n \in Nat \ {0} /\ e[n + 1] = b
      /\ DOMAIN c = 1 .. n /\ DOMAIN e = 1 .. n + 1
      /\ \A i \in 1 .. n : e[i] = c[i] /\ c[i] \in Blocks
  BY Longer
<1> HIDE DEF e, n
<1>2. /\ 1 .. n + 1 = (1 .. n) \cup {n + 1} /\ n + 1 \notin 1 .. n
      /\ IsFiniteSet(1 .. n) /\ IsFiniteSet(1 .. n + 1)
  BY <1>1, FS_Interval, SMTT(40)
<1>3. /\ \A i \in 1 .. n : f[i] \in Nat /\ g[i] = f[i]
      /\ g[n + 1] = BlockWork(Bits[b])
  <2>1. \A i \in 1 .. n : f[i] = BlockWork(Bits[c[i]]) /\ g[i] = BlockWork(Bits[e[i]])
    BY <1>1, <1>2 DEF WorkAt
  <2>2. g[n + 1] = BlockWork(Bits[e[n + 1]])
    BY <1>1, <1>2 DEF WorkAt
  <2> HIDE DEF f, g
  <2>3. \A i \in 1 .. n : BlockWork(Bits[c[i]]) \in Nat
    BY <1>1, BlockWorks
  <2> QED
    BY <1>1, <2>1, <2>2, <2>3
<1>4. ChainWork(c) = SumOver(f, 1 .. n) /\ ChainWork(e) = SumOver(g, 1 .. n + 1)
  BY <1>1, <1>2, ChainWorkIs
<1> DEFINE w == BlockWork(Bits[b])
<1>5. w \in Nat \ {0}
  BY BlockWorks
<1>6. g[n + 1] = w
  BY <1>3
<1> HIDE DEF f, g, w
<1>7. SumOver(g, (1 .. n) \cup {n + 1}) = g[n + 1] + SumOver(g, 1 .. n)
  <2>1. \A i \in (1 .. n) \cup {n + 1} : g[i] \in Nat
    BY <1>3, <1>5, <1>6
  <2> QED
    BY <1>2, <2>1, SumAdd
<1>8. SumOver(g, 1 .. n) = SumOver(f, 1 .. n) /\ SumOver(f, 1 .. n) \in Nat
  <2>1. \A i \in 1 .. n : g[i] = f[i]
    BY <1>3
  <2>2. \A i \in 1 .. n : f[i] \in Nat
    BY <1>3
  <2>3. SumOver(g, 1 .. n) = SumOver(f, 1 .. n)
    BY <1>2, <2>1, SumSame, ZenonT(40)
  <2> QED
    BY <1>2, <2>2, <2>3, SumTyped
<1>9. ChainWork(e) = w + ChainWork(c) /\ ChainWork(c) \in Nat
  BY <1>2, <1>4, <1>6, <1>7, <1>8
<1> QED
  BY <1>5, <1>9 DEF e

-----------------------------------------------------------------------------
(* The invariant of the reorganisations. *)

\* A step of the node leaves the settled chain, or settles one with more work.
Settles ==
  \/ SettledChain' = SettledChain
  \/ /\ SettledChain' = activeChain'
     /\ ChainWork(SettledChain') > ChainWork(SettledChain)

LEMMA ReorgInvStep ==
  ASSUME IInv, NEW height, Orderly(height), CoinInv(height), ReorgInv(height), [Next]_vars
  PROVE  /\ ReorgInv(height)'
         /\ Settles \/ FailLoad \/ restarts' # restarts
<1>1. CASE UNCHANGED vars
  <2>1. UNCHANGED <<activeChain, activeChainIndex, at, reorgVars, mempool, now>>
    BY <1>1 DEF vars, chainVars, ledgerVars, envVars, callVars
  <2>2. now \in Nat /\ now <= now
    BY DEF IInv, TypeOK, NodeTypeOK
  <2> QED
    BY <2>1, <2>2, ReorgInvKept DEF Settles
<1>2. ASSUME NEW b \in Blocks,
             \/ IgnoreSeen(b) \/ RejectBlock(b) \/ StoreOrphan(b)
             \/ ConnectToActive(b) \/ ConnectAside(b)
      PROVE  ReorgInv(height)' /\ Settles
  <2>1. ReorgInv(height)' /\ (SettledChain' = SettledChain \/ SettledChain' = Append(SettledChain, b))
    BY <1>2, ConnectWalks
  <2>2. CASE SettledChain' = Append(SettledChain, b)
    <3>1. SettledChain \in Seq(Blocks) /\ SettledChain # <<>>
      BY DEF ReorgInv, Good
    <3>2. ChainWork(SettledChain') > ChainWork(SettledChain)
      BY <2>2, <3>1, MoreWork
    <3>3. ~Reorganising'
      BY <1>2 DEF IgnoreSeen, RejectBlock, StoreOrphan, ConnectToActive, ConnectAside,
                  Connecting, NextCallIs, StartScan, Reorganising
    <3> QED
      BY <2>1, <3>2, <3>3, SettledNext DEF Settles
  <2> QED
    BY <2>1, <2>2 DEF Settles
<1>3. CASE SaveToDisk \/ FinishLoad \/ FailLoad \/ Environment
  BY <1>3, OthersWalk DEF Settles
<1>4. CASE SkipBranch \/ ReadOutOfBounds \/ ScanDone
  BY <1>4, ScanWalks DEF Settles
<1>5. CASE StartReorg
  BY <1>5, StartWalks DEF Settles
<1>6. CASE DisconnectTip
  BY <1>6, DisconnectWalks DEF Settles
<1>7. CASE ForkReached
  BY <1>7, ForkWalks DEF Settles
<1>8. CASE ExtendReorg
  BY <1>8, ExtendWalks DEF Settles
<1>9. CASE AbandonReorg
  BY <1>9, AbandonWalks DEF Settles
<1>10. CASE CommitReorg
  <2>1. activeChain' = activeChain
    BY <1>10 DEF CommitReorg
  <2> QED
    BY <1>10, <2>1, CommitWalks DEF Settles
<1>11. CASE RestoreOld
  BY <1>11, RestoreWalks DEF Settles
<1>12. CASE RollbackDone
  BY <1>12, RollbackWalks DEF Settles
<1> QED
  BY <1>1, <1>2, <1>3, <1>4, <1>5, <1>6, <1>7, <1>8, <1>9, <1>10, <1>11, <1>12
     DEF Next, Connect, Reorg

LEMMA ReorgInit ==
  ASSUME NEW height
  PROVE  Init => ReorgInv(height)
<1> SUFFICES ASSUME Init
             PROVE  ReorgInv(height)
  OBVIOUS
<1>1. activeChain = <<Genesis>> /\ at = "idle"
  BY DEF Init
<1>2. ~Reorganising /\ SettledChain = activeChain
  BY <1>1 DEF SettledChain, Reorganising
<1>3. Good(height, now, <<Genesis>>)
  BY GoodStart
<1> QED
  BY <1>1, <1>2, <1>3 DEF ReorgInv, PoolKeeps, Walks, Weighs

LEMMA ReorgAlways ==
  ASSUME NEW height, Orderly(height)
  PROVE  Spec /\ KinStay => [](IInv /\ CoinInv(height) /\ ReorgInv(height))
<1>1. Init => IInv /\ CoinInv(height) /\ ReorgInv(height)
  BY InitIInv, StartCoins, ReorgInit
<1>2. IInv /\ CoinInv(height) /\ ReorgInv(height)
        /\ [Next]_vars /\ [DisconnectTip => ~HoldsKin(Tip)]_vars
        => (IInv /\ CoinInv(height) /\ ReorgInv(height))'
  BY NextIInv, CoinStep, ReorgInvStep
<1> QED
  BY <1>1, <1>2, PTL DEF Spec, KinStay

\* Whatever a rollback does, it succeeds: rollback_reorg does not look at what
\* connect_block answers, and connect_block puts every one of the old blocks
\* back on the active chain.
THEOREM RollbackConnects ==
  ASSUME NEW height, Orderly(height)
  PROVE  Spec /\ KinStay => RollbackSucceeds
<1>1. IInv /\ CoinInv(height) /\ ReorgInv(height) /\ [Next]_vars
        => [RestoreOld => PushOnActive(old[pos])]_vars
  BY RestoreWalks
<1> QED
  BY <1>1, ReorgAlways, PTL DEF Spec, RollbackSucceeds

\* A failed reorganisation leaves exactly the chain it took apart.
THEOREM RollbackRestores ==
  ASSUME NEW height, Orderly(height)
  PROVE  Spec /\ KinStay => [][RollbackDone => activeChain = SettledChain]_vars
<1>1. IInv /\ CoinInv(height) /\ ReorgInv(height) /\ [Next]_vars
        => [RollbackDone => activeChain = SettledChain]_vars
  BY RollbackWalks
<1> QED
  BY <1>1, ReorgAlways, PTL DEF Spec

\* The process does not start over, by itself or because its file was refused.
StaysUp == [][~FailLoad /\ restarts' = restarts]_vars

\* The chain refines BestChain: while the process does not start over, the
\* settled chain is only ever replaced by a linked chain with more work, through
\* every reorganisation and every failed one.
THEOREM ChainRefinesBestChain ==
  ASSUME NEW height, Orderly(height)
  PROVE  Spec /\ KinStay /\ StaysUp => OnlyMoreWork
<1>1. Init => Promise!Init
  BY DEF Init, Promise!Init, SettledChain, Reorganising
<1>2. IInv /\ IInv' /\ CoinInv(height) /\ ReorgInv(height) /\ [Next]_vars
        /\ [~FailLoad /\ restarts' = restarts]_vars => [Promise!Adopt]_SettledChain
  <2> SUFFICES ASSUME IInv, IInv', CoinInv(height), ReorgInv(height), [Next]_vars,
                      [~FailLoad /\ restarts' = restarts]_vars
               PROVE  [Promise!Adopt]_SettledChain
    OBVIOUS
  <2>1. Settles
    <3>1. CASE UNCHANGED vars
      BY <3>1 DEF Settles, SettledChain, Reorganising, vars, chainVars, callVars, reorgVars
    <3>2. CASE ~FailLoad /\ restarts' = restarts
      BY <3>2, ReorgInvStep
    <3> QED
      BY <3>1, <3>2
  <2>2. ASSUME SettledChain' = activeChain', ChainWork(SettledChain') > ChainWork(SettledChain)
        PROVE  Promise!Adopt
    <3>1. Promise!LinkedFromGenesis(activeChain')
      BY DEF IInv, ChainIndexed, Promise!LinkedFromGenesis
    <3> QED
      BY <2>2, <3>1 DEF Promise!Adopt
  <2> QED
    BY <2>1, <2>2 DEF Settles
<1> QED
  BY <1>1, <1>2, Invariance, ReorgAlways, PTL DEF Spec, OnlyMoreWork, Promise!Spec, StaysUp


-----------------------------------------------------------------------------
(* Blocks that are kept. *)

\* The branches up to this one have been tried in vain.
Tried == IF at \in {"rollback", "restore"} THEN branch ELSE branch - 1

\* While the scan runs a side branch is what it was when the scan began, and
\* perhaps blocks of branches that were tried in vain.
BranchesKept ==
  at = "scan" \/ Reorganising =>
    \A i \in DOMAIN frozen :
      /\ Elements(frozen[i]) \subseteq Elements(sideBranches[i])
      /\ \A b \in Elements(sideBranches[i]) :
           b \in Elements(frozen[i])
             \/ \E j \in DOMAIN frozen : j <= Tried /\ b \in Elements(frozen[j])

\* What a rollback leaves in its list is on the chain again.
OldHeld ==
  /\ at = "idle" => old = <<>>
  /\ at = "scan" => Elements(old) \subseteq Elements(activeChain)

HeldInv == BranchesKept /\ OldHeld

LEMMA HeldParts ==
  ASSUME Elements(activeChain) \subseteq Held', Elements(old) \subseteq Held',
         \A i \in DOMAIN sideBranches : Elements(sideBranches[i]) \subseteq Held'
  PROVE  Held \subseteq Held'
<1> DEFINE H == Held'
<1> HIDE DEF H
<1> SUFFICES ASSUME Elements(activeChain) \subseteq H, Elements(old) \subseteq H,
                    \A i \in DOMAIN sideBranches : Elements(sideBranches[i]) \subseteq H
             PROVE  Held \subseteq H
  BY DEF H
<1> QED
  BY DEF Held

LEMMA HeldNext ==
  /\ Elements(activeChain') \subseteq Held' /\ Elements(old') \subseteq Held'
  /\ \A i \in DOMAIN sideBranches' : Elements(sideBranches'[i]) \subseteq Held'
  BY DEF Held, Elements

\* Steps that move no block and leave the scan where it is.
LEMMA HeldSame ==
  ASSUME HeldInv, UNCHANGED <<activeChain, sideBranches, at, frozen, branch, old>>
  PROVE  HeldInv' /\ Held \subseteq Held'
  BY DEF HeldInv, BranchesKept, OldHeld, Tried, Reorganising, Held

\* A block more at the end of a sequence.
LEMMA AppendElements ==
  ASSUME NEW S, NEW s \in Seq(S), NEW e \in S
  PROVE  Elements(Append(s, e)) = Elements(s) \cup {e}
<1> DEFINE n == Len(s)
           a == Append(s, e)
<1>1. /\ n \in Nat /\ DOMAIN s = 1 .. n /\ DOMAIN a = 1 .. n + 1
      /\ a[n + 1] = e /\ \A i \in 1 .. n : a[i] = s[i]
  BY AppendProperties, LenProperties
<1> HIDE DEF a, n
<1>2. \A i : i \in 1 .. n + 1 <=> i \in 1 .. n \/ i = n + 1
  BY <1>1
<1>3. Elements(a) = Elements(s) \cup {e}
  BY <1>1, <1>2, Zenon DEF Elements
<1> QED
  BY <1>3 DEF a

\* A block that goes to a side branch leaves every other one what it was.
LEMMA AsideHolds ==
  ASSUME IInv, NEW b \in Blocks, PushAside(b)
  PROVE  /\ UNCHANGED activeChain
         /\ DOMAIN sideBranches \subseteq DOMAIN sideBranches'
         /\ \A i \in DOMAIN sideBranches :
              /\ Elements(sideBranches[i]) \subseteq Elements(sideBranches'[i])
              /\ Elements(sideBranches'[i]) \subseteq Elements(sideBranches[i]) \cup {b}
<1>1. UNCHANGED activeChain
  BY DEF PushAside, PushOnBranch, PushOnNewBranch
<1>2. sideBranches \in Seq(Seq(Blocks))
  BY DEF IInv, TypeOK, ChainTypeOK
<1>3. CASE \E k \in DOMAIN sideBranches : PushOnBranch(b, k)
  <2>1. PICK k \in DOMAIN sideBranches : PushOnBranch(b, k)
    BY <1>3
  <2>2. sideBranches' = [sideBranches EXCEPT ![k] = Append(sideBranches[k], b)]
    BY <2>1 DEF PushOnBranch
  <2>3. sideBranches[k] \in Seq(Blocks)
    BY <1>2, SideBranchesBounded
  <2>4. Elements(Append(sideBranches[k], b)) = Elements(sideBranches[k]) \cup {b}
    BY <2>3, AppendElements
  <2> QED
    BY <1>1, <2>2, <2>4
<1>4. CASE PushOnNewBranch(b)
  <2> DEFINE n == Len(sideBranches)
  <2>1. sideBranches' = Append(sideBranches, <<b>>) /\ <<b>> \in Seq(Blocks)
    BY <1>4 DEF PushOnNewBranch
  <2>2. /\ n \in Nat /\ DOMAIN sideBranches = 1 .. n /\ DOMAIN sideBranches' = 1 .. n + 1
        /\ \A i \in 1 .. n : sideBranches'[i] = sideBranches[i]
    BY <1>2, <2>1, AppendProperties, LenProperties
  <2> HIDE DEF n
  <2>3. 1 .. n \subseteq 1 .. n + 1
    BY <2>2
  <2> QED
    BY <1>1, <2>2, <2>3
<1> QED
  BY <1>3, <1>4 DEF PushAside

\* A scan that begins: nothing has been tried.
LEMMA StartHolds ==
  ASSUME StartScan, Elements(old') \subseteq Elements(activeChain')
  PROVE  HeldInv'
  BY DEF StartScan, HeldInv, BranchesKept, OldHeld

\* connect_block, not called by a reorganisation.
LEMMA ConnectHolds ==
  ASSUME IInv, HeldInv, NEW b \in Blocks,
         \/ IgnoreSeen(b) \/ RejectBlock(b) \/ StoreOrphan(b)
         \/ ConnectToActive(b) \/ ConnectAside(b)
  PROVE  HeldInv' /\ Held \subseteq Held'
<1>1. CASE IgnoreSeen(b) \/ RejectBlock(b) \/ StoreOrphan(b)
  <2>1. UNCHANGED <<activeChain, sideBranches, at, frozen, branch, old>>
    BY <1>1 DEF IgnoreSeen, RejectBlock, StoreOrphan, NothingConnected, KeepOrphan,
                chainVars, reorgVars
  <2> QED
    BY <2>1, HeldSame
<1>2. CASE ConnectToActive(b) \/ ConnectAside(b)
  <2>1. at = "idle" /\ StartScan /\ UNCHANGED old
    BY <1>2 DEF ConnectToActive, ConnectAside, Connecting, NextCallIs, StartScan
  <2>2. old = <<>> /\ Elements(old) = {}
    BY <2>1 DEF HeldInv, OldHeld, Elements
  <2>3. HeldInv'
    BY <2>1, <2>2, StartHolds
  <2>4. activeChain \in Seq(Blocks)
    BY DEF IInv, TypeOK, ChainTypeOK
  <2>5. CASE PushOnActive(b)
    <3>1. activeChain' = Append(activeChain, b) /\ sideBranches' = sideBranches
      BY <2>5 DEF PushOnActive
    <3>2. Elements(activeChain) \subseteq Elements(activeChain')
      BY <2>4, <3>1, AppendElements
    <3> QED
      BY <2>2, <2>3, <3>1, <3>2, HeldParts, HeldNext
  <2>6. CASE PushAside(b)
    BY <2>2, <2>3, <2>6, AsideHolds, HeldParts, HeldNext
  <2> QED
    BY <1>2, <2>5, <2>6 DEF ConnectToActive, ConnectAside
<1> QED
  BY <1>1, <1>2

\* The disk, and the rest of the node.
LEMMA OthersHold ==
  ASSUME HeldInv, SaveToDisk \/ FinishLoad \/ FailLoad \/ Environment
  PROVE  /\ HeldInv'
         /\ Held \subseteq Held' \/ NextCallIs("wipe") \/ restarts' # restarts
<1>1. CASE SaveToDisk \/ FinishLoad
  <2>1. UNCHANGED <<activeChain, sideBranches, at, frozen, branch, old>>
    BY <1>1 DEF SaveToDisk, WriteFile, FinishLoad, chainVars, reorgVars
  <2> QED
    BY <2>1, HeldSame
<1>2. CASE FailLoad
  <2>1. NextCallIs("wipe") /\ at = "idle" /\ at' = "idle" /\ old' = old
    BY <1>2 DEF FailLoad, NextCallIs, reorgVars
  <2> QED
    BY <2>1 DEF HeldInv, BranchesKept, OldHeld, Reorganising
<1>3. CASE Restart
  <2>1. /\ restarts' = restarts + 1 /\ restarts < MaxRestarts /\ at' = "idle" /\ old' = <<>>
    BY <1>3 DEF Restart, ForgetReorg
  <2>2. HeldInv'
    BY <2>1 DEF HeldInv, BranchesKept, OldHeld, Reorganising
  <2> QED
    BY <1>3, <2>2 DEF Restart
<1>4. CASE Environment /\ ~Restart
  <2>1. UNCHANGED <<activeChain, sideBranches, at, frozen, branch, old>>
    BY <1>4 DEF Environment, ReceiveBlock, ConnectMined, AddTx, StartMining, LoadFromDisk,
                Tick, chainVars, callVars, reorgVars
  <2> QED
    BY <2>1, HeldSame
<1> QED
  BY <1>1, <1>2, <1>3, <1>4


\* What the scan works on is still there.
LEMMA FrozenPlaces ==
  ASSUME IInv, at = "scan" \/ Reorganising
  PROVE  /\ Len(frozen) \in Nat /\ DOMAIN frozen = 1 .. Len(frozen)
         /\ Len(sideBranches) \in Nat /\ DOMAIN sideBranches = 1 .. Len(sideBranches)
         /\ DOMAIN frozen \subseteq DOMAIN sideBranches
         /\ Reorganising => branch \in DOMAIN frozen
<1>1. frozen \in Seq(Seq(Blocks)) /\ sideBranches \in Seq(Seq(Blocks)) /\ branch \in Nat
  BY DEF IInv, TypeOK, ChainTypeOK, CallTypeOK
<1>2. /\ Len(frozen) \in Nat /\ DOMAIN frozen = 1 .. Len(frozen)
      /\ Len(sideBranches) \in Nat /\ DOMAIN sideBranches = 1 .. Len(sideBranches)
  BY <1>1, LenProperties
<1>3. /\ branch >= 1 /\ Len(frozen) <= Len(sideBranches)
      /\ Reorganising => branch <= Len(frozen)
  BY DEF IInv, LoopsInBounds
<1> QED
  BY <1>1, <1>2, <1>3


\* reorg_if_necessary goes on, or ends.
LEMMA ScanHolds ==
  ASSUME IInv, HeldInv, SkipBranch \/ StartReorg \/ ReadOutOfBounds \/ ScanDone \/ ForkReached
  PROVE  HeldInv' /\ Held \subseteq Held'
<1>1. UNCHANGED <<activeChain, sideBranches>>
  BY DEF SkipBranch, StartReorg, ReadOutOfBounds, ScanDone, ForkReached, chainVars
<1>2. \A i \in DOMAIN sideBranches : Elements(sideBranches[i]) \subseteq Held'
  BY <1>1, HeldNext
<1>3. Elements(activeChain) \subseteq Held'
  BY <1>1, HeldNext
<1>4. CASE SkipBranch \/ StartReorg \/ ReadOutOfBounds \/ ScanDone
  <2>1. at = "scan" /\ Elements(old) \subseteq Elements(activeChain)
    BY <1>4 DEF SkipBranch, StartReorg, ReadOutOfBounds, ScanDone, Scanning, HeldInv, OldHeld
  <2>2. Held \subseteq Held'
    BY <1>2, <1>3, <2>1, HeldParts
  <2>3. CASE SkipBranch
    <3>1. at' = "scan" /\ branch' = branch + 1 /\ frozen' = frozen /\ old' = old
      BY <2>1, <2>3 DEF SkipBranch, NextBranch, callVars
    <3>2. branch - 1 \in Int /\ branch' - 1 \in Int /\ branch - 1 <= branch' - 1
      BY <3>1 DEF IInv, TypeOK, CallTypeOK
    <3>3. BranchesKept'
      <4>1. ASSUME NEW i \in DOMAIN frozen
            PROVE  /\ Elements(frozen[i]) \subseteq Elements(sideBranches[i])
                   /\ \A b \in Elements(sideBranches[i]) :
                        b \in Elements(frozen[i])
                          \/ \E j \in DOMAIN frozen : j <= branch' - 1 /\ b \in Elements(frozen[j])
        <5>1. \A j \in DOMAIN frozen : j \in Int
          <6>1. frozen \in Seq(Seq(Blocks))
            BY DEF IInv, TypeOK, CallTypeOK
          <6> QED
            BY <6>1, LenProperties
        <5>2. \A j \in DOMAIN frozen : j <= branch - 1 => j <= branch' - 1
          BY <3>2, <5>1
        <5> QED
          BY <2>1, <5>2 DEF HeldInv, BranchesKept, Tried
      <4> QED
        BY <1>1, <3>1, <4>1 DEF BranchesKept, Tried
    <3> QED
      BY <1>1, <2>1, <2>2, <3>1, <3>3 DEF HeldInv, OldHeld
  <2>4. CASE StartReorg
    <3>1. at' = "disconnect" /\ branch' = branch /\ frozen' = frozen
      BY <2>4 DEF StartReorg
    <3> QED
      BY <1>1, <2>1, <2>2, <3>1 DEF HeldInv, BranchesKept, OldHeld, Tried, Reorganising
  <2>5. CASE ReadOutOfBounds \/ ScanDone
    <3>1. at' = "crashed" \/ (at' = "idle" /\ old' = <<>>)
      BY <2>5 DEF ReadOutOfBounds, ScanDone, ReturnConnected, ForgetReorg
    <3> QED
      BY <2>2, <3>1 DEF HeldInv, BranchesKept, OldHeld, Reorganising
  <2> QED
    BY <1>4, <2>3, <2>4, <2>5
<1>5. CASE ForkReached
  <2>1. /\ UNCHANGED <<frozen, branch, old>>
        /\ (at = "disconnect" /\ at' = "extend") \/ (at = "rollback" /\ at' = "restore")
    BY <1>5 DEF ForkReached
  <2>2. HeldInv'
    BY <1>1, <2>1 DEF HeldInv, BranchesKept, OldHeld, Tried, Reorganising
  <2>3. Elements(old) \subseteq Held'
    BY <2>1, HeldNext
  <2> QED
    BY <1>2, <1>3, <2>2, <2>3, HeldParts
<1> QED
  BY <1>4, <1>5

\* disconnect_to_fork takes a block off the chain: in try_reorg it goes to the
\* list of old blocks, in rollback_reorg it is one of the branch.
LEMMA DisconnectHolds ==
  ASSUME IInv, NEW height, ReorgInv(height), HeldInv, DisconnectTip
  PROVE  HeldInv' /\ Held \subseteq Held'
<1> DEFINE n == Len(activeChain)
           t == activeChain[n]
<1>1. /\ n \in Nat \ {0} /\ activeChain' \in Seq(Blocks) /\ Len(activeChain') = n - 1
      /\ \A i \in 1 .. n - 1 : activeChain'[i] = activeChain[i]
      /\ ForkPlace \in 1 .. n - 1 /\ Tip = t /\ t \in Blocks /\ Reorganising
  BY PoppedAboveFork
<1>2. /\ at \in {"disconnect", "rollback"} /\ at' = at
      /\ UNCHANGED <<sideBranches, frozen, branch>>
      /\ old' = IF at = "disconnect" THEN <<t>> \o old ELSE old
  BY <1>1 DEF DisconnectTip, PopTip, callVars
<1>3. DOMAIN activeChain = 1 .. n /\ DOMAIN activeChain' = 1 .. n - 1
  BY <1>1, LenProperties DEF IInv, TypeOK, ChainTypeOK
<1>4. old \in Seq(Blocks)
  BY <1>1, LoopFacts
<1>5. HeldInv'
  BY <1>2 DEF HeldInv, BranchesKept, OldHeld, Tried, Reorganising
<1>6. Elements(old) \subseteq Elements(old') /\ (at = "disconnect" => t \in Elements(old'))
  <2>1. CASE at = "disconnect"
    <3>1. /\ Len(old) \in Nat /\ DOMAIN old = 1 .. Len(old)
          /\ DOMAIN (<<t>> \o old) = 1 .. Len(old) + 1
          /\ (<<t>> \o old)[1] = t /\ \A i \in 1 .. Len(old) : (<<t>> \o old)[i + 1] = old[i]
      BY <1>1, <1>4, Before1
    <3> DEFINE m == Len(old)
               o == <<t>> \o old
    <3>2. o = old'
      BY <1>2, <2>1
    <3> HIDE DEF o, m
    <3>3. 1 \in 1 .. m + 1 /\ \A i \in 1 .. m : i + 1 \in 1 .. m + 1
      BY <3>1 DEF m
    <3>4. DOMAIN old = 1 .. m /\ DOMAIN o = 1 .. m + 1 /\ o[1] = t
          /\ \A i \in 1 .. m : o[i + 1] = old[i]
      BY <3>1 DEF o, m
    <3> HIDE DEF t
    <3>5. t \in Elements(o)
      BY <3>3, <3>4, Zenon DEF Elements
    <3>6. ASSUME NEW b \in Elements(old) PROVE b \in Elements(o)
      <4>1. PICK i \in 1 .. m : b = old[i]
        BY <3>4, Zenon DEF Elements
      <4>2. i + 1 \in DOMAIN o /\ o[i + 1] = b
        BY <3>3, <3>4, <4>1, Zenon
      <4> QED
        BY <4>2, Zenon DEF Elements
    <3> QED
      BY <3>2, <3>5, <3>6
  <2>2. CASE at = "rollback"
    BY <1>2, <2>2
  <2> QED
    BY <1>2, <2>1, <2>2
<1>7. t \in Held'
  <2>1. CASE at = "disconnect"
    BY <1>6, <2>1, HeldNext
  <2>2. CASE at = "rollback"
    <3>1. n \in ForkPlace + 1 .. n
      <4> DEFINE f == ForkPlace
      <4>1. f \in 1 .. n - 1 /\ n \in Nat
        BY <1>1
      <4> HIDE DEF f, n
      <4>2. n \in f + 1 .. n
        BY <4>1
      <4> QED
        BY <4>2 DEF f
    <3>2. t \in Elements(frozen[branch])
      BY <2>2, <3>1 DEF ReorgInv, Walks
    <3>3. branch \in DOMAIN frozen
      <4>1. frozen \in Seq(Seq(Blocks))
        BY DEF IInv, TypeOK, CallTypeOK
      <4> QED
        BY <1>1, <4>1, LoopFacts, LenProperties
    <3>4. t \in Elements(sideBranches[branch])
      BY <1>1, <3>2, <3>3 DEF HeldInv, BranchesKept
    <3>5. branch \in DOMAIN sideBranches'
      BY <1>1, <1>2, LoopFacts, FrozenPlaces
    <3> QED
      BY <1>2, <3>4, <3>5, HeldNext
  <2> QED
    BY <1>2, <2>1, <2>2
<1>8. Elements(activeChain) \subseteq Held'
  <2>1. ASSUME NEW i \in 1 .. n
        PROVE  activeChain[i] \in Held'
    <3>1. CASE i = n
      BY <1>7, <3>1
    <3>2. CASE i # n
      <4>1. i \in 1 .. n - 1
        <5> HIDE DEF n
        <5> QED
          BY <1>1, <2>1, <3>2
      <4>2. activeChain[i] \in Elements(activeChain')
        BY <1>1, <1>3, <4>1 DEF Elements
      <4> QED
        BY <4>2, HeldNext
    <3> QED
      BY <3>1, <3>2
  <2> QED
    BY <1>3, <2>1 DEF Elements
<1>9. Elements(old) \subseteq Held'
  BY <1>6, HeldNext
<1>10. \A i \in DOMAIN sideBranches : Elements(sideBranches[i]) \subseteq Held'
  BY <1>2, HeldNext
<1> QED
  BY <1>5, <1>8, <1>9, <1>10, HeldParts


\* try_reorg connects a block of the branch, or rollback_reorg an old one.
LEMMA LoopHolds ==
  ASSUME IInv, NEW height, Orderly(height), CoinInv(height), ReorgInv(height), HeldInv,
         ExtendReorg \/ RestoreOld
  PROVE  HeldInv' /\ Held \subseteq Held'
<1>1. /\ \E b \in Blocks : PushOnActive(b)
      /\ at' = at /\ UNCHANGED <<frozen, branch, old>> /\ at \in {"extend", "restore"}
  <2>1. CASE ExtendReorg
    <3>1. Reorganising /\ pos \in Nat /\ pos >= 1 /\ pos <= Len(frozen[branch])
      BY <2>1, LoopFacts DEF ExtendReorg, Extending, Reorganising
    <3>2. pos \in 1 .. Len(frozen[branch])
      BY <3>1, LoopFacts
    <3>3. frozen[branch][pos] \in Blocks
      BY <3>1, <3>2, LoopFacts
    <3> QED
      BY <2>1, <3>3 DEF ExtendReorg, Extending, ConnectInReorg, callVars
  <2>2. CASE RestoreOld
    <3>1. PushOnActive(old[pos]) /\ at = "restore" /\ at' = "restore"
      BY <2>2, RestoreWalks
    <3>2. old[pos] \in Blocks
      BY <2>2, <3>1, NextOldFits DEF RestoreOld
    <3> QED
      BY <2>2, <3>1, <3>2 DEF RestoreOld
  <2> QED
    BY <2>1, <2>2
<1>2. PICK b \in Blocks : PushOnActive(b)
  BY <1>1
<1>3. activeChain' = Append(activeChain, b) /\ sideBranches' = sideBranches
  BY <1>2 DEF PushOnActive
<1>4. activeChain \in Seq(Blocks)
  BY DEF IInv, TypeOK, ChainTypeOK
<1>5. Elements(activeChain) \subseteq Elements(activeChain')
  BY <1>3, <1>4, AppendElements
<1>6. HeldInv'
  BY <1>1, <1>3 DEF HeldInv, BranchesKept, OldHeld, Tried, Reorganising
<1> QED
  BY <1>1, <1>3, <1>5, <1>6, HeldParts, HeldNext

\* A block of the branch is refused, and may go to a side branch: the branch has
\* been tried.
LEMMA AbandonHolds ==
  ASSUME IInv, HeldInv, AbandonReorg
  PROVE  HeldInv' /\ Held \subseteq Held'
<1> DEFINE b == frozen[branch][pos]
<1>1. /\ at = "extend" /\ at' = "rollback" /\ FailInReorg(b)
      /\ UNCHANGED <<frozen, branch, old>> /\ Reorganising
      /\ pos <= Len(frozen[branch])
  BY DEF AbandonReorg, Extending, Reorganising, reorgVars
<1>2. pos \in 1 .. Len(frozen[branch])
  BY <1>1, LoopFacts
<1>3. b \in Blocks /\ b \in Elements(frozen[branch])
  BY <1>1, <1>2, LoopFacts DEF Elements
<1>4. branch \in DOMAIN frozen /\ DOMAIN frozen \subseteq DOMAIN sideBranches
  BY <1>1, FrozenPlaces
<1>5. /\ UNCHANGED activeChain
      /\ DOMAIN sideBranches \subseteq DOMAIN sideBranches'
      /\ \A i \in DOMAIN sideBranches :
           /\ Elements(sideBranches[i]) \subseteq Elements(sideBranches'[i])
           /\ Elements(sideBranches'[i]) \subseteq Elements(sideBranches[i]) \cup {b}
  <2>1. CASE PushAside(b)
    BY <1>3, <2>1, AsideHolds
  <2>2. CASE ~PushAside(b)
    <3>1. UNCHANGED <<activeChain, sideBranches>>
      BY <1>1, <2>2 DEF FailInReorg, NothingConnected, KeepOrphan, chainVars
    <3> QED
      BY <3>1
  <2> QED
    BY <2>1, <2>2
<1>6. Held \subseteq Held'
  BY <1>1, <1>5, HeldParts, HeldNext
<1> DEFINE Old(i, c) == c \in Elements(frozen[i])
<1>7. \A j \in DOMAIN frozen : j <= branch - 1 => j <= branch
  BY <1>1, FrozenPlaces DEF IInv, TypeOK, CallTypeOK
<1>8. branch <= branch
  BY <1>4, <1>1, FrozenPlaces
<1>9. ASSUME NEW i \in DOMAIN frozen
      PROVE  /\ Elements(frozen[i]) \subseteq Elements(sideBranches'[i])
             /\ \A c \in Elements(sideBranches'[i]) :
                  Old(i, c) \/ \E j \in DOMAIN frozen : j <= branch /\ Old(j, c)
  <2>1. /\ Elements(frozen[i]) \subseteq Elements(sideBranches[i])
        /\ \A c \in Elements(sideBranches[i]) :
             Old(i, c) \/ \E j \in DOMAIN frozen : j <= branch - 1 /\ Old(j, c)
    BY <1>1 DEF HeldInv, BranchesKept, Tried
  <2>2. i \in DOMAIN sideBranches
    BY <1>4
  <2>3. /\ Elements(sideBranches[i]) \subseteq Elements(sideBranches'[i])
        /\ Elements(sideBranches'[i]) \subseteq Elements(sideBranches[i]) \cup {b}
    BY <1>5, <2>2
  <2>4. Old(branch, b)
    BY <1>3
  <2> HIDE DEF Old, b
  <2>5. ASSUME NEW c \in Elements(sideBranches'[i])
        PROVE  Old(i, c) \/ \E j \in DOMAIN frozen : j <= branch /\ Old(j, c)
    <3>1. CASE c = b
      BY <1>4, <1>8, <2>4, <3>1
    <3>2. CASE c # b
      <4>1. c \in Elements(sideBranches[i])
        BY <2>3, <3>2
      <4> QED
        BY <1>7, <2>1, <4>1
    <3> QED
      BY <3>1, <3>2
  <2> QED
    BY <2>1, <2>3, <2>5
<1>10. BranchesKept'
  BY <1>1, <1>9 DEF BranchesKept, Tried
<1> QED
  BY <1>1, <1>6, <1>10 DEF HeldInv, OldHeld

\* What is left of a sequence of which one element is taken out.
LEMMA RemovedElements ==
  ASSUME NEW S, NEW s \in Seq(S), NEW k \in DOMAIN s
  PROVE  \A i \in DOMAIN s : i # k => \E j \in DOMAIN RemoveAt(s, k) : RemoveAt(s, k)[j] = s[i]
<1> DEFINE n == Len(s)
           r == RemoveAt(s, k)
<1>1. n \in Nat /\ DOMAIN s = 1 .. n
  BY LenProperties
<1>2. DOMAIN r = 1 .. n - 1 /\ \A i \in 1 .. n - 1 : r[i] = s[Around(i, k)]
  BY <1>1, Removed
<1> HIDE DEF r, n
<1>3. ASSUME NEW i \in 1 .. n, i # k
      PROVE  \E j \in 1 .. n - 1 : Around(j, k) = i
  <2>1. k \in 1 .. n
    BY <1>1
  <2>2. CASE i < k
    <3>1. i \in 1 .. n - 1
      BY <1>1, <2>1, <2>2
    <3> QED
      BY <2>2, <3>1 DEF Around
  <2>3. CASE ~(i < k)
    <3>1. i - 1 \in 1 .. n - 1 /\ ~(i - 1 < k) /\ (i - 1) + 1 = i
      BY <1>1, <1>3, <2>1, <2>3
    <3> QED
      BY <3>1 DEF Around
  <2> QED
    BY <2>2, <2>3
<1>4. \A i \in DOMAIN s : i # k => \E j \in DOMAIN r : r[j] = s[i]
  <2> TAKE i \in DOMAIN s
  <2> HAVE i # k
  <2>1. PICK j \in 1 .. n - 1 : Around(j, k) = i
    BY <1>1, <1>3
  <2> QED
    BY <1>2, <2>1
<1> QED
  BY <1>4 DEF r

\* try_reorg ends: the branch leaves side_branches, its blocks are on the active
\* chain, and what it got from branches tried before is in those.
LEMMA CommitHolds ==
  ASSUME IInv, NEW height, ReorgInv(height), HeldInv, CommitReorg
  PROVE  HeldInv' /\ Held \subseteq Held'
<1> DEFINE rest == RemoveAt(sideBranches, branch)
<1>1. /\ at = "extend" /\ at' = "idle" /\ old' = <<>> /\ pos > Len(frozen[branch])
      /\ activeChain' = activeChain /\ sideBranches' = Append(rest, old) /\ Reorganising
  BY DEF CommitReorg, SwapBranches, ReturnConnected, ForgetReorg, Reorganising
<1>2. HeldInv'
  BY <1>1 DEF HeldInv, BranchesKept, OldHeld, Reorganising
<1>3. Elements(activeChain) \subseteq Held'
  BY <1>1, HeldNext
<1>4. /\ sideBranches \in Seq(Seq(Blocks)) /\ old \in Seq(Blocks)
      /\ branch \in DOMAIN sideBranches /\ branch \in DOMAIN frozen
      /\ DOMAIN frozen \subseteq DOMAIN sideBranches
      /\ branch \in 1 .. Len(sideBranches)
  BY <1>1, FrozenPlaces, LoopFacts DEF IInv, TypeOK, ChainTypeOK
<1>5. rest \in Seq(Seq(Blocks))
  BY <1>4, RemoveAtTyped
<1>6. \A i \in DOMAIN sideBranches : i # branch => \E j \in DOMAIN rest : rest[j] = sideBranches[i]
  BY <1>4, RemovedElements
<1> HIDE DEF rest
<1>7. Elements(sideBranches') = Elements(rest) \cup {old}
  BY <1>1, <1>4, <1>5, AppendElements
<1>8. \A s \in Elements(sideBranches') : Elements(s) \subseteq Held'
  BY HeldNext DEF Elements
<1>9. Elements(old) \subseteq Held'
  BY <1>7, <1>8
<1>10. \A i \in DOMAIN sideBranches : i # branch => Elements(sideBranches[i]) \subseteq Held'
  BY <1>6, <1>7, <1>8 DEF Elements
<1>11. Elements(frozen[branch]) \subseteq Elements(activeChain)
  <2> DEFINE f == ForkPlace
             n == Len(activeChain)
             m == Len(frozen[branch])
             p == pos
  <2>1. /\ f \in 1 .. n /\ activeChain \in Seq(Blocks) /\ p \in Nat /\ m \in Nat /\ p > m
        /\ DOMAIN frozen[branch] = 1 .. m /\ n = f + p - 1 /\ p <= m + 1
        /\ \A i \in 1 .. p - 1 : activeChain[f + i] = frozen[branch][i]
    BY <1>1, ForkIs, LoopFacts DEF ReorgInv, Walks
  <2>2. DOMAIN activeChain = 1 .. n /\ n \in Nat
    BY <2>1, LenProperties
  <2> HIDE DEF f, n, m, p
  <2>3. \A i \in 1 .. m : i \in 1 .. p - 1 /\ f + i \in 1 .. n
    BY <2>1, <2>2
  <2>4. \A i \in 1 .. m : frozen[branch][i] \in Elements(activeChain)
    BY <2>1, <2>2, <2>3 DEF Elements
  <2> QED
    BY <2>1, <2>4 DEF Elements
<1>12. Elements(sideBranches[branch]) \subseteq Held'
  <2> SUFFICES ASSUME NEW b \in Elements(sideBranches[branch])
               PROVE  b \in Held'
    OBVIOUS
  <2>1. \/ b \in Elements(frozen[branch])
        \/ \E j \in DOMAIN frozen : j <= branch - 1 /\ b \in Elements(frozen[j])
    BY <1>1, <1>4 DEF HeldInv, BranchesKept, Tried
  <2>2. CASE b \in Elements(frozen[branch])
    BY <1>3, <1>11, <2>2
  <2>3. CASE \E j \in DOMAIN frozen : j <= branch - 1 /\ b \in Elements(frozen[j])
    <3>1. PICK j \in DOMAIN frozen : j <= branch - 1 /\ b \in Elements(frozen[j])
      BY <2>3
    <3>2. j # branch
      BY <1>4, <3>1
    <3>3. b \in Elements(sideBranches[j])
      BY <1>1, <3>1 DEF HeldInv, BranchesKept
    <3> QED
      BY <1>4, <1>10, <3>2, <3>3
  <2> QED
    BY <2>1, <2>2, <2>3
<1> QED
  BY <1>2, <1>3, <1>9, <1>10, <1>12, HeldParts

\* rollback_reorg ends: every old block is on the active chain again.
LEMMA RollbackHolds ==
  ASSUME IInv, NEW height, ReorgInv(height), HeldInv, RollbackDone
  PROVE  HeldInv' /\ Held \subseteq Held'
<1>1. /\ at = "restore" /\ at' = "scan" /\ branch' = branch + 1 /\ Reorganising
      /\ UNCHANGED <<activeChain, sideBranches, frozen, old>>
  BY DEF RollbackDone, NextBranch, chainVars, Reorganising
<1>2. activeChain = Upto(activeChain, ForkPlace) \o old
  BY <1>1, RollbackWalks, SettledIs
<1>3. Elements(old) \subseteq Elements(activeChain)
  <2> DEFINE f == ForkPlace
             c == Upto(activeChain, f) \o old
             m == Len(old)
  <2>1. /\ f \in 1 .. Len(activeChain) /\ activeChain \in Seq(Blocks) /\ old \in Seq(Blocks)
        /\ DOMAIN old = 1 .. m /\ m \in Nat
    BY <1>1, ForkIs, LoopFacts
  <2>2. f \in Nat /\ f <= Len(activeChain)
    BY <2>1, LenProperties
  <2> HIDE DEF f
  <2>3. /\ c \in Seq(Blocks) /\ Len(c) = f + m
        /\ \A i \in 1 .. m : c[f + i] = old[i]
    BY <2>1, <2>2, JoinIs
  <2>4. DOMAIN c = 1 .. f + m
    BY <2>3, LenProperties
  <2> HIDE DEF c, m
  <2>5. \A i \in 1 .. m : f + i \in 1 .. f + m
    BY <2>1, <2>2
  <2>6. \A i \in 1 .. m : old[i] \in Elements(c)
    BY <2>3, <2>4, <2>5 DEF Elements
  <2>7. Elements(old) \subseteq Elements(c)
    BY <2>1, <2>6 DEF Elements
  <2> QED
    BY <1>2, <2>7 DEF c, f
<1>4. branch \in Int /\ branch' - 1 = branch
  BY <1>1 DEF IInv, TypeOK, CallTypeOK
<1>5. HeldInv'
  BY <1>1, <1>3, <1>4 DEF HeldInv, BranchesKept, OldHeld, Tried
<1> QED
  BY <1>1, <1>5, HeldParts, HeldNext


LEMMA HeldStep ==
  ASSUME IInv, NEW height, Orderly(height), CoinInv(height), ReorgInv(height), HeldInv,
         [Next]_vars
  PROVE  /\ HeldInv'
         /\ Held \subseteq Held' \/ NextCallIs("wipe") \/ restarts' # restarts
<1>1. CASE UNCHANGED vars
  <2>1. UNCHANGED <<activeChain, sideBranches, at, frozen, branch, old>>
    BY <1>1 DEF vars, chainVars, callVars, reorgVars
  <2> QED
    BY <2>1, HeldSame
<1>2. ASSUME NEW b \in Blocks,
             \/ IgnoreSeen(b) \/ RejectBlock(b) \/ StoreOrphan(b)
             \/ ConnectToActive(b) \/ ConnectAside(b)
      PROVE  HeldInv' /\ Held \subseteq Held'
  BY <1>2, ConnectHolds
<1>3. CASE SaveToDisk \/ FinishLoad \/ FailLoad \/ Environment
  BY <1>3, OthersHold
<1>4. CASE SkipBranch \/ StartReorg \/ ReadOutOfBounds \/ ScanDone \/ ForkReached
  BY <1>4, ScanHolds
<1>5. CASE DisconnectTip
  BY <1>5, DisconnectHolds
<1>6. CASE ExtendReorg \/ RestoreOld
  BY <1>6, LoopHolds
<1>7. CASE AbandonReorg
  BY <1>7, AbandonHolds
<1>8. CASE CommitReorg
  BY <1>8, CommitHolds
<1>9. CASE RollbackDone
  BY <1>9, RollbackHolds
<1> QED
  BY <1>1, <1>2, <1>3, <1>4, <1>5, <1>6, <1>7, <1>8, <1>9 DEF Next, Connect, Reorg

\* No block is forgotten: one that was put in a chain stays in one through every
\* reorganisation, every failed one, and every branch that is tried in between,
\* until the process starts over.
THEOREM BlocksAreKept ==
  ASSUME NEW height, Orderly(height)
  PROVE  Spec /\ KinStay => NoBlockForgotten
<1>1. Init => HeldInv
  BY DEF Init, NoReorg, HeldInv, BranchesKept, OldHeld, Reorganising
<1>2. IInv /\ CoinInv(height) /\ ReorgInv(height) /\ HeldInv /\ [Next]_vars => HeldInv'
  BY HeldStep
<1>3. IInv /\ CoinInv(height) /\ ReorgInv(height) /\ HeldInv /\ [Next]_vars
        => [Held \subseteq Held' \/ NextCallIs("wipe") \/ restarts' # restarts]_vars
  BY HeldStep
<1>4. Spec /\ KinStay => [](IInv /\ CoinInv(height) /\ ReorgInv(height))
  BY ReorgAlways
<1> QED
  BY <1>1, <1>2, <1>3, <1>4, PTL DEF Spec, NoBlockForgotten


-----------------------------------------------------------------------------
(* Orphans that wait. *)

\* A block of a branch other than the first follows one of the branch.
IsBranch(s) ==
  \A k \in DOMAIN s : k > 1 => \E m \in DOMAIN s : s[m] = Parent[s[k]]

BranchesLinked ==
  /\ \A i \in DOMAIN sideBranches : IsBranch(sideBranches[i])
  /\ at = "scan" \/ Reorganising => \A i \in DOMAIN frozen : IsBranch(frozen[i])
  /\ Reorganising => frozen[branch] # <<>> /\ forkBlock = Parent[frozen[branch][1]]

\* The only orphans that can go wait for the block that is being connected.
OrphansApart ==
  \A o \in orphans :
    /\ o.block \notin Held
    /\ Parent[o.block] \in Held => at # "idle" /\ Parent[o.block] = Head(frames).block

WaitInv == BranchesLinked /\ OrphansApart

\* Known is what locate_block_in_all_chains finds.
LEMMA KnownIs ==
  ASSUME IInv, NEW b
  PROVE  /\ OnActive(b) <=> b \in Elements(activeChain)
         /\ \A i : i \in BranchesWith(b) <=> i \in DOMAIN sideBranches /\ b \in Elements(sideBranches[i])
         /\ Known(b) => b \in Held
         /\ old = <<>> /\ b \in Held => Known(b)
<1>1. OnActive(b) <=> b \in Elements(activeChain)
  BY DEF OnActive, IInv, ChainIndexed
<1>2. ASSUME NEW i \in DOMAIN sideBranches
      PROVE  Contains(sideBranches[i], b) <=> b \in Elements(sideBranches[i])
  <2>1. sideBranches[i] \in Seq(Blocks)
    BY SideBranchesBounded
  <2>2. DOMAIN sideBranches[i] = 1 .. Len(sideBranches[i])
    BY <2>1, LenProperties
  <2> QED
    BY <2>2 DEF Contains, Elements
<1>3. \A i : i \in BranchesWith(b) <=> i \in DOMAIN sideBranches /\ b \in Elements(sideBranches[i])
  BY <1>2 DEF BranchesWith
<1>4. Known(b) => b \in Held
  BY <1>1, <1>3 DEF Known, Held
<1>5. ASSUME old = <<>>, b \in Held
      PROVE  Known(b)
  <2>1. Elements(old) = {}
    BY <1>5 DEF Elements
  <2>2. b \in Elements(activeChain) \/ \E i \in DOMAIN sideBranches : b \in Elements(sideBranches[i])
    BY <1>5, <2>1 DEF Held
  <2> QED
    BY <1>1, <1>3, <2>2 DEF Known
<1> QED
  BY <1>1, <1>3, <1>4, <1>5

LEMMA HeldNow ==
  /\ Elements(activeChain) \subseteq Held /\ Elements(old) \subseteq Held
  /\ \A i \in DOMAIN sideBranches : Elements(sideBranches[i]) \subseteq Held
  BY DEF Held, Elements

LEMMA HeldBound ==
  ASSUME NEW H, Elements(activeChain') \subseteq H, Elements(old') \subseteq H,
         \A i \in DOMAIN sideBranches' : Elements(sideBranches'[i]) \subseteq H
  PROVE  Held' \subseteq H
  BY DEF Held, Elements

\* A block more at the end of a branch, after a block of the branch.
LEMMA BranchGrows ==
  ASSUME NEW s \in Seq(Blocks), IsBranch(s), NEW b \in Blocks, Parent[b] \in Elements(s)
  PROVE  IsBranch(Append(s, b))
<1> DEFINE n == Len(s)
           e == Append(s, b)
<1>1. /\ n \in Nat /\ DOMAIN s = 1 .. n /\ DOMAIN e = 1 .. n + 1
      /\ e[n + 1] = b /\ \A i \in 1 .. n : e[i] = s[i]
  BY AppendProperties, LenProperties
<1> HIDE DEF e, n
<1>2. \A i : i \in 1 .. n + 1 <=> i \in 1 .. n \/ i = n + 1
  BY <1>1
<1>3. \E m \in 1 .. n : s[m] = Parent[b]
  BY <1>1 DEF Elements
<1>4. ASSUME NEW k \in 1 .. n + 1, k > 1
      PROVE  \E m \in 1 .. n + 1 : e[m] = Parent[e[k]]
  <2>1. CASE k = n + 1
    BY <1>1, <1>2, <1>3, <2>1
  <2>2. CASE k # n + 1
    <3>1. k \in 1 .. n
      BY <1>2, <2>2
    <3>2. PICK m \in 1 .. n : s[m] = Parent[s[k]]
      BY <1>1, <1>4, <3>1 DEF IsBranch
    <3> QED
      BY <1>1, <1>2, <3>1, <3>2
  <2> QED
    BY <2>1, <2>2
<1> QED
  BY <1>1, <1>4 DEF IsBranch, e

\* A block goes to a side branch after its parent, or to one of its own.
LEMMA AsideLinked ==
  ASSUME IInv, NEW b \in Blocks, PushAside(b),
         \A i \in DOMAIN sideBranches : IsBranch(sideBranches[i])
  PROVE  /\ \A i \in DOMAIN sideBranches' : IsBranch(sideBranches'[i])
         /\ Held' \subseteq Held \cup Elements(old') \cup {b}
         /\ Parent[b] \in Held /\ UNCHANGED <<activeChain, orphans>>
<1>1. sideBranches \in Seq(Seq(Blocks))
  BY DEF IInv, TypeOK, ChainTypeOK
<1>2. UNCHANGED <<activeChain, orphans>>
  BY DEF PushAside, PushOnBranch, PushOnNewBranch
<1> DEFINE H == Held \cup Elements(old') \cup {b}
<1>3. CASE \E k \in DOMAIN sideBranches : ExtendsBranch(b, k) /\ PushOnBranch(b, k)
  <2>1. PICK k \in DOMAIN sideBranches : ExtendsBranch(b, k) /\ PushOnBranch(b, k)
    BY <1>3
  <2>2. Parent[b] \in Elements(sideBranches[k])
    BY <2>1, KnownIs DEF ExtendsBranch, IsFirstBranchWith
  <2>3. sideBranches[k] \in Seq(Blocks)
    BY SideBranchesBounded
  <2>4. sideBranches' = [sideBranches EXCEPT ![k] = Append(sideBranches[k], b)]
    BY <2>1 DEF PushOnBranch
  <2>5. IsBranch(Append(sideBranches[k], b))
    BY <2>2, <2>3, BranchGrows
  <2>6. Elements(Append(sideBranches[k], b)) = Elements(sideBranches[k]) \cup {b}
    BY <2>3, AppendElements
  <2>7. \A i \in DOMAIN sideBranches' : IsBranch(sideBranches'[i])
    BY <2>4, <2>5
  <2>8. \A i \in DOMAIN sideBranches' : Elements(sideBranches'[i]) \subseteq H
    BY <2>4, <2>6, HeldNow
  <2>9. Elements(activeChain') \subseteq H /\ Elements(old') \subseteq H
    BY <1>2, HeldNow
  <2> HIDE DEF H
  <2>10. Held' \subseteq H
    BY <2>8, <2>9, HeldBound
  <2> QED
    BY <1>2, <2>2, <2>7, <2>10, HeldNow DEF H
<1>4. CASE OpensBranch(b) /\ PushOnNewBranch(b)
  <2> DEFINE n == Len(sideBranches)
  <2>1. sideBranches' = Append(sideBranches, <<b>>) /\ <<b>> \in Seq(Blocks)
    BY <1>4 DEF PushOnNewBranch
  <2>2. /\ n \in Nat /\ DOMAIN sideBranches = 1 .. n /\ DOMAIN sideBranches' = 1 .. n + 1
        /\ \A i \in 1 .. n : sideBranches'[i] = sideBranches[i]
        /\ sideBranches'[n + 1] = <<b>>
    BY <1>1, <2>1, AppendProperties, LenProperties
  <2> HIDE DEF n
  <2>3. \A i \in 1 .. n + 1 : i \in 1 .. n \/ i = n + 1
    BY <2>2
  <2>4. IsBranch(<<b>>) /\ Elements(<<b>>) = {b}
    BY DEF IsBranch, Elements
  <2>5. \A i \in DOMAIN sideBranches' : IsBranch(sideBranches'[i])
    BY <2>2, <2>3, <2>4
  <2>6. \A i \in DOMAIN sideBranches' : Elements(sideBranches'[i]) \subseteq H
    BY <2>2, <2>3, <2>4, HeldNow
  <2>7. Elements(activeChain') \subseteq H /\ Elements(old') \subseteq H
    BY <1>2, HeldNow
  <2>8. Parent[b] \in Held
    BY <1>4, KnownIs DEF OpensBranch, Known
  <2> HIDE DEF H
  <2>9. Held' \subseteq H
    BY <2>6, <2>7, HeldBound
  <2> QED
    BY <1>2, <2>5, <2>8, <2>9 DEF H
<1> QED
  BY <1>3, <1>4 DEF PushAside

\* Steps that put no new block in a chain and no new one among the orphans.
LEMMA ApartKept ==
  ASSUME OrphansApart, orphans' \subseteq orphans, Held' \subseteq Held,
         at = "idle" \/ (at' # "idle" /\ frames' = frames)
  PROVE  OrphansApart'
  BY DEF OrphansApart

\* The same, and the scan stays where it is.
LEMMA WaitSame ==
  ASSUME WaitInv, UNCHANGED <<activeChain, sideBranches, orphans, at, frozen, branch,
                              forkBlock, old>>,
         at = "idle" \/ frames' = frames
  PROVE  WaitInv'
<1>1. BranchesLinked'
  BY DEF WaitInv, BranchesLinked, IsBranch, Reorganising
<1>2. Held' = Held
  BY DEF Held, Elements
<1> QED
  BY <1>1, <1>2, ApartKept DEF WaitInv


\* connect_block, not called by a reorganisation.
LEMMA ConnectWaits ==
  ASSUME IInv, HeldInv, WaitInv, NEW b \in Blocks,
         \/ IgnoreSeen(b) \/ RejectBlock(b) \/ StoreOrphan(b)
         \/ ConnectToActive(b) \/ ConnectAside(b)
  PROVE  WaitInv'
<1>1. at = "idle" /\ b = Head(frames).block
  BY DEF IgnoreSeen, RejectBlock, StoreOrphan, ConnectToActive, ConnectAside, Connecting,
         NextCallIs
<1>2. old = <<>>
  BY <1>1 DEF HeldInv, OldHeld
<1>3. \A o \in orphans : o.block \notin Held /\ Parent[o.block] \notin Held
  BY <1>1 DEF WaitInv, OrphansApart
<1>4. CASE IgnoreSeen(b) \/ RejectBlock(b)
  <2>1. UNCHANGED <<activeChain, sideBranches, orphans, at, frozen, branch, forkBlock, old>>
    BY <1>4 DEF IgnoreSeen, RejectBlock, NothingConnected, chainVars, reorgVars
  <2> QED
    BY <1>1, <2>1, WaitSame
<1>5. CASE StoreOrphan(b)
  <2>1. /\ UNCHANGED <<activeChain, sideBranches, at, frozen, branch, forkBlock, old>>
        /\ ~Known(b) /\ ~Known(Parent[b])
        /\ \E kept \in KeptOrphans : orphans' \subseteq kept \cup {[block |-> b, since |-> now]}
    <3>1. \E kept \in KeptOrphans :
            orphans' = kept \/ orphans' = kept \cup {[block |-> b, since |-> now]}
      BY <1>5 DEF StoreOrphan, KeepOrphan
    <3> QED
      BY <1>5, <3>1 DEF StoreOrphan, KeepOrphan, IsOrphan, chainVars, reorgVars
  <2>2. \A o \in orphans' : o \in orphans \/ o.block = b
    BY <2>1 DEF KeptOrphans, Unexpired
  <2>3. Held' = Held
    BY <2>1 DEF Held, Elements
  <2>4. b \notin Held /\ Parent[b] \notin Held
    BY <1>2, <2>1, KnownIs
  <2>5. OrphansApart'
    BY <1>3, <2>2, <2>3, <2>4 DEF OrphansApart
  <2> QED
    BY <2>1, <2>5 DEF WaitInv, BranchesLinked, IsBranch, Reorganising
<1>6. CASE ConnectToActive(b) \/ ConnectAside(b)
  <2>1. StartScan /\ at' = "scan" /\ frames' = frames /\ frozen' = sideBranches' /\ old' = <<>>
    BY <1>2, <1>6 DEF ConnectToActive, ConnectAside, StartScan
  <2>2. Elements(old') = {}
    BY <2>1 DEF Elements
  <2>3. /\ \A i \in DOMAIN sideBranches' : IsBranch(sideBranches'[i])
        /\ Held' \subseteq Held \cup {b}
        /\ Parent[b] \in Held /\ orphans' = orphans
    <3>1. CASE ExtendsActive(b) /\ PushOnActive(b)
      <4>1. activeChain' = Append(activeChain, b) /\ UNCHANGED <<sideBranches, orphans>>
        BY <3>1 DEF PushOnActive
      <4>2. activeChain \in Seq(Blocks)
        BY DEF IInv, TypeOK, ChainTypeOK
      <4>3. Elements(activeChain') = Elements(activeChain) \cup {b}
        BY <4>1, <4>2, AppendElements
      <4>4. Held' \subseteq Held \cup {b}
        <5> DEFINE H == Held \cup {b}
        <5>1. /\ Elements(activeChain') \subseteq H /\ Elements(old') \subseteq H
              /\ \A i \in DOMAIN sideBranches' : Elements(sideBranches'[i]) \subseteq H
          BY <2>2, <4>1, <4>3, HeldNow
        <5> HIDE DEF H
        <5>2. Held' \subseteq H
          BY <5>1, HeldBound
        <5> QED
          BY <5>2 DEF H
      <4>5. Parent[b] \in Held
        BY <3>1, KnownIs DEF ExtendsActive, Known
      <4> QED
        BY <4>1, <4>4, <4>5 DEF WaitInv, BranchesLinked
    <3>2. CASE PushAside(b)
      BY <2>2, <3>2, AsideLinked DEF WaitInv, BranchesLinked
    <3> QED
      BY <1>6, <3>1, <3>2 DEF ConnectToActive, ConnectAside
  <2>4. OrphansApart'
    <3> SUFFICES ASSUME NEW o \in orphans
                 PROVE  /\ o.block \notin Held'
                        /\ Parent[o.block] \in Held' => Parent[o.block] = Head(frames').block
      BY <2>1, <2>3 DEF OrphansApart
    <3>1. o.block # b
      BY <1>3, <2>3
    <3> QED
      BY <1>1, <1>3, <2>1, <2>3, <3>1
  <2> QED
    BY <2>1, <2>3, <2>4 DEF WaitInv, BranchesLinked, Reorganising
<1> QED
  BY <1>4, <1>5, <1>6

\* The disk, and the rest of the node.
LEMMA OthersWait ==
  ASSUME IInv, HeldInv, WaitInv, SaveToDisk \/ FinishLoad \/ FailLoad \/ Environment
  PROVE  WaitInv'
<1>1. CASE SaveToDisk \/ FinishLoad
  <2>1. /\ UNCHANGED <<activeChain, sideBranches, orphans, at, frozen, branch, forkBlock, old>>
        /\ at = "idle"
    BY <1>1 DEF SaveToDisk, WriteFile, FinishLoad, Quiet, NextCallIs, chainVars, reorgVars
  <2> QED
    BY <2>1, WaitSame
<1>2. CASE FailLoad
  <2>1. /\ at = "idle" /\ at' = "idle" /\ old' = old /\ orphans' = orphans
        /\ activeChain' = <<Genesis>> /\ sideBranches' = <<>>
    BY <1>2 DEF FailLoad, NextCallIs, reorgVars
  <2>2. Elements(activeChain') \subseteq Elements(activeChain)
    <3>1. Elements(<<Genesis>>) = {Genesis}
      BY DEF Elements
    <3>2. Genesis \in Elements(activeChain)
      BY ActiveChain DEF IInv, ChainIndexed, Elements
    <3> QED
      BY <2>1, <3>1, <3>2
  <2>3. Held' \subseteq Held
    <3> DEFINE H == Held
    <3>1. Elements(activeChain') \subseteq H /\ Elements(old') \subseteq H
          /\ \A i \in DOMAIN sideBranches' : Elements(sideBranches'[i]) \subseteq H
      BY <2>1, <2>2, HeldNow
    <3> HIDE DEF H
    <3>2. Held' \subseteq H
      BY <3>1, HeldBound
    <3> QED
      BY <3>2 DEF H
  <2>4. OrphansApart'
    BY <2>1, <2>3, ApartKept DEF WaitInv
  <2> QED
    BY <2>1, <2>4 DEF WaitInv, BranchesLinked, Reorganising
<1>3. CASE Restart
  <2>1. orphans' = {} /\ at' = "idle" /\ sideBranches' = <<>>
    BY <1>3 DEF Restart
  <2> QED
    BY <2>1 DEF WaitInv, BranchesLinked, OrphansApart, Reorganising
<1>4. CASE Environment /\ ~Restart
  <2>1. /\ UNCHANGED <<activeChain, sideBranches, orphans, at, frozen, branch, forkBlock, old>>
        /\ at = "idle" \/ frames' = frames
    BY <1>4 DEF Environment, ReceiveBlock, ConnectMined, AddTx, StartMining, LoadFromDisk,
                Tick, Quiet, chainVars, callVars, reorgVars
  <2> QED
    BY <2>1, WaitSame
<1> QED
  BY <1>1, <1>2, <1>3, <1>4

\* connect_block of load_from_disk, a peer or the miner returns: what waited for
\* the block has left the pool.
LEMMA ReturnWaits ==
  ASSUME WaitInv, NEW r, ReturnConnected(r), at # "idle", Held' \subseteq Held,
         \A i \in DOMAIN sideBranches' : IsBranch(sideBranches'[i])
  PROVE  WaitInv'
<1> DEFINE b == Head(frames).block
<1>1. at' = "idle" /\ orphans' = {o \in orphans : o.block \notin Waiting(b)}
  BY DEF ReturnConnected
<1> HIDE DEF b
<1>2. \A o \in orphans' : o \in orphans /\ Parent[o.block] # b
  BY <1>1 DEF Waiting
<1>3. OrphansApart'
  BY <1>2 DEF WaitInv, OrphansApart, b
<1> QED
  BY <1>1, <1>3 DEF WaitInv, BranchesLinked, Reorganising

\* reorg_if_necessary goes on, or ends.
LEMMA ScanWaits ==
  ASSUME IInv, HeldInv, WaitInv,
         SkipBranch \/ StartReorg \/ ReadOutOfBounds \/ ScanDone \/ ForkReached
  PROVE  WaitInv'
<1>1. UNCHANGED <<activeChain, sideBranches>>
  BY DEF SkipBranch, StartReorg, ReadOutOfBounds, ScanDone, ForkReached, chainVars
<1>2. Elements(old') \subseteq Held => Held' \subseteq Held
  <2> SUFFICES ASSUME Elements(old') \subseteq Held
               PROVE  Held' \subseteq Held
    OBVIOUS
  <2> DEFINE H == Held
  <2>1. Elements(activeChain') \subseteq H /\ Elements(old') \subseteq H
        /\ \A i \in DOMAIN sideBranches' : Elements(sideBranches'[i]) \subseteq H
    BY <1>1, HeldNow
  <2> HIDE DEF H
  <2>2. Held' \subseteq H
    BY <2>1, HeldBound
  <2> QED
    BY <2>2 DEF H
<1>3. Elements(<<>>) = {}
  BY DEF Elements
<1>4. Held' \subseteq Held
  <2>1. old' = old \/ old' = <<>>
    BY DEF SkipBranch, StartReorg, ReadOutOfBounds, ScanDone, ReturnConnected, ForgetReorg,
           ForkReached, reorgVars
  <2> QED
    BY <1>2, <1>3, <2>1, HeldNow
<1>5. CASE ScanDone
  <2>1. at # "idle" /\ ReturnConnected(FALSE)
    BY <1>5 DEF ScanDone
  <2> QED
    BY <1>1, <1>4, <2>1, ReturnWaits DEF WaitInv, BranchesLinked
<1>6. CASE SkipBranch \/ StartReorg \/ ReadOutOfBounds \/ ForkReached
  <2>1. orphans' = orphans /\ at' # "idle" /\ frames' = frames
    BY <1>6 DEF SkipBranch, StartReorg, ReadOutOfBounds, ForkReached, Scanning, callVars
  <2>2. OrphansApart'
    BY <1>4, <2>1, ApartKept DEF WaitInv
  <2>3. CASE SkipBranch \/ ReadOutOfBounds
    <3>1. at = "scan" /\ frozen' = frozen /\ at' \in {"scan", "crashed"}
      BY <2>3 DEF SkipBranch, ReadOutOfBounds, Scanning, callVars, reorgVars
    <3> QED
      BY <1>1, <2>2, <3>1 DEF WaitInv, BranchesLinked, IsBranch, Reorganising
  <2>4. CASE ForkReached
    <3>1. Reorganising /\ UNCHANGED <<frozen, branch, forkBlock>>
      BY <2>4 DEF ForkReached, Reorganising
    <3> QED
      BY <1>1, <2>2, <3>1 DEF WaitInv, BranchesLinked, IsBranch
  <2>5. CASE StartReorg
    <3> DEFINE p == Parent[frozen[branch][1]]
    <3>1. /\ at = "scan" /\ at' = "disconnect" /\ frozen[branch] # <<>> /\ ForkHeight >= 0
          /\ forkBlock' = activeChain[ForkHeight + 1] /\ UNCHANGED <<frozen, branch>>
      BY <2>5 DEF StartReorg, Scanning
    <3>2. OnActive(p) /\ ForkHeight = activeChainIndex[p]
      <4>1. ~(-1 >= 0)
        OBVIOUS
      <4> QED
        BY <3>1, <4>1 DEF ForkHeight
    <3>3. PICK i \in 1 .. Len(activeChain) : activeChain[i] = p
      BY <3>2, ActiveChain
    <3>4. activeChainIndex[p] = i - 1 /\ (i - 1) + 1 = i
      BY <3>3, ActiveChain DEF IInv, ChainIndexed
    <3>5. forkBlock' = p
      BY <3>1, <3>2, <3>3, <3>4
    <3> QED
      BY <1>1, <2>2, <3>1, <3>5 DEF WaitInv, BranchesLinked, IsBranch
  <2> QED
    BY <1>6, <2>3, <2>4, <2>5
<1> QED
  BY <1>5, <1>6


\* Steps inside a reorganisation that lengthen no side branch.
LEMMA LoopWaits ==
  ASSUME IInv, WaitInv, Reorganising,
         UNCHANGED <<sideBranches, orphans, frozen, branch, forkBlock, frames>>,
         at' \in {"disconnect", "extend", "rollback", "restore", "scan"},
         Elements(activeChain') \subseteq Held, Elements(old') \subseteq Held
  PROVE  WaitInv'
<1> DEFINE H == Held
<1>1. Elements(activeChain') \subseteq H /\ Elements(old') \subseteq H
      /\ \A i \in DOMAIN sideBranches' : Elements(sideBranches'[i]) \subseteq H
  BY HeldNow
<1> HIDE DEF H
<1>2. Held' \subseteq H
  BY <1>1, HeldBound
<1>3. OrphansApart'
  BY <1>2, ApartKept DEF WaitInv, H
<1> QED
  BY <1>3 DEF WaitInv, BranchesLinked, IsBranch, Reorganising

\* disconnect_to_fork takes a block off the chain.
LEMMA DisconnectWaits ==
  ASSUME IInv, HeldInv, WaitInv, DisconnectTip
  PROVE  WaitInv'
<1> DEFINE n == Len(activeChain)
           t == activeChain[n]
<1>1. /\ n \in Nat \ {0} /\ activeChain' \in Seq(Blocks) /\ Len(activeChain') = n - 1
      /\ \A i \in 1 .. n - 1 : activeChain'[i] = activeChain[i]
      /\ Tip = t /\ t \in Blocks /\ Reorganising
  BY PoppedAboveFork
<1>2. /\ at \in {"disconnect", "rollback"} /\ at' = at
      /\ UNCHANGED <<sideBranches, orphans, frozen, branch, forkBlock, frames>>
      /\ old' = IF at = "disconnect" THEN <<t>> \o old ELSE old
  BY <1>1 DEF DisconnectTip, PopTip, callVars
<1>3. DOMAIN activeChain = 1 .. n /\ DOMAIN activeChain' = 1 .. n - 1
  BY <1>1, LenProperties DEF IInv, TypeOK, ChainTypeOK
<1>4. n \in 1 .. n /\ \A i \in 1 .. n - 1 : i \in 1 .. n
  BY <1>1
<1>5. Elements(activeChain') \subseteq Held /\ t \in Held
  <2> HIDE DEF n
  <2>1. Elements(activeChain') \subseteq Elements(activeChain) /\ t \in Elements(activeChain)
    BY <1>1, <1>3, <1>4 DEF Elements
  <2> QED
    BY <2>1, HeldNow
<1>6. Elements(old') \subseteq Held
  <2>1. CASE at = "disconnect"
    <3> DEFINE m == Len(old)
               o == <<t>> \o old
    <3>1. /\ m \in Nat /\ DOMAIN old = 1 .. m /\ DOMAIN o = 1 .. m + 1
          /\ o[1] = t /\ \A i \in 1 .. m : o[i + 1] = old[i]
      BY <1>1, Before1, LoopFacts
    <3>2. o = old'
      BY <1>2, <2>1
    <3> HIDE DEF o, m, t, n
    <3>3. \A i \in 1 .. m + 1 : i = 1 \/ (i - 1 \in 1 .. m /\ (i - 1) + 1 = i)
      BY <3>1
    <3>4. \A i \in 1 .. m + 1 : o[i] = t \/ o[i] \in Elements(old)
      <4> TAKE i \in 1 .. m + 1
      <4>1. CASE i = 1
        BY <3>1, <4>1
      <4>2. CASE i - 1 \in 1 .. m /\ (i - 1) + 1 = i
        <5>1. o[(i - 1) + 1] = old[i - 1]
          BY <3>1, <4>2
        <5> QED
          BY <3>1, <4>2, <5>1 DEF Elements
      <4> QED
        BY <3>3, <4>1, <4>2
    <3>5. Elements(o) \subseteq Held
      BY <1>5, <3>1, <3>4, HeldNow DEF Elements
    <3> QED
      BY <3>2, <3>5
  <2>2. CASE at # "disconnect"
    BY <1>2, <2>2, HeldNow
  <2> QED
    BY <2>1, <2>2
<1> QED
  BY <1>1, <1>2, <1>5, <1>6, LoopWaits

\* try_reorg connects a block of the branch, or rollback_reorg an old one; or the
\* rollback ends.
LEMMA PushWaits ==
  ASSUME IInv, NEW height, Orderly(height), CoinInv(height), ReorgInv(height), HeldInv, WaitInv,
         ExtendReorg \/ RestoreOld \/ RollbackDone
  PROVE  WaitInv'
<1>1. CASE RollbackDone
  <2>1. /\ Reorganising /\ at' = "scan"
        /\ UNCHANGED <<activeChain, sideBranches, orphans, frozen, forkBlock, frames, old>>
    BY <1>1 DEF RollbackDone, Reorganising, chainVars
  <2>2. Elements(activeChain') \subseteq Held /\ Elements(old') \subseteq Held
    BY <2>1, HeldNow
  <2>3. Held' = Held
    BY <2>1 DEF Held, Elements
  <2>4. OrphansApart'
    BY <2>1, <2>3, ApartKept DEF WaitInv
  <2> QED
    BY <2>1, <2>4 DEF WaitInv, BranchesLinked, IsBranch, Reorganising
<1>2. CASE ExtendReorg \/ RestoreOld
  <2>1. /\ \E b \in Blocks : b \in Held /\ PushOnActive(b)
        /\ at' = at /\ UNCHANGED <<frozen, branch, old, frames, forkBlock>> /\ Reorganising
        /\ at \in {"extend", "restore"}
    <3>1. CASE ExtendReorg
      <4>1. Reorganising /\ pos \in Nat /\ pos >= 1 /\ pos <= Len(frozen[branch])
        BY <3>1, LoopFacts DEF ExtendReorg, Extending, Reorganising
      <4>2. pos \in 1 .. Len(frozen[branch])
        BY <4>1, LoopFacts
      <4>3. frozen[branch][pos] \in Blocks /\ frozen[branch][pos] \in Elements(frozen[branch])
        BY <4>1, <4>2, LoopFacts DEF Elements
      <4>4. frozen[branch][pos] \in Held
        BY <4>1, <4>3, FrozenPlaces, HeldNow DEF HeldInv, BranchesKept
      <4> QED
        BY <3>1, <4>1, <4>3, <4>4 DEF ExtendReorg, Extending, ConnectInReorg, callVars
    <3>2. CASE RestoreOld
      <4>1. PushOnActive(old[pos]) /\ at = "restore" /\ at' = "restore" /\ Reorganising
        BY <3>2, RestoreWalks DEF Reorganising
      <4>2. old[pos] \in Blocks /\ pos \in 1 .. Len(old)
        BY <3>2, <4>1, NextOldFits DEF RestoreOld
      <4>3. old[pos] \in Elements(old)
        BY <4>1, <4>2, LoopFacts DEF Elements
      <4> QED
        BY <3>2, <4>1, <4>2, <4>3, HeldNow DEF RestoreOld, callVars
    <3> QED
      BY <1>2, <3>1, <3>2
  <2>2. PICK b \in Blocks : b \in Held /\ PushOnActive(b)
    BY <2>1
  <2>3. activeChain' = Append(activeChain, b) /\ UNCHANGED <<sideBranches, orphans>>
    BY <2>2 DEF PushOnActive
  <2>4. activeChain \in Seq(Blocks)
    BY DEF IInv, TypeOK, ChainTypeOK
  <2>5. Elements(activeChain') = Elements(activeChain) \cup {b}
    BY <2>3, <2>4, AppendElements
  <2> QED
    BY <2>1, <2>2, <2>3, <2>5, HeldNow, LoopWaits
<1> QED
  BY <1>1, <1>2

\* A block of the branch that is refused is no orphan: the block it follows is
\* the fork, or in the branch.
LEMMA AbandonWaits ==
  ASSUME IInv, HeldInv, WaitInv, AbandonReorg
  PROVE  WaitInv'
<1> DEFINE b == frozen[branch][pos]
           s == frozen[branch]
<1>1. /\ at = "extend" /\ at' = "rollback" /\ FailInReorg(b)
      /\ UNCHANGED <<frozen, branch, forkBlock, old, frames>> /\ Reorganising
      /\ pos <= Len(s)
  BY DEF AbandonReorg, Extending, Reorganising, reorgVars
<1>2. pos \in 1 .. Len(s) /\ Len(s) \in Nat /\ DOMAIN s = 1 .. Len(s)
  BY <1>1, LoopFacts
<1>3. b \in Blocks /\ b \in Elements(s)
  BY <1>1, <1>2, LoopFacts DEF Elements
<1>4. branch \in DOMAIN frozen /\ DOMAIN frozen \subseteq DOMAIN sideBranches
  BY <1>1, FrozenPlaces
<1>5. Elements(s) \subseteq Elements(sideBranches[branch])
  BY <1>1, <1>4 DEF HeldInv, BranchesKept
<1>6. b \in Held
  BY <1>3, <1>4, <1>5, HeldNow
<1>7. Known(Parent[b])
  <2>1. CASE pos = 1
    <3>1. Parent[b] = forkBlock
      BY <1>1, <2>1 DEF WaitInv, BranchesLinked
    <3> QED
      BY <1>1, <3>1 DEF IInv, ForkStaysActive, Known
  <2>2. CASE pos # 1
    <3>1. pos > 1
      BY <1>2, <2>2
    <3>2. Parent[b] \in Elements(s)
      BY <1>1, <1>2, <1>4, <3>1 DEF WaitInv, BranchesLinked, IsBranch, Elements
    <3>3. branch \in BranchesWith(Parent[b])
      BY <1>4, <1>5, <3>2, KnownIs
    <3> QED
      BY <3>3 DEF Known
  <2> QED
    BY <2>1, <2>2
<1>8. CASE UNCHANGED <<activeChain, sideBranches, orphans>>
  BY <1>1, <1>8, HeldNow, LoopWaits
<1>9. CASE PushAside(b)
  <2>1. /\ \A i \in DOMAIN sideBranches' : IsBranch(sideBranches'[i])
        /\ Held' \subseteq Held \cup Elements(old') \cup {b}
        /\ orphans' = orphans
    BY <1>3, <1>9, AsideLinked DEF WaitInv, BranchesLinked
  <2>2. Held' \subseteq Held
    BY <1>1, <1>6, <2>1, HeldNow
  <2>3. OrphansApart'
    BY <1>1, <2>1, <2>2, ApartKept DEF WaitInv
  <2> QED
    BY <1>1, <2>1, <2>3 DEF WaitInv, BranchesLinked, IsBranch
<1>10. UNCHANGED <<activeChain, sideBranches, orphans>> \/ PushAside(b)
  BY <1>1, <1>7 DEF FailInReorg, NothingConnected, IsOrphan, chainVars
<1> QED
  BY <1>8, <1>9, <1>10

\* What was disconnected is linked.
LEMMA OldLinked ==
  ASSUME IInv, NEW height, Orderly(height), ReorgInv(height), Reorganising
  PROVE  IsBranch(old)
<1> DEFINE f == IF at = "disconnect" THEN Len(activeChain) ELSE ForkPlace
           c == Upto(activeChain, f) \o old
           m == Len(old)
<1>1. SettledChain = c
  BY SettledIs DEF Reorganising
<1>2. Good(height, now, c)
  <2>1. Good(height, now, SettledChain)
    BY DEF ReorgInv
  <2> HIDE DEF c
  <2> QED
    BY <1>1, <2>1
<1>3. /\ activeChain \in Seq(Blocks) /\ old \in Seq(Blocks) /\ m \in Nat /\ DOMAIN old = 1 .. m
      /\ ForkPlace \in 1 .. Len(activeChain) /\ Len(activeChain) \in Nat
  BY ForkIs, LoopFacts, LenProperties
<1>4. f \in Nat /\ f <= Len(activeChain) /\ f >= 1
  BY <1>3
<1> HIDE DEF f
<1>5. Len(c) = f + m /\ \A i \in 1 .. m : c[f + i] = old[i]
  BY <1>3, <1>4, JoinIs
<1>6. \A i \in 2 .. Len(c) : Parent[c[i]] = c[i - 1]
  <2> HIDE DEF c
  <2>1. height[Genesis] = 0
    BY DEF Orderly, IsHeight
  <2> QED
    BY <1>2, <2>1, GoodPlaced
<1> HIDE DEF c, m
<1>7. ASSUME NEW k \in 1 .. m, k > 1
      PROVE  \E j \in 1 .. m : old[j] = Parent[old[k]]
  <2>1. k - 1 \in 1 .. m /\ f + k \in 2 .. f + m /\ (f + k) - 1 = f + (k - 1)
    BY <1>3, <1>4, <1>7
  <2>2. Parent[c[f + k]] = c[f + (k - 1)]
    BY <1>5, <1>6, <2>1
  <2>3. old[k] = c[f + k] /\ old[k - 1] = c[f + (k - 1)]
    BY <1>5, <2>1
  <2> QED
    BY <2>1, <2>2, <2>3
<1> QED
  BY <1>3, <1>7 DEF IsBranch

\* What is left of a sequence of which one element is taken out was there.
LEMMA RemovedFrom ==
  ASSUME NEW S, NEW s \in Seq(S), NEW k \in DOMAIN s
  PROVE  \A j \in DOMAIN RemoveAt(s, k) : \E i \in DOMAIN s : RemoveAt(s, k)[j] = s[i]
<1> DEFINE n == Len(s)
           r == RemoveAt(s, k)
<1>1. n \in Nat /\ DOMAIN s = 1 .. n
  BY LenProperties
<1>2. DOMAIN r = 1 .. n - 1 /\ \A i \in 1 .. n - 1 : r[i] = s[Around(i, k)]
  BY <1>1, Removed
<1> HIDE DEF r, n
<1>3. \A i \in 1 .. n - 1 : Around(i, k) \in 1 .. n
  BY <1>1, AroundProperties
<1>4. \A j \in DOMAIN r : \E i \in DOMAIN s : r[j] = s[i]
  BY <1>1, <1>2, <1>3
<1> QED
  BY <1>4 DEF r

\* try_reorg ends, and connect_block returns.
LEMMA CommitWaits ==
  ASSUME IInv, NEW height, Orderly(height), ReorgInv(height), HeldInv, WaitInv, CommitReorg
  PROVE  WaitInv'
<1> DEFINE rest == RemoveAt(sideBranches, branch)
           m == Len(rest)
           H == Held
<1>1. /\ at = "extend" /\ old' = <<>> /\ activeChain' = activeChain /\ ReturnConnected(TRUE)
      /\ sideBranches' = Append(rest, old) /\ Reorganising
  BY DEF CommitReorg, SwapBranches, ReturnConnected, ForgetReorg, Reorganising
<1>2. /\ sideBranches \in Seq(Seq(Blocks)) /\ old \in Seq(Blocks)
      /\ branch \in DOMAIN sideBranches /\ branch \in 1 .. Len(sideBranches)
  BY <1>1, FrozenPlaces, LoopFacts DEF IInv, TypeOK, ChainTypeOK
<1>3. rest \in Seq(Seq(Blocks))
  BY <1>2, RemoveAtTyped
<1>4. \A j \in DOMAIN rest : \E i \in DOMAIN sideBranches : rest[j] = sideBranches[i]
  BY <1>2, RemovedFrom
<1>5. IsBranch(old)
  BY <1>1, OldLinked
<1> HIDE DEF rest, H
<1>6. /\ m \in Nat /\ DOMAIN rest = 1 .. m /\ DOMAIN sideBranches' = 1 .. m + 1
      /\ sideBranches'[m + 1] = old /\ \A i \in 1 .. m : sideBranches'[i] = rest[i]
  BY <1>1, <1>2, <1>3, AppendProperties, LenProperties
<1> HIDE DEF m
<1>7. \A i \in 1 .. m + 1 : i \in 1 .. m \/ i = m + 1
  BY <1>6
<1>8. \A i \in DOMAIN sideBranches' :
        sideBranches'[i] = old \/ \E j \in DOMAIN sideBranches : sideBranches'[i] = sideBranches[j]
  BY <1>4, <1>6, <1>7
<1>9. \A i \in DOMAIN sideBranches' : IsBranch(sideBranches'[i])
  BY <1>5, <1>8 DEF WaitInv, BranchesLinked
<1>10. \A i \in DOMAIN sideBranches' : Elements(sideBranches'[i]) \subseteq H
  BY <1>8, HeldNow DEF H
<1>11. Elements(activeChain') \subseteq H /\ Elements(old') \subseteq H
  <2>1. Elements(<<>>) = {}
    BY DEF Elements
  <2> QED
    BY <1>1, <2>1, HeldNow DEF H
<1>12. Held' \subseteq Held
  <2>1. Held' \subseteq H
    BY <1>10, <1>11, HeldBound
  <2> QED
    BY <2>1 DEF H
<1> QED
  BY <1>1, <1>9, <1>12, ReturnWaits

LEMMA WaitStep ==
  ASSUME IInv, NEW height, Orderly(height), CoinInv(height), ReorgInv(height), HeldInv,
         WaitInv, [Next]_vars
  PROVE  WaitInv'
<1>1. CASE UNCHANGED vars
  <2>1. UNCHANGED <<activeChain, sideBranches, orphans, at, frames, frozen, branch, forkBlock, old>>
    BY <1>1 DEF vars, chainVars, callVars, reorgVars
  <2> QED
    BY <2>1, WaitSame
<1>2. ASSUME NEW b \in Blocks,
             \/ IgnoreSeen(b) \/ RejectBlock(b) \/ StoreOrphan(b)
             \/ ConnectToActive(b) \/ ConnectAside(b)
      PROVE  WaitInv'
  BY <1>2, ConnectWaits
<1>3. CASE SaveToDisk \/ FinishLoad \/ FailLoad \/ Environment
  BY <1>3, OthersWait
<1>4. CASE SkipBranch \/ StartReorg \/ ReadOutOfBounds \/ ScanDone \/ ForkReached
  BY <1>4, ScanWaits
<1>5. CASE DisconnectTip
  BY <1>5, DisconnectWaits
<1>6. CASE ExtendReorg \/ RestoreOld \/ RollbackDone
  BY <1>6, PushWaits
<1>7. CASE AbandonReorg
  BY <1>7, AbandonWaits
<1>8. CASE CommitReorg
  BY <1>8, CommitWaits
<1> QED
  BY <1>1, <1>2, <1>3, <1>4, <1>5, <1>6, <1>7, <1>8 DEF Next, Connect, Reorg

\* No orphan is left behind: between calls, the pool holds no block whose parent
\* is in a chain, and none that is itself in one, whatever was reorganised and
\* rolled back while the block that others waited for was connected.
THEOREM OrphansAreFetched ==
  ASSUME NEW height, Orderly(height)
  PROVE  Spec /\ KinStay => []OrphansWait
<1> DEFINE All == IInv /\ CoinInv(height) /\ ReorgInv(height)
<1>1. Init => HeldInv /\ WaitInv
  BY DEF Init, NoReorg, HeldInv, BranchesKept, OldHeld, WaitInv, BranchesLinked, OrphansApart,
         Reorganising
<1>2. All /\ HeldInv /\ WaitInv /\ [Next]_vars => HeldInv' /\ WaitInv'
  BY HeldStep, WaitStep
<1>3. IInv /\ HeldInv /\ WaitInv => OrphansWait
  <2> SUFFICES ASSUME IInv, HeldInv, WaitInv, Quiet, NEW o \in orphans
               PROVE  ~Known(Parent[o.block]) /\ ~Known(o.block)
    BY DEF OrphansWait
  <2>1. o.block \notin Held /\ Parent[o.block] \notin Held
    BY DEF WaitInv, OrphansApart, Quiet
  <2> QED
    BY <2>1, KnownIs
<1>4. Spec /\ KinStay => []All
  BY ReorgAlways
<1> HIDE DEF All
<1>5. All => IInv
  BY DEF All
<1> QED
  BY <1>1, <1>2, <1>3, <1>4, <1>5, PTL DEF Spec


-----------------------------------------------------------------------------
(* What the coins are worth. *)

\* The outputs a block spends and makes, taken out of and put into a set of
\* outputs that are not its own.
LEMMA WorthMoves ==
  ASSUME NEW T \in SUBSET Txs, IsFiniteSet(T), NEW U \in SUBSET Made, IsFiniteSet(U),
         U \cap OutsOfAll(T) = {}, SpentBy(T) \subseteq U \cup OutsOfAll(T),
         \A t, u \in T : t # u => Ins[t] \cap Ins[u] = {},
         NEW spent, \A t \in T : spent[t] = TotalValue(Ins[t]),
         NEW made, \A t \in T : made[t] = TotalValue(OutsOf(t))
  PROVE  LET left == (U \cup OutsOfAll(T)) \ SpentBy(T)
         IN  /\ IsFiniteSet(left) /\ TotalValue(left) \in Nat /\ TotalValue(U) \in Nat
             /\ TotalValue(left) + SumOver(spent, T) = TotalValue(U) + SumOver(made, T)
             /\ \A t \in T : spent[t] \in Nat /\ made[t] \in Nat
<1> DEFINE O == OutsOfAll(T)
           S == SpentBy(T)
           A == U \cup O
           f == Values(A)
           ins == [t \in T |-> Ins[t]]
           outs == [t \in T |-> OutsOf(t)]
<1>1. \A t \in T : OutsOf(t) \subseteq Made /\ IsFiniteSet(OutsOf(t))
  BY OutsFinite
<1>2. O = UNION {outs[t] : t \in T} /\ S = UNION {ins[t] : t \in T}
  BY DEF OutsOfAll, SpentBy
<1>3. IsFiniteSet(O) /\ O \subseteq Made
  <2>1. O \subseteq Made
    BY <1>1 DEF OutsOfAll
  <2>2. IsFiniteSet({OutsOf(t) : t \in T})
    <3>1. outs \in Surjection(T, {OutsOf(t) : t \in T})
      BY DEF Surjection
    <3> QED
      BY <3>1, FS_Surjection
  <2>3. IsFiniteSet(UNION {OutsOf(t) : t \in T})
    BY <1>1, <2>2, FS_UNION
  <2> QED
    BY <2>1, <2>3 DEF OutsOfAll
<1>4. IsFiniteSet(A) /\ A \subseteq Made
  BY <1>3, FS_Union
<1>5. \A p \in A : f[p] \in Nat
  BY <1>4, ValueTyped DEF Values
<1>6. ASSUME NEW X \in SUBSET A
      PROVE  IsFiniteSet(X) /\ TotalValue(X) = SumOver(f, X) /\ TotalValue(X) \in Nat
  <2>1. IsFiniteSet(X)
    BY <1>4, FS_Subset
  <2>2. TotalValue(X) = SumOver(Values(X), X)
    BY <2>1, TotalValueIs
  <2>3. \A p \in X : Values(X)[p] = f[p] /\ f[p] \in Nat
    BY <1>5 DEF Values
  <2> HIDE DEF f
  <2>4. SumOver(Values(X), X) = SumOver(f, X) /\ SumOver(f, X) \in Nat
    BY <2>1, <2>3, SumSame, SumTyped
  <2> QED
    BY <2>1, <2>2, <2>4
<1>7. /\ ins \in [T -> SUBSET A] /\ outs \in [T -> SUBSET A]
      /\ \A t, u \in T : t # u => ins[t] \cap ins[u] = {} /\ outs[t] \cap outs[u] = {}
  <2>1. \A t \in T : Ins[t] \subseteq A /\ OutsOf(t) \subseteq A
    BY DEF SpentBy, OutsOfAll
  <2>2. \A t, u \in T : t # u => OutsOf(t) \cap OutsOf(u) = {}
    BY OutKnowsTx
  <2> QED
    BY <2>1, <2>2
<1>8. \A t \in T : /\ spent[t] = SumOver(f, ins[t]) /\ spent[t] \in Nat
                   /\ made[t] = SumOver(f, outs[t]) /\ made[t] \in Nat
  <2>1. \A t \in T : ins[t] = Ins[t] /\ outs[t] = OutsOf(t)
    OBVIOUS
  <2> HIDE DEF ins, outs, f, A
  <2> QED
    BY <1>6, <1>7, <2>1
<1>9. U \in SUBSET A /\ S \in SUBSET A /\ A \ U = O
  OBVIOUS
<1> HIDE DEF f, A, ins, outs, S, O
<1>10. SumOver(f, O) = SumOver(made, T)
  <2>1. \A t, u \in T : t # u => outs[t] \cap outs[u] = {}
    BY <1>7
  <2> QED
    BY <1>2, <1>4, <1>5, <1>7, <1>8, <2>1, SumOfParts
<1>11. SumOver(f, S) = SumOver(spent, T)
  <2>1. \A t, u \in T : t # u => ins[t] \cap ins[u] = {}
    BY <1>7
  <2> QED
    BY <1>2, <1>4, <1>5, <1>7, <1>8, <2>1, SumOfParts
<1>12. /\ SumOver(f, A) = SumOver(f, U) + SumOver(f, A \ U)
       /\ SumOver(f, U) \in Nat /\ SumOver(f, A \ U) \in Nat
  BY <1>4, <1>5, <1>9, SumSplit
<1>13. /\ SumOver(f, A) = SumOver(f, S) + SumOver(f, A \ S)
       /\ SumOver(f, S) \in Nat /\ SumOver(f, A \ S) \in Nat
  BY <1>4, <1>5, <1>9, SumSplit
<1>14. A \ S \in SUBSET A
  OBVIOUS
<1>15. /\ IsFiniteSet(A \ S) /\ TotalValue(A \ S) = SumOver(f, A \ S)
       /\ TotalValue(U) = SumOver(f, U)
       /\ TotalValue(A \ S) \in Nat /\ TotalValue(U) \in Nat
  BY <1>6, <1>9, <1>14
<1>16. TotalValue(A \ S) + SumOver(spent, T) = TotalValue(U) + SumOver(made, T)
  BY <1>9, <1>10, <1>11, <1>12, <1>13, <1>15, SMTT(40)
<1> QED
  BY <1>8, <1>15, <1>16 DEF A, S, O


\* A block that fits adds at most its subsidy to what the coins are worth: the
\* coinbase takes the subsidy and the fees, and the fees are what the others leave.
LEMMA BlockWorth ==
  ASSUME SpendOnce, NEW c \in Seq(Blocks), c # <<>>, NEW b \in Blocks, b \in Sound,
         SpendsRight(c), FindsCoins(c, b), PaysRight(b, c, NonCoinbase(TxsOf[b])),
         IsFiniteSet(Unspent(MinedTo(c, Len(c))))
  PROVE  LET e == Append(c, b)
         IN  /\ IsFiniteSet(Unspent(MinedTo(e, Len(e))))
             /\ TotalValue(Unspent(MinedTo(e, Len(e))))
                  <= TotalValue(Unspent(MinedTo(c, Len(c)))) + Subsidy(Len(c))
<1> DEFINE M == MinedTo(c, Len(c))
           U == Unspent(M)
           T == Elements(TxsOf[b])
           N == NonCoinbase(TxsOf[b])
           cb == TxsOf[b][1]
           e == Append(c, b)
           left == (U \cup OutsOfAll(T)) \ SpentBy(T)
           spent == [t \in T |-> TotalValue(Ins[t])]
           made == [t \in T |-> TotalValue(OutsOf(t))]
           fees == FeesIn(N, CoinsOf(c), N)
<1>1. /\ MinedTo(e, Len(e)) = M \cup T
      /\ Unspent(M \cup T) = (U \ SpentBy(T)) \cup (OutsOfAll(T) \ SpentBy(T))
      /\ OutsOfAll(T) \cap OutsOfAll(M) = {}
      /\ SpentBy(T) \subseteq U \cup OutsOfAll(T)
  BY CoinsAfter
<1>2. Unspent(MinedTo(e, Len(e))) = left
  <2> HIDE DEF U, T, M
  <2> QED
    BY <1>1
<1>3. U \in SUBSET Made /\ Len(c) \in Nat
  BY LenProperties, MinedTyped
<1>4. T \in SUBSET Txs /\ IsFiniteSet(T) /\ N \subseteq T /\ IsFiniteSet(N)
  BY BlockTxs, BlockTyped
<1>5. U \cap OutsOfAll(T) = {}
  BY <1>1 DEF Unspent
<1>6. \A t, u \in T : t # u => Ins[t] \cap Ins[u] = {}
  BY DEF SpendOnce
<1>7. /\ \A t \in T : spent[t] = TotalValue(Ins[t])
      /\ \A t \in T : made[t] = TotalValue(OutsOf(t))
  OBVIOUS
<1>8. cb \in T /\ Ins[cb] = {} /\ T \ {cb} = N
  <2>1. cb \in T /\ cb \in Coinbases
    BY <1>3, BlockValues, SoundAssumption
  <2>2. \A t \in T : t # cb => t \notin Coinbases
    <3>1. \A i \in DOMAIN TxsOf[b] : i > 1 => TxsOf[b][i] \notin Coinbases
      BY SoundAssumption
    <3>2. DOMAIN TxsOf[b] = 1 .. Len(TxsOf[b]) /\ Len(TxsOf[b]) \in Nat
      BY BlockTyped, LenProperties
    <3>3. \A i \in DOMAIN TxsOf[b] : i = 1 \/ i > 1
      BY <3>2
    <3> QED
      BY <3>1, <3>3 DEF Elements
  <2>3. Ins[cb] = {}
    BY <2>1, TxAssumption
  <2> QED
    BY <2>1, <2>2, <2>3 DEF NonCoinbase
<1>9. \A t \in N : /\ ValidTx(t, CoinsOf(c), OutsOfAll(N), Len(c))
                   /\ fees[t] = Fees(t, CoinsOf(c), N)
  BY DEF PaysRight, FeesIn
<1>10. TotalValue(OutsOf(cb)) <= Subsidy(Len(c)) + TotalFees(N, CoinsOf(c), N)
  BY DEF PaysRight
<1>11. TotalFees(N, CoinsOf(c), N) = SumOver(fees, N)
  BY <1>4, TotalFeesIs
<1>12. Subsidy(Len(c)) \in Nat
  BY <1>3, SubsidyTyped
<1> HIDE DEF M, U, T, N, cb, e, spent, made, fees
<1>13. /\ IsFiniteSet(left) /\ TotalValue(left) \in Nat /\ TotalValue(U) \in Nat
       /\ TotalValue(left) + SumOver(spent, T) = TotalValue(U) + SumOver(made, T)
       /\ \A t \in T : spent[t] \in Nat /\ made[t] \in Nat
  <2>1. IsFiniteSet(U)
    BY DEF U, M
  <2> HIDE DEF left
  <2> QED
    BY <1>1, <1>3, <1>4, <1>5, <1>6, <1>7, <2>1, WorthMoves DEF left
<1>14. \A t \in N : fees[t] \in Nat /\ spent[t] = made[t] + fees[t]
  <2> TAKE t \in N
  <2>1. t \in T
    BY <1>4
  <2>2. Ins[t] \cap (DOMAIN CoinsOf(c) \cup OutsOfAll(N)) = Ins[t]
    BY <1>9 DEF ValidTx
  <2>3. spent[t] >= made[t]
    BY <1>7, <1>9, <2>1 DEF ValidTx
  <2>4. fees[t] = IF spent[t] < made[t] THEN 0 ELSE spent[t] - made[t]
    BY <1>7, <1>9, <2>1, <2>2 DEF Fees
  <2> QED
    BY <1>13, <2>1, <2>3, <2>4
<1>15. SumOver(spent, N) = SumOver(made, N) + SumOver(fees, N)
  <2>1. \A t \in N : made[t] \in Nat /\ fees[t] \in Nat
    BY <1>4, <1>13, <1>14
  <2> QED
    BY <1>4, <1>14, <2>1, SumPlus
<1>16. /\ SumOver(spent, T) = spent[cb] + SumOver(spent, N)
       /\ SumOver(made, T) = made[cb] + SumOver(made, N)
  <2>1. /\ SumOver(spent, T) = spent[cb] + SumOver(spent, T \ {cb})
        /\ SumOver(made, T) = made[cb] + SumOver(made, T \ {cb})
    BY <1>4, <1>8, <1>13, SumRemove
  <2> QED
    BY <1>8, <2>1
<1>17. spent[cb] = 0 /\ made[cb] = TotalValue(OutsOf(cb)) /\ made[cb] \in Nat
  <2>1. TotalValue({}) = SumOver(Values({}), {})
    BY FS_EmptySet, TotalValueIs
  <2>2. TotalValue({}) = 0
    BY <2>1, SumOfNothing
  <2> QED
    BY <1>7, <1>8, <1>13, <2>2
<1>18. SumOver(spent, N) \in Nat /\ SumOver(made, N) \in Nat /\ SumOver(fees, N) \in Nat
  <2>1. \A t \in N : spent[t] \in Nat /\ made[t] \in Nat
    BY <1>4, <1>13
  <2> QED
    BY <1>4, <1>14, <2>1, SumTyped
<1>19. TotalValue(left) <= TotalValue(U) + Subsidy(Len(c))
  <2> DEFINE vl == TotalValue(left)
             vu == TotalValue(U)
             sub == Subsidy(Len(c))
             sN == SumOver(spent, N)
             mN == SumOver(made, N)
             fN == SumOver(fees, N)
             mc == made[cb]
  <2>1. /\ vl \in Nat /\ vu \in Nat /\ sub \in Nat /\ sN \in Nat /\ mN \in Nat /\ fN \in Nat
        /\ mc \in Nat /\ mc <= sub + fN /\ sN = mN + fN
    BY <1>10, <1>11, <1>12, <1>13, <1>15, <1>17, <1>18
  <2>2. vl + (0 + sN) = vu + (mc + mN)
    BY <1>13, <1>16, <1>17
  <2> HIDE DEF vl, vu, sub, sN, mN, fN, mc
  <2>3. vl <= vu + sub
    BY <2>1, <2>2
  <2> QED
    BY <2>3 DEF vl, vu, sub
<1> QED
  BY <1>2, <1>13, <1>19 DEF e, U, M


Subsidies(n) == MapThenSumSet(Subsidy, 1 .. n)

LEMMA SubsidiesGrow ==
  ASSUME NEW n \in Nat
  PROVE  /\ Subsidies(n) \in Nat /\ Subsidies(0) = 0
         /\ Subsidies(n + 1) = Subsidies(n) + Subsidy(n + 1)
<1> DEFINE f == [i \in Nat |-> Subsidy(i)]
<1>1. ASSUME NEW m \in Nat
      PROVE  Subsidies(m) = SumOver(f, 1 .. m) /\ IsFiniteSet(1 .. m)
  <2> DEFINE S == 1 .. m
             Fold(g) == g = [s \in SUBSET S |->
                               IF s = {} THEN 0 ELSE Subsidy(First(s)) + g[Others(s)]]
             h == CHOOSE g : Fold(g)
  <2>1. IsFiniteSet(S) /\ S \subseteq Nat
    BY FS_Interval
  <2>2. Subsidies(m) = h[S]
    BY DEF Subsidies, MapThenSumSet, MapThenFoldSet, First, Others
  <2> HIDE DEF S
  <2>3. PICK g : Folds(f, S, g)
    BY <2>1, FoldsExist
  <2>4. \A s \in SUBSET S : s # {} => f[First(s)] = Subsidy(First(s))
    <3>1. \A s \in SUBSET S : s # {} => First(s) \in Nat
      BY <2>1, FirstInside
    <3> QED
      BY <3>1
  <2> HIDE DEF f
  <2>5. Fold(g)
    BY <2>3, <2>4 DEF Folds
  <2>6. Fold(h)
    BY <2>5
  <2>7. Folds(f, S, h)
    BY <2>4, <2>6 DEF Folds
  <2> HIDE DEF h
  <2>8. SumOver(f, S) = h[S]
    BY <2>1, <2>7, FoldIsSum
  <2> QED
    BY <2>1, <2>2, <2>8 DEF S
<1>2. \A i \in Nat : f[i] \in Nat /\ f[i] = Subsidy(i)
  BY SubsidyTyped
<1> HIDE DEF f
<1>3. 1 .. n + 1 = (1 .. n) \cup {n + 1} /\ n + 1 \notin 1 .. n /\ n + 1 \in Nat
      /\ 1 .. 0 = {} /\ 1 .. n + 1 \subseteq Nat /\ 0 \in Nat
  OBVIOUS
<1>4. \A x \in (1 .. n) \cup {n + 1} : f[x] \in Nat
  BY <1>2, <1>3
<1> DEFINE S == 1 .. n
           e == n + 1
<1> HIDE DEF S
<1>5. SumOver(f, S \cup {e}) = f[e] + SumOver(f, S) /\ SumOver(f, S) \in Nat
  <2>1. IsFiniteSet(S) /\ e \notin S /\ \A x \in S \cup {e} : f[x] \in Nat
    BY <1>1, <1>3, <1>4 DEF S
  <2> HIDE DEF e
  <2> QED
    BY <2>1, SumAdd, SumTyped
<1>6. /\ Subsidies(n) = SumOver(f, S) /\ Subsidies(e) = SumOver(f, S \cup {e})
      /\ Subsidies(0) = SumOver(f, {})
  BY <1>1, <1>3 DEF S
<1>7. SumOver(f, {}) = 0
  BY SumOfNothing
<1>8. f[e] \in Nat /\ f[e] = Subsidy(e)
  BY <1>2, <1>3
<1> QED
  BY <1>5, <1>6, <1>7, <1>8

LEMMA UptoNext ==
  ASSUME NEW c \in Seq(Blocks), NEW n \in Nat, n + 1 <= Len(c)
  PROVE  Upto(c, n + 1) = Append(Upto(c, n), c[n + 1]) /\ c[n + 1] \in Blocks
<1> DEFINE p == Upto(c, n)
           q == Upto(c, n + 1)
           b == c[n + 1]
           e == Append(p, b)
<1>1. Len(c) \in Nat /\ n <= Len(c) /\ n + 1 \in Nat /\ n + 1 \in 1 .. Len(c)
  BY LenProperties
<1>2. b \in Blocks
  BY <1>1, ElementOfSeq
<1>3. p \in Seq(Blocks) /\ Len(p) = n /\ \A i \in 1 .. n : p[i] = c[i]
  BY <1>1, UptoIs
<1>4. q \in Seq(Blocks) /\ Len(q) = n + 1 /\ \A i \in 1 .. n + 1 : q[i] = c[i]
  BY <1>1, UptoIs
<1> HIDE DEF p, q
<1>5. e \in Seq(Blocks) /\ Len(e) = Len(p) + 1 /\ e[Len(p) + 1] = b
      /\ \A i \in 1 .. Len(p) : e[i] = p[i]
  BY <1>2, <1>3, AppendProperties
<1> HIDE DEF e
<1>6. Len(e) = n + 1 /\ \A i \in 1 .. n + 1 : e[i] = q[i]
  <2>1. \A i \in 1 .. n + 1 : i \in 1 .. n \/ i = n + 1
    OBVIOUS
  <2> QED
    BY <1>3, <1>4, <1>5, <2>1
<1>7. e = q
  BY <1>4, <1>5, <1>6, SeqEqual
<1> QED
  BY <1>2, <1>7 DEF e, p, q

\* On a good chain nothing comes from nowhere.
LEMMA GoodWorth ==
  ASSUME SpendOnce, NEW h, NEW t, NEW c, Good(h, t, c)
  PROVE  TotalValue(Unspent(MinedTo(c, Len(c)))) <= Subsidies(Len(c) - 1)
<1> DEFINE worth(d) == TotalValue(Unspent(MinedTo(d, Len(d))))
           Right(d) == /\ SpendsRight(d) /\ IsFiniteSet(Unspent(MinedTo(d, Len(d))))
                       /\ worth(d) <= Subsidies(Len(d) - 1)
           Bad == {n \in 1 .. Len(c) : ~Right(Upto(c, n))}
<1>1. c \in Seq(Blocks) /\ c # <<>> /\ c[1] = Genesis /\ Len(c) \in Nat \ {0}
  BY LenProperties, EmptySeq DEF Good
<1>2. Right(Upto(c, 1))
  <2>1. Len(Upto(c, 1)) = 1
    <3>1. 1 \in Nat /\ 1 <= Len(c)
      BY <1>1
    <3> HIDE DEF Right, Bad
    <3> QED
      BY <1>1, <3>1, UptoIs
  <2>2. 2 .. 1 = {} /\ 1 - 1 = 0
    OBVIOUS
  <2>3. MinedTo(Upto(c, 1), 1) = {} /\ SpendsRight(Upto(c, 1))
    BY <2>1, <2>2 DEF MinedTo, SpendsRight
  <2>4. Unspent({}) = {}
    BY DEF Unspent, OutsOfAll
  <2>5. TotalValue({}) = 0
    BY FS_EmptySet, TotalValueIs, SumOfNothing
  <2>6. Subsidies(0) = 0
    BY SubsidiesGrow
  <2> DEFINE d == Upto(c, 1)
  <2> HIDE DEF d
  <2>7. Unspent(MinedTo(d, Len(d))) = {}
    BY <2>1, <2>3, <2>4 DEF d
  <2>8. worth(d) = 0 /\ Subsidies(Len(d) - 1) = 0
    BY <2>1, <2>2, <2>5, <2>6, <2>7 DEF d
  <2>9. IsFiniteSet(Unspent(MinedTo(d, Len(d)))) /\ worth(d) <= Subsidies(Len(d) - 1)
    BY <2>7, <2>8, FS_EmptySet
  <2> QED
    BY <2>3, <2>9 DEF d
<1>3. ASSUME NEW n \in 1 .. Len(c) - 1, Right(Upto(c, n))
      PROVE  Right(Upto(c, n + 1))
  <2> DEFINE d == Upto(c, n)
             b == c[n + 1]
             e == Append(d, b)
  <2>1. n \in Nat \ {0} /\ n <= Len(c) /\ n + 1 <= Len(c)
    BY <1>1
  <2>2. d \in Seq(Blocks) /\ Len(d) = n
    BY <1>1, <2>1, UptoIs
  <2>3. Upto(c, n + 1) = e /\ b \in Blocks
    BY <1>1, <2>1, UptoNext
  <2>4. Fits(h, t, b, d)
    BY GoodFits
  <2>5. b \in Sound /\ FindsCoins(d, b) /\ PaysRight(b, d, NonCoinbase(TxsOf[b]))
    BY <2>4 DEF Fits
  <2>6. SpendsRight(d) /\ IsFiniteSet(Unspent(MinedTo(d, Len(d))))
        /\ worth(d) <= Subsidies(n - 1)
    BY <1>3, <2>2
  <2>7. d # <<>>
    BY <2>1, <2>2, EmptySeq
  <2> HIDE DEF d, b
  <2>8. SpendsRight(e)
    BY <2>2, <2>3, <2>5, <2>6, <2>7, SpendsOn
  <2>9. /\ IsFiniteSet(Unspent(MinedTo(e, Len(e))))
        /\ worth(e) <= worth(d) + Subsidy(n)
    BY <2>2, <2>3, <2>5, <2>6, <2>7, BlockWorth
  <2>10. Len(e) = n + 1
    BY <2>2, <2>3, <2>7, Longer
  <2>11. /\ Subsidies(n) = Subsidies(n - 1) + Subsidy(n)
         /\ Subsidies(n - 1) \in Nat /\ Subsidy(n) \in Nat
    <3>1. n - 1 \in Nat /\ (n - 1) + 1 = n
      BY <2>1
    <3>2. Subsidies((n - 1) + 1) = Subsidies(n - 1) + Subsidy((n - 1) + 1)
      BY <3>1, SubsidiesGrow
    <3> QED
      BY <2>1, <3>1, <3>2, SubsidiesGrow, SubsidyTyped
  <2>12. worth(d) \in Nat /\ worth(e) \in Nat
    <3>1. Unspent(MinedTo(d, Len(d))) \in SUBSET Made
      BY <2>2, MinedTyped, LenProperties
    <3>2. e \in Seq(Blocks) /\ Len(e) \in Nat
      BY <2>2, <2>3, <2>7, Longer
    <3>3. Unspent(MinedTo(e, Len(e))) \in SUBSET Made
      <4> HIDE DEF e
      <4>1. Len(e) <= Len(e)
        BY <3>2
      <4> QED
        BY <3>2, <4>1, MinedTyped
    <3> QED
      BY <2>6, <2>9, <3>1, <3>3, TotalValueGrows
  <2> HIDE DEF worth
  <2>13. worth(e) <= Subsidies((n + 1) - 1)
    <3>1. (n + 1) - 1 = n
      BY <2>1
    <3> QED
      BY <2>6, <2>9, <2>11, <2>12, <3>1
  <2> QED
    BY <2>3, <2>8, <2>9, <2>10, <2>13
<1> HIDE DEF Right
<1>4. Bad = {}
  <2>1. ASSUME NEW n \in Bad
        PROVE  \E m \in Bad : m < n
    <3>1. n # 1
      BY <1>2
    <3>2. n - 1 \in 1 .. Len(c) - 1 /\ (n - 1) + 1 = n /\ n - 1 < n
          /\ n - 1 \in 1 .. Len(c)
      BY <1>1, <3>1
    <3>3. ~Right(Upto(c, n - 1))
      BY <1>3, <3>2
    <3> QED
      BY <3>2, <3>3
  <2>2. Bad \in SUBSET Nat
    BY <1>1
  <2> HIDE DEF Bad
  <2> QED
    BY <2>1, <2>2, NoLeast
<1>5. Right(c)
  <2>1. Len(c) \in 1 .. Len(c)
    BY <1>1
  <2>2. Upto(c, Len(c)) = c
    BY <1>1, UptoAll
  <2> QED
    BY <1>4, <2>1, <2>2
<1> QED
  BY <1>5 DEF Right

\* No money is made: the coins of the map are never worth more than the subsidies
\* of the blocks of the active chain, even in the middle of a reorganisation, if
\* the transactions of each block spend different outputs.
THEOREM CoinsAreMined ==
  ASSUME SpendOnce, NEW height, Orderly(height)
  PROVE  Spec /\ KinStay => []NoInflation
<1>1. IInv /\ CoinInv(height) /\ ReorgInv(height) => NoInflation
  <2> SUFFICES ASSUME CoinInv(height), ReorgInv(height)
               PROVE  NoInflation
    OBVIOUS
  <2>1. DOMAIN utxo = Unspent(MinedTo(activeChain, Len(activeChain)))
    BY DEF CoinInv, CoinsOf
  <2>2. TotalValue(DOMAIN utxo) <= Subsidies(Len(activeChain) - 1)
    BY <2>1, GoodWorth DEF ReorgInv
  <2> QED
    BY <2>2 DEF NoInflation, Subsidies
<1> QED
  BY <1>1, ReorgAlways, PTL

=============================================================================
