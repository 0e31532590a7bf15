---------------------------- MODULE CoinsProofs ----------------------------
(***************************************************************************)
(* Proofs about what follows the active chain of Chain: the map of unspent *)
(* outputs, the memory pool, the fee history and the file.                 *)
(***************************************************************************)
EXTENDS ChainProofs

-----------------------------------------------------------------------------
(* What a chain alone determines. *)

TxsAt(c, i) == Elements(TxsOf[c[i]])

\* The transactions of the blocks of a chain from the second to the n-th.
MinedTo(c, n) == UNION {TxsAt(c, i) : i \in 2 .. n}

SpentBy(S) == UNION {Ins[t] : t \in S}

Unspent(S) == OutsOfAll(S) \ SpentBy(S)

PlacesOf(c, t) == {i \in DOMAIN c : t \in TxsAt(c, i)}

EntryIn(c, p) == [coinbase |-> p[1] \in Coinbases, height |-> Min(PlacesOf(c, p[1]))]

\* The map of unspent outputs after the blocks of a chain.
CoinsOf(c) == [p \in Unspent(MinedTo(c, Len(c))) |-> EntryIn(c, p)]

\* Each transaction is in no earlier block, and spends what the earlier blocks
\* have left or its own block makes.
SpendsRight(c) ==
  \A i \in 2 .. Len(c) : \A t \in TxsAt(c, i) :
    /\ t \notin MinedTo(c, i - 1) /\ t \notin TxsAt(c, 1)
    /\ Ins[t] \subseteq Unspent(MinedTo(c, i - 1)) \cup OutsOfAll(TxsAt(c, i))

-----------------------------------------------------------------------------
(* Sets of transactions. *)

LEMMA OutKnowsTx ==
  ASSUME NEW t, NEW p \in OutsOf(t)
  PROVE  p[1] = t
  BY DEF OutsOf

LEMMA SpentByParts ==
  ASSUME NEW S, NEW T
  PROVE  /\ SpentBy(S \cup T) = SpentBy(S) \cup SpentBy(T)
         /\ OutsOfAll(S \cup T) = OutsOfAll(S) \cup OutsOfAll(T)
  BY DEF SpentBy, OutsOfAll

\* The blocks of a longer chain up to a place are those of the shorter one.
LEMMA MinedSame ==
  ASSUME NEW c, NEW e, NEW n \in Nat, \A i \in 2 .. n : c[i] = e[i]
  PROVE  MinedTo(c, n) = MinedTo(e, n)
  BY DEF MinedTo, TxsAt

LEMMA MinedGrows ==
  ASSUME NEW c, NEW n \in Nat, n >= 1
  PROVE  MinedTo(c, n + 1) = MinedTo(c, n) \cup TxsAt(c, n + 1)
<1>1. 2 .. n + 1 = (2 .. n) \cup {n + 1}
  OBVIOUS
<1> QED
  BY <1>1 DEF MinedTo

LEMMA MinedBefore ==
  ASSUME NEW c, NEW m \in Nat, NEW n \in Nat, m <= n
  PROVE  MinedTo(c, m) \subseteq MinedTo(c, n)
<1>1. 2 .. m \subseteq 2 .. n
  OBVIOUS
<1> QED
  BY <1>1 DEF MinedTo

\* What is spent was made.
LEMMA SpentWasMade ==
  ASSUME NEW c, Len(c) \in Nat, SpendsRight(c)
  PROVE  SpentBy(MinedTo(c, Len(c))) \subseteq OutsOfAll(MinedTo(c, Len(c)))
<1> DEFINE n == Len(c)
<1>1. ASSUME NEW p \in SpentBy(MinedTo(c, n))
      PROVE  p \in OutsOfAll(MinedTo(c, n))
  <2>1. PICK i \in 2 .. n : \E t \in TxsAt(c, i) : p \in Ins[t]
    BY <1>1 DEF SpentBy, MinedTo
  <2>2. p \in OutsOfAll(MinedTo(c, i - 1)) \/ p \in OutsOfAll(TxsAt(c, i))
    BY <2>1 DEF SpendsRight, Unspent
  <2>4. TxsAt(c, i) \subseteq MinedTo(c, n)
    BY <2>1 DEF MinedTo
  <2>3. MinedTo(c, i - 1) \subseteq MinedTo(c, n)
    <3>1. i - 1 \in Nat /\ i - 1 <= n
      BY <2>1
    <3> HIDE DEF n
    <3> QED
      BY <3>1, MinedBefore DEF n
  <2> QED
    BY <2>2, <2>3, <2>4 DEF OutsOfAll
<1> QED
  BY <1>1

-----------------------------------------------------------------------------
(* A block more, a block less. *)

\* A block may hold a transaction and one that spends it, and then in that order.
HoldsKin(b) == \E t, u \in Elements(TxsOf[b]) : Ins[t] \cap OutsOf(u) # {}

ParentsFirst(b) ==
  \A i, j \in DOMAIN TxsOf[b] : Ins[TxsOf[b][i]] \cap OutsOf(TxsOf[b][j]) # {} => j < i

\* In closed form, what a block makes and keeps, and what it puts back.
LEMMA BlockParts ==
  ASSUME NEW b \in Blocks, ParentsFirst(b)
  PROVE  LET txs == TxsOf[b]
             T   == Elements(txs)
         IN  /\ SpentIn(txs) = SpentBy(T) /\ MadeIn(txs) = OutsOfAll(T)
             /\ MadeAndKept(txs) = OutsOfAll(T) \ SpentBy(T)
             /\ ~HoldsKin(b) => PutBack(txs) = SpentBy(T)
<1> DEFINE txs == TxsOf[b]
           T   == Elements(txs)
<1>1. Len(txs) \in Nat /\ DOMAIN txs = 1 .. Len(txs)
  BY BlockTyped, LenProperties
<1>2. \A i, j \in DOMAIN txs : Ins[txs[i]] \cap OutsOf(txs[j]) # {} => j < i
  BY DEF ParentsFirst
<1>3. HoldsKin(b) \/ \A i, j \in DOMAIN txs : Ins[txs[i]] \cap OutsOf(txs[j]) = {}
  BY DEF HoldsKin, Elements
<1> HIDE DEF txs
<1>4. {k \in DOMAIN txs : k >= 1} = DOMAIN txs
  BY <1>1
<1>5. SpentIn(txs) = SpentBy(T) /\ MadeIn(txs) = OutsOfAll(T)
  BY <1>4 DEF SpentIn, MadeIn, SpentFrom, MadeFrom, SpentBy, OutsOfAll, Elements
<1>6. \A i \in DOMAIN txs : OutsOf(txs[i]) \ SpentFrom(txs, i + 1) = OutsOf(txs[i]) \ SpentBy(T)
  <2> TAKE i \in DOMAIN txs
  <2>1. \A k \in DOMAIN txs : k >= i + 1 <=> i < k
    BY <1>1
  <2>2. SpentFrom(txs, i + 1) = UNION {Ins[txs[k]] : k \in {j \in DOMAIN txs : i < j}}
    BY <2>1 DEF SpentFrom
  <2>3. \A p \in OutsOf(txs[i]) :
          p \in SpentBy(T) <=> \E k \in {j \in DOMAIN txs : i < j} : p \in Ins[txs[k]]
    BY <1>2 DEF SpentBy, Elements
  <2> QED
    BY <2>2, <2>3
<1>7. MadeAndKept(txs) = OutsOfAll(T) \ SpentBy(T)
  <2>1. MadeAndKept(txs) = UNION {OutsOf(txs[i]) \ SpentBy(T) : i \in DOMAIN txs}
    BY <1>6 DEF MadeAndKept
  <2> HIDE DEF T
  <2>2. \A p : p \in OutsOfAll(T) <=> \E i \in DOMAIN txs : p \in OutsOf(txs[i])
    BY DEF OutsOfAll, Elements, T
  <2> QED
    BY <2>1, <2>2
<1>8. ASSUME ~HoldsKin(b)
      PROVE  PutBack(txs) = SpentBy(T)
  <2>1. \A i \in DOMAIN txs : Ins[txs[i]] \ MadeFrom(txs, i) = Ins[txs[i]]
    BY <1>3, <1>8 DEF MadeFrom
  <2>2. PutBack(txs) = UNION {Ins[txs[i]] : i \in DOMAIN txs}
    BY <2>1 DEF PutBack
  <2> QED
    BY <2>2 DEF SpentBy, Elements
<1> QED
  BY <1>5, <1>7, <1>8 DEF txs

LEMMA Longer ==
  ASSUME NEW c \in Seq(Blocks), c # <<>>, NEW b \in Blocks
  PROVE  LET e == Append(c, b)
             n == Len(c)
         IN  /\ n \in Nat \ {0} /\ e \in Seq(Blocks) /\ Len(e) = n + 1
             /\ DOMAIN c = 1 .. n /\ DOMAIN e = 1 .. n + 1
             /\ \A i \in 1 .. n : e[i] = c[i] /\ c[i] \in Blocks
             /\ e[n + 1] = b
             /\ \A i \in 1 .. n : MinedTo(e, i) = MinedTo(c, i)
             /\ MinedTo(e, n + 1) = MinedTo(c, n) \cup Elements(TxsOf[b])
<1> DEFINE e == Append(c, b)
           n == Len(c)
<1>1. n \in Nat \ {0} /\ DOMAIN c = 1 .. n /\ \A i \in 1 .. n : c[i] \in Blocks
  BY LenProperties, ElementOfSeq, EmptySeq
<1>2. e \in Seq(Blocks) /\ Len(e) = n + 1 /\ e[n + 1] = b /\ \A i \in 1 .. n : e[i] = c[i]
  BY AppendProperties
<1>3. DOMAIN e = 1 .. n + 1
  BY <1>2, LenProperties
<1> HIDE DEF e, n
<1>4. ASSUME NEW i \in 1 .. n
      PROVE  MinedTo(e, i) = MinedTo(c, i)
  <2>1. i \in Nat /\ 2 .. i \subseteq 1 .. n
    BY <1>1
  <2> QED
    BY <1>2, <2>1, MinedSame
<1>5. MinedTo(e, n + 1) = MinedTo(c, n) \cup Elements(TxsOf[b])
  <2>1. n \in Nat /\ n >= 1 /\ n \in 1 .. n
    BY <1>1
  <2>2. MinedTo(e, n + 1) = MinedTo(e, n) \cup TxsAt(e, n + 1)
    BY <2>1, MinedGrows
  <2> QED
    BY <1>2, <1>4, <2>1, <2>2 DEF TxsAt
<1> QED
  BY <1>1, <1>2, <1>3, <1>4, <1>5 DEF e, n

\* What a block finds that is right for the chain below it.
FindsCoins(c, b) ==
  \A t \in Elements(TxsOf[b]) :
    /\ t \notin MinedTo(c, Len(c)) /\ t \notin TxsAt(c, 1)
    /\ Ins[t] \subseteq Unspent(MinedTo(c, Len(c))) \cup OutsOfAll(Elements(TxsOf[b]))

LEMMA SpendsOn ==
  ASSUME NEW c \in Seq(Blocks), c # <<>>, NEW b \in Blocks
  PROVE  SpendsRight(Append(c, b)) <=> SpendsRight(c) /\ FindsCoins(c, b)
<1> DEFINE e == Append(c, b)
           n == Len(c)
<1>1. /\ n \in Nat \ {0} /\ Len(e) = n + 1 /\ e[n + 1] = b
      /\ \A i \in 1 .. n : e[i] = c[i]
      /\ \A i \in 1 .. n : MinedTo(e, i) = MinedTo(c, i)
  BY Longer
<1> HIDE DEF e, n
<1>2. \A i \in 1 .. n : TxsAt(e, i) = TxsAt(c, i)
  BY <1>1 DEF TxsAt
<1>3. TxsAt(e, n + 1) = Elements(TxsOf[b])
  BY <1>1 DEF TxsAt
<1>4. 2 .. n + 1 = (2 .. n) \cup {n + 1} /\ 1 \in 1 .. n /\ n \in 1 .. n
      /\ (n + 1) - 1 = n
  BY <1>1
<1>5. \A i \in 2 .. n : i \in 1 .. n /\ i - 1 \in 1 .. n
  BY <1>1
<1> DEFINE Right(s, i) == \A t \in TxsAt(s, i) :
                            /\ t \notin MinedTo(s, i - 1) /\ t \notin TxsAt(s, 1)
                            /\ Ins[t] \subseteq Unspent(MinedTo(s, i - 1))
                                                  \cup OutsOfAll(TxsAt(s, i))
<1>6. \A i \in 2 .. n : Right(e, i) <=> Right(c, i)
  BY <1>1, <1>2, <1>4, <1>5
<1>7. Right(e, n + 1) <=> FindsCoins(c, b)
  BY <1>1, <1>2, <1>3, <1>4 DEF FindsCoins, n
<1>8. SpendsRight(e) <=> (\A i \in 2 .. n : Right(e, i)) /\ Right(e, n + 1)
  BY <1>1, <1>4 DEF SpendsRight
<1>9. SpendsRight(c) <=> \A i \in 2 .. n : Right(c, i)
  BY DEF SpendsRight, n
<1> HIDE DEF Right
<1> QED
  BY <1>6, <1>7, <1>8, <1>9 DEF e

LEMMA PlacesBefore ==
  ASSUME NEW c \in Seq(Blocks), c # <<>>, NEW b \in Blocks, FindsCoins(c, b),
         NEW t
  PROVE  /\ t \in MinedTo(c, Len(c)) => PlacesOf(Append(c, b), t) = PlacesOf(c, t)
         /\ t \in Elements(TxsOf[b]) => PlacesOf(Append(c, b), t) = {Len(c) + 1}
<1> DEFINE e == Append(c, b)
           n == Len(c)
<1>1. /\ n \in Nat \ {0} /\ e[n + 1] = b
      /\ DOMAIN c = 1 .. n /\ DOMAIN e = 1 .. n + 1
      /\ \A i \in 1 .. n : e[i] = c[i]
  BY Longer
<1>2. /\ t \in Elements(TxsOf[b]) => t \notin MinedTo(c, n) /\ t \notin TxsAt(c, 1)
  BY DEF FindsCoins
<1> HIDE DEF e, n
<1>3. 1 .. n + 1 = (1 .. n) \cup {n + 1} /\ 1 .. n = {1} \cup 2 .. n
  BY <1>1
<1>4. ASSUME t \in MinedTo(c, n)
      PROVE  PlacesOf(e, t) = PlacesOf(c, t)
  <2>1. t \notin Elements(TxsOf[b])
    BY <1>2, <1>4
  <2> QED
    BY <1>1, <1>3, <2>1 DEF PlacesOf, TxsAt
<1>5. ASSUME t \in Elements(TxsOf[b])
      PROVE  PlacesOf(e, t) = {n + 1}
  <2>1. \A i \in 1 .. n : t \notin Elements(TxsOf[c[i]])
    BY <1>2, <1>3, <1>5 DEF MinedTo, TxsAt
  <2> QED
    BY <1>1, <1>3, <1>5, <2>1 DEF PlacesOf, TxsAt
<1> QED
  BY <1>4, <1>5 DEF e, n

\* The coins of a longer chain, from those of the shorter.
LEMMA CoinsAfter ==
  ASSUME NEW c \in Seq(Blocks), c # <<>>, NEW b \in Blocks,
         SpendsRight(c), FindsCoins(c, b)
  PROVE  LET M == MinedTo(c, Len(c))
             T == Elements(TxsOf[b])
         IN  /\ MinedTo(Append(c, b), Len(Append(c, b))) = M \cup T
             /\ Unspent(M \cup T)
                  = (Unspent(M) \ SpentBy(T)) \cup (OutsOfAll(T) \ SpentBy(T))
             /\ OutsOfAll(T) \cap OutsOfAll(M) = {}
             /\ SpentBy(T) \subseteq Unspent(M) \cup OutsOfAll(T)
             /\ \A p \in OutsOfAll(T) : EntryIn(Append(c, b), p)
                  = [coinbase |-> p[1] \in Coinbases, height |-> Len(c) + 1]
             /\ \A p \in OutsOfAll(M) : EntryIn(Append(c, b), p) = EntryIn(c, p)
<1> DEFINE M == MinedTo(c, Len(c))
           T == Elements(TxsOf[b])
<1>1. MinedTo(Append(c, b), Len(Append(c, b))) = M \cup T
  BY Longer
<1>2. Len(c) \in Nat \ {0}
  BY Longer
<1>3. SpentBy(T) \subseteq Unspent(M) \cup OutsOfAll(T) /\ T \cap M = {}
  BY DEF FindsCoins, SpentBy
<1>4. SpentBy(M) \subseteq OutsOfAll(M)
  BY <1>2, SpentWasMade
<1> HIDE DEF M, T
<1>6. \A S : \A p \in OutsOfAll(S) : p[1] \in S
  BY OutKnowsTx DEF OutsOfAll
<1>7. OutsOfAll(T) \cap OutsOfAll(M) = {}
  BY <1>3, <1>6
<1>8. Unspent(M \cup T) = (Unspent(M) \ SpentBy(T)) \cup (OutsOfAll(T) \ SpentBy(T))
  <2>1. Unspent(M \cup T) = (OutsOfAll(M) \cup OutsOfAll(T)) \ (SpentBy(M) \cup SpentBy(T))
    BY SpentByParts DEF Unspent
  <2> QED
    BY <1>4, <1>7, <2>1 DEF Unspent
<1>9. ASSUME NEW p \in OutsOfAll(T)
      PROVE  EntryIn(Append(c, b), p)
               = [coinbase |-> p[1] \in Coinbases, height |-> Len(c) + 1]
  <2>1. PlacesOf(Append(c, b), p[1]) = {Len(c) + 1}
    BY <1>6, PlacesBefore DEF T
  <2>2. Min({Len(c) + 1}) = Len(c) + 1
    BY <1>2 DEF Min
  <2> QED
    BY <2>1, <2>2 DEF EntryIn
<1>10. ASSUME NEW p \in OutsOfAll(M)
       PROVE  EntryIn(Append(c, b), p) = EntryIn(c, p)
  <2>1. PlacesOf(Append(c, b), p[1]) = PlacesOf(c, p[1])
    BY <1>6, PlacesBefore DEF M
  <2> QED
    BY <2>1 DEF EntryIn
<1> QED
  BY <1>1, <1>3, <1>7, <1>8, <1>9, <1>10 DEF M, T

LEMMA ConnectExact ==
  ASSUME NEW c \in Seq(Blocks), c # <<>>, NEW b \in Blocks, ParentsFirst(b),
         SpendsRight(c), FindsCoins(c, b)
  PROVE  ConnectTxs(CoinsOf(c), TxsOf[b], Len(c) + 1) = CoinsOf(Append(c, b))
<1> DEFINE e == Append(c, b)
           h == Len(c) + 1
           M == MinedTo(c, Len(c))
           T == Elements(TxsOf[b])
           new(p) == [coinbase |-> p[1] \in Coinbases, height |-> h]
           kept == OutsOfAll(T) \ SpentBy(T)
<1>1. /\ MinedTo(e, Len(e)) = M \cup T
      /\ Unspent(M \cup T) = (Unspent(M) \ SpentBy(T)) \cup kept
      /\ OutsOfAll(T) \cap OutsOfAll(M) = {}
      /\ \A p \in OutsOfAll(T) : EntryIn(e, p) = new(p)
      /\ \A p \in OutsOfAll(M) : EntryIn(e, p) = EntryIn(c, p)
  BY CoinsAfter
<1>2. SpentIn(TxsOf[b]) = SpentBy(T) /\ MadeAndKept(TxsOf[b]) = kept
  BY BlockParts
<1>3. CoinsOf(c) = [p \in Unspent(M) |-> EntryIn(c, p)]
  BY DEF CoinsOf
<1>4. CoinsOf(e) = [p \in Unspent(M \cup T) |-> EntryIn(e, p)]
  BY <1>1 DEF CoinsOf
<1>5. kept \subseteq OutsOfAll(T)
  OBVIOUS
<1> HIDE DEF M, T, e, h, kept
<1>6. ConnectTxs(CoinsOf(c), TxsOf[b], h)
        = [p \in (Unspent(M) \ SpentBy(T)) \cup kept |->
             IF p \in kept THEN new(p) ELSE CoinsOf(c)[p]]
  BY <1>2, <1>3 DEF ConnectTxs
<1>7. \A p \in (Unspent(M) \ SpentBy(T)) \cup kept :
        EntryIn(e, p) = IF p \in kept THEN new(p) ELSE CoinsOf(c)[p]
  <2> HIDE DEF new
  <2> QED
    BY <1>1, <1>3, <1>5 DEF Unspent
<1> HIDE DEF new
<1>8. ConnectTxs(CoinsOf(c), TxsOf[b], h) = CoinsOf(e)
  BY <1>1, <1>4, <1>6, <1>7
<1> QED
  BY <1>8 DEF e, h

LEMMA DisconnectExact ==
  ASSUME NEW c \in Seq(Blocks), c # <<>>, NEW b \in Blocks, ParentsFirst(b),
         ~HoldsKin(b), SpendsRight(c), FindsCoins(c, b)
  PROVE  LET e     == Append(c, b)
             found == {p \in PutBack(TxsOf[b]) : PlacesOf(e, p[1]) # {}}
             entry == [p \in found |-> EntryIn(e, p)]
         IN  DisconnectTxs(CoinsOf(e), TxsOf[b], entry) = CoinsOf(c)
<1> DEFINE e     == Append(c, b)
           found == {p \in PutBack(TxsOf[b]) : PlacesOf(e, p[1]) # {}}
           entry == [p \in found |-> EntryIn(e, p)]
           M == MinedTo(c, Len(c))
           T == Elements(TxsOf[b])
<1>1. /\ MinedTo(e, Len(e)) = M \cup T
      /\ Unspent(M \cup T) = (Unspent(M) \ SpentBy(T)) \cup (OutsOfAll(T) \ SpentBy(T))
      /\ OutsOfAll(T) \cap OutsOfAll(M) = {}
      /\ SpentBy(T) \subseteq Unspent(M) \cup OutsOfAll(T)
      /\ \A p \in OutsOfAll(M) : EntryIn(e, p) = EntryIn(c, p)
  BY CoinsAfter
<1>12. SpentBy(T) \subseteq Unspent(M)
  <2>1. SpentBy(T) \cap OutsOfAll(T) = {}
    BY DEF HoldsKin, SpentBy, OutsOfAll
  <2> QED
    BY <1>1, <2>1
<1>2. PutBack(TxsOf[b]) = SpentBy(T) /\ MadeIn(TxsOf[b]) = OutsOfAll(T)
  BY BlockParts
<1>3. \A p \in SpentBy(T) : PlacesOf(e, p[1]) # {}
  <2> TAKE p \in SpentBy(T)
  <2>1. p \in OutsOfAll(M)
    BY <1>12 DEF Unspent
  <2>2. p[1] \in M
    BY <2>1, OutKnowsTx DEF OutsOfAll
  <2>3. PlacesOf(e, p[1]) = PlacesOf(c, p[1])
    BY <2>2, PlacesBefore
  <2>4. DOMAIN c = 1 .. Len(c) /\ Len(c) \in Nat
    BY LenProperties
  <2>5. PICK i \in 2 .. Len(c) : p[1] \in TxsAt(c, i)
    BY <2>2 DEF MinedTo
  <2>6. i \in DOMAIN c
    BY <2>4, <2>5
  <2> QED
    BY <2>3, <2>5, <2>6 DEF PlacesOf
<1>4. CoinsOf(c) = [p \in Unspent(M) |-> EntryIn(c, p)]
  BY DEF CoinsOf
<1>5. CoinsOf(e) = [p \in Unspent(M \cup T) |-> EntryIn(e, p)]
  BY <1>1 DEF CoinsOf
<1> HIDE DEF M, T, e
<1>6. found = SpentBy(T)
  BY <1>2, <1>3
<1>7. /\ DOMAIN entry = SpentBy(T)
      /\ \A p \in SpentBy(T) : entry[p] = EntryIn(e, p)
  BY <1>6
<1> HIDE DEF entry, found
<1>8. DisconnectTxs(CoinsOf(e), TxsOf[b], entry)
        = [p \in (Unspent(M \cup T) \ OutsOfAll(T)) \cup SpentBy(T) |->
             IF p \in SpentBy(T) THEN entry[p] ELSE CoinsOf(e)[p]]
  <2>1. PutBack(TxsOf[b]) \cap DOMAIN entry = SpentBy(T)
    BY <1>2, <1>7
  <2> QED
    BY <1>2, <1>5, <2>1 DEF DisconnectTxs
<1>9. (Unspent(M \cup T) \ OutsOfAll(T)) \cup SpentBy(T) = Unspent(M)
  BY <1>1, <1>12 DEF Unspent
<1>10. \A p \in Unspent(M) :
         EntryIn(c, p) = IF p \in SpentBy(T) THEN entry[p] ELSE CoinsOf(e)[p]
  <2> TAKE p \in Unspent(M)
  <2>1. EntryIn(e, p) = EntryIn(c, p)
    BY <1>1 DEF Unspent
  <2>2. CASE p \in SpentBy(T)
    BY <1>7, <2>1, <2>2
  <2>3. CASE p \notin SpentBy(T)
    BY <1>1, <1>12, <1>5, <2>1, <2>3
  <2> QED
    BY <2>2, <2>3
<1>11. DisconnectTxs(CoinsOf(e), TxsOf[b], entry) = CoinsOf(c)
  BY <1>4, <1>8, <1>9, <1>10
<1> QED
  BY <1>11 DEF e, entry, found

-----------------------------------------------------------------------------
(* What a step does to the chain and to what follows it. *)

StartsOver ==
  /\ activeChain' = <<Genesis>> /\ activeChainIndex' = [b \in {Genesis} |-> 0]
  /\ utxo' = <<>> /\ mempool' = {}

LEMMA LedgerMoves ==
  ASSUME IInv, [Next]_vars
  PROVE  \/ UNCHANGED <<activeChain, activeChainIndex, ledgerVars>>
         \/ /\ UNCHANGED <<activeChain, activeChainIndex, utxo, feeHistory>>
            /\ \E t \in Txs : AddTx(t)
         \/ \E b \in Blocks : ~OnActive(b) /\ ExtendsActive(b) /\ PushOnActive(b)
         \/ OnActive(forkBlock) /\ DisconnectTip
         \/ StartsOver /\ (FailLoad \/ feeHistory' = <<>>)
<1> USE DEF ledgerVars, chainVars
<1>1. CASE UNCHANGED vars
  BY <1>1 DEF vars
<1>2. CASE Connect
  <2>1. ASSUME NEW b \in Blocks, IgnoreSeen(b) \/ RejectBlock(b) \/ StoreOrphan(b)
        PROVE  UNCHANGED <<activeChain, activeChainIndex, ledgerVars>>
    BY <2>1 DEF IgnoreSeen, RejectBlock, StoreOrphan, NothingConnected, KeepOrphan
  <2>2. ASSUME NEW b \in Blocks, ConnectAside(b)
        PROVE  UNCHANGED <<activeChain, activeChainIndex, ledgerVars>>
    BY <2>2 DEF ConnectAside, PushAside, PushOnBranch, PushOnNewBranch
  <2>3. ASSUME NEW b \in Blocks, ConnectToActive(b)
        PROVE  ~OnActive(b) /\ ExtendsActive(b) /\ PushOnActive(b)
    BY <2>3 DEF ConnectToActive, Known
  <2>4. ASSUME SaveToDisk \/ FinishLoad
        PROVE  UNCHANGED <<activeChain, activeChainIndex, ledgerVars>>
    BY <2>4 DEF SaveToDisk, FinishLoad, WriteFile
  <2>5. ASSUME FailLoad
        PROVE  StartsOver
    BY <2>5 DEF FailLoad, RebuildIndex, ForgetUtxo, StartsOver
  <2> QED
    BY <1>2, <2>1, <2>2, <2>3, <2>4, <2>5 DEF Connect
<1>3. CASE Reorg
  <2>1. ASSUME \/ SkipBranch \/ StartReorg \/ ReadOutOfBounds \/ ScanDone \/ ForkReached
               \/ CommitReorg \/ RollbackDone
        PROVE  UNCHANGED <<activeChain, activeChainIndex, ledgerVars>>
    BY <2>1 DEF SkipBranch, StartReorg, ReadOutOfBounds, ScanDone, ForkReached,
                CommitReorg, RollbackDone
  <2>2. ASSUME DisconnectTip
        PROVE  OnActive(forkBlock)
    BY <2>2 DEF DisconnectTip, IInv, ForkStaysActive, Reorganising
  <2>3. ASSUME NEW b \in Blocks, FailInReorg(b)
        PROVE  UNCHANGED <<activeChain, activeChainIndex, ledgerVars>>
    BY <2>3 DEF FailInReorg, NothingConnected, KeepOrphan, PushAside, PushOnBranch,
                PushOnNewBranch
  <2>4. ASSUME ExtendReorg \/ AbandonReorg \/ RestoreOld
        PROVE  \E b \in Blocks : ConnectInReorg(b) \/ FailInReorg(b)
    BY <2>4, LoopBlocks DEF ExtendReorg, AbandonReorg, RestoreOld, Extending
  <2>5. ASSUME NEW b \in Blocks, ConnectInReorg(b)
        PROVE  ~OnActive(b) /\ ExtendsActive(b) /\ PushOnActive(b)
    BY <2>5 DEF ConnectInReorg
  <2> QED
    BY <1>3, <2>1, <2>2, <2>3, <2>4, <2>5 DEF Reorg
<1>4. CASE Environment
  <2>1. ASSUME NEW b \in Blocks, ReceiveBlock(b) \/ ConnectMined(b)
        PROVE  UNCHANGED <<activeChain, activeChainIndex, ledgerVars>>
    BY <2>1 DEF ReceiveBlock, ConnectMined
  <2>2. ASSUME StartMining \/ LoadFromDisk \/ Tick
        PROVE  UNCHANGED <<activeChain, activeChainIndex, ledgerVars>>
    BY <2>2 DEF StartMining, LoadFromDisk, Tick
  <2>3. ASSUME NEW t \in Txs, AddTx(t)
        PROVE  UNCHANGED <<activeChain, activeChainIndex, utxo, feeHistory>>
    BY <2>3 DEF AddTx
  <2>4. ASSUME Restart
        PROVE  StartsOver /\ feeHistory' = <<>>
    BY <2>4 DEF Restart, StartsOver
  <2> QED
    BY <1>4, <2>1, <2>2, <2>3, <2>4 DEF Environment
<1> QED
  BY <1>1, <1>2, <1>3, <1>4 DEF Next

-----------------------------------------------------------------------------
(* The map of unspent outputs and the pool. *)

\* Every block after the first passed the checks and is at its height.
Placed(height) ==
  /\ \A i \in 2 .. Len(activeChain) : activeChain[i] \in Sound
  /\ \A i \in 1 .. Len(activeChain) : height[activeChain[i]] = i - 1

CoinInv(height) ==
  /\ utxo = CoinsOf(activeChain) /\ SpendsRight(activeChain)
  /\ Placed(height)
  /\ PoolIsUnmined

LEMMA MinedIsMinedTo == Mined = MinedTo(activeChain, Len(activeChain))
  BY DEF Mined, MinedTo, TxsAt

\* The block that extends the active chain finds the coins it spends, and brings
\* only new transactions: a transaction with inputs cannot be mined twice while
\* they are spent, a coinbase belongs to its height.
LEMMA ExtensionFindsCoins ==
  ASSUME IInv, NEW height, Orderly(height), CoinInv(height),
         NEW b \in Blocks, ~OnActive(b), ExtendsActive(b)
  PROVE  /\ FindsCoins(activeChain, b) /\ ParentsFirst(b)
         /\ b \in Sound /\ height[b] = Len(activeChain)
<1> DEFINE n == Len(activeChain)
           M == MinedTo(activeChain, n)
           T == Elements(TxsOf[b])
<1>1. /\ n \in Nat \ {0} /\ Tip \in Blocks /\ Tip = activeChain[n] /\ b # Genesis
      /\ activeChain[1] = Genesis /\ \A i \in 1 .. n : activeChain[i] \in Blocks
  BY ActiveChain DEF Tip, IInv, ChainIndexed
<1>2. b \in Sound /\ Parent[b] = Tip /\ ValidOnTip(b)
  BY DEF ExtendsActive, Timely
<1>3. ParentsFirst(b)
  BY <1>2 DEF Orderly, ParentsFirst
<1>4. height[b] = n
  <2>1. n \in 1 .. n
    BY <1>1
  <2>2. height[Tip] = n - 1
    BY <1>1, <2>1 DEF CoinInv, Placed
  <2>3. height[b] = height[Tip] + 1
    BY <1>1, <1>2 DEF Orderly, IsHeight, NonGenesis
  <2> QED
    BY <1>1, <2>2, <2>3
<1>5. T \subseteq Txs
  BY BlockTyped
<1>6. ASSUME NEW t \in T, t \in Coinbases, NEW i \in 1 .. n
      PROVE  t \notin TxsAt(activeChain, i)
  <2>1. activeChain[i] \in Sound \cup {Genesis}
    <3>1. i = 1 \/ i \in 2 .. n
      BY <1>1
    <3> QED
      BY <1>1, <3>1 DEF CoinInv, Placed
  <2>2. height[activeChain[i]] = i - 1 /\ i - 1 # n
    BY <1>1 DEF CoinInv, Placed
  <2>3. height[activeChain[i]] # height[b]
    BY <1>4, <2>2
  <2> QED
    BY <1>2, <1>6, <2>1, <2>3 DEF Orderly, TxsAt
<1>7. ASSUME NEW t \in T, t \in Coinbases
      PROVE  /\ Ins[t] = {} /\ t \notin M /\ t \notin TxsAt(activeChain, 1)
  <2>1. Ins[t] = {}
    BY <1>7, TxAssumption
  <2>2. 1 \in 1 .. n /\ \A i \in 2 .. n : i \in 1 .. n
    BY <1>1
  <2> QED
    BY <1>6, <1>7, <2>1, <2>2 DEF MinedTo
<1>8. ASSUME NEW t \in T, t \notin Coinbases
      PROVE  /\ Ins[t] # {} /\ Ins[t] \subseteq Unspent(M) \cup OutsOfAll(T)
             /\ t \notin TxsAt(activeChain, 1)
  <2>1. Ins[t] # {}
    BY <1>5, <1>8 DEF Orderly
  <2>2. t \in NonCoinbase(TxsOf[b])
    BY <1>8 DEF NonCoinbase
  <2>3. Ins[t] \subseteq DOMAIN utxo \cup OutsOfAll(NonCoinbase(TxsOf[b]))
    BY <1>2, <2>2 DEF ValidOnTip, ValidTx
  <2>4. OutsOfAll(NonCoinbase(TxsOf[b])) \subseteq OutsOfAll(T)
    BY DEF OutsOfAll, NonCoinbase
  <2>5. DOMAIN utxo = Unspent(M)
    BY DEF CoinInv, CoinsOf
  <2>8. t \notin TxsAt(activeChain, 1)
    BY <1>1, <1>8 DEF Orderly, TxsAt
  <2> QED
    BY <2>1, <2>3, <2>4, <2>5, <2>8
<1>10. T \cap M = {}
  <2> DEFINE txs == TxsOf[b]
             Bad == {i \in DOMAIN txs : txs[i] \in M}
  <2>1. DOMAIN txs \subseteq Nat
    BY BlockTyped, LenProperties
  <2>2. SpentBy(M) \subseteq OutsOfAll(M)
    BY <1>1, SpentWasMade DEF CoinInv
  <2>3. ASSUME NEW i \in Bad
        PROVE  \E j \in Bad : j < i
    <3>1. txs[i] \in T /\ txs[i] \in M /\ Ins[txs[i]] \subseteq SpentBy(M)
      BY DEF Elements, SpentBy
    <3>2. txs[i] \notin Coinbases
      BY <1>7, <3>1
    <3>3. PICK p \in Ins[txs[i]] : p \in OutsOfAll(T)
      BY <1>8, <3>1, <3>2 DEF Unspent
    <3>4. PICK j \in DOMAIN txs : p \in OutsOf(txs[j])
      BY <3>3 DEF OutsOfAll, Elements
    <3>5. j < i
      BY <1>3, <3>3, <3>4 DEF ParentsFirst
    <3>6. PICK u \in M : p \in OutsOf(u)
      BY <2>2, <3>1, <3>3 DEF OutsOfAll
    <3>7. txs[j] = u
      BY <3>4, <3>6, OutKnowsTx
    <3> QED
      BY <3>4, <3>5, <3>6, <3>7
  <2> HIDE DEF M
  <2>4. Bad \in SUBSET Nat
    BY <2>1
  <2>5. Bad = {}
    <3> HIDE DEF Bad
    <3> QED
      BY <2>3, <2>4, NoLeast
  <2> QED
    BY <2>5 DEF Elements
<1>9. FindsCoins(activeChain, b)
  BY <1>7, <1>8, <1>10 DEF FindsCoins
<1> QED
  BY <1>2, <1>3, <1>4, <1>9

LEMMA PushCoins ==
  ASSUME IInv, NEW height, Orderly(height), CoinInv(height),
         NEW b \in Blocks, ~OnActive(b), ExtendsActive(b), PushOnActive(b)
  PROVE  CoinInv(height)'
<1> DEFINE c == activeChain
           n == Len(c)
           e == Append(c, b)
<1>1. c \in Seq(Blocks) /\ c # <<>> /\ activeChain' = e
  BY DEF IInv, TypeOK, ChainTypeOK, ChainIndexed, PushOnActive
<1>2. FindsCoins(c, b) /\ ParentsFirst(b) /\ b \in Sound /\ height[b] = n
  BY ExtensionFindsCoins
<1>3. /\ n \in Nat \ {0} /\ Len(e) = n + 1 /\ e[n + 1] = b
      /\ \A i \in 1 .. n : e[i] = c[i]
      /\ MinedTo(e, n + 1) = MinedTo(c, n) \cup Elements(TxsOf[b])
  BY <1>1, Longer
<1>4. utxo' = CoinsOf(e)
  BY <1>1, <1>2, ConnectExact DEF CoinInv, PushOnActive
<1>5. SpendsRight(e)
  BY <1>1, <1>2, SpendsOn DEF CoinInv
<1>6. Placed(height)'
  <2>1. 2 .. n + 1 = (2 .. n) \cup {n + 1} /\ 1 .. n + 1 = (1 .. n) \cup {n + 1}
        /\ 2 .. n \subseteq 1 .. n /\ (n + 1) - 1 = n
    BY <1>3
  <2> HIDE DEF e, n
  <2>2. \A i \in 2 .. n + 1 : e[i] \in Sound
    BY <1>2, <1>3, <2>1 DEF CoinInv, Placed, n
  <2>3. \A i \in 1 .. n + 1 : height[e[i]] = i - 1
    BY <1>2, <1>3, <2>1 DEF CoinInv, Placed, n
  <2> QED
    BY <1>1, <1>3, <2>2, <2>3 DEF Placed
<1>7. PoolIsUnmined'
  <2>1. Mined' = MinedTo(e, Len(e))
    BY <1>1, MinedIsMinedTo DEF Mined, MinedTo, TxsAt
  <2>2. mempool' = mempool \ Elements(TxsOf[b])
    BY DEF PushOnActive, RemoveFromPool
  <2> QED
    BY <1>3, <2>1, <2>2, MinedIsMinedTo DEF CoinInv, PoolIsUnmined
<1> QED
  BY <1>1, <1>4, <1>5, <1>6, <1>7 DEF CoinInv

LEMMA PopCoins ==
  ASSUME IInv, NEW height, Orderly(height), CoinInv(height),
         OnActive(forkBlock), DisconnectTip, ~HoldsKin(Tip)
  PROVE  CoinInv(height)'
<1> USE DEF DisconnectTip
<1> DEFINE e == activeChain
           n == Len(e)
           c == Front(e)
           b == e[n]
<1>1. n \in Nat /\ n >= 2 /\ e \in Seq(Blocks) /\ b = Tip /\ b \in Blocks
      /\ \A i \in 1 .. n : e[i] \in Blocks
  <2>1. /\ n \in Nat \ {0} /\ e \in Seq(Blocks) /\ b = Tip /\ b \in Blocks
        /\ \A a : OnActive(a) <=> \E i \in 1 .. n : e[i] = a
        /\ \A i \in 1 .. n : e[i] \in Blocks
    BY ActiveChain DEF IInv, TypeOK, ChainTypeOK, Tip
  <2>2. PICK i \in 1 .. n : e[i] = forkBlock
    BY <2>1
  <2>3. n # 1
    BY <2>1, <2>2
  <2> QED
    BY <2>1, <2>3
<1>2. c \in Seq(Blocks) /\ Len(c) = n - 1 /\ c # <<>> /\ \A i \in 1 .. n - 1 : c[i] = e[i]
  <2> HIDE DEF n
  <2>1. c = SubSeq(e, 1, n - 1)
    BY DEF Front, n
  <2>2. n - 1 \in Int /\ n - 1 <= n /\ 1 <= n - 1 /\ 1 \in Nat \ {0}
    BY <1>1
  <2> DEFINE s == SubSeq(e, 1, n - 1)
  <2>3. /\ s \in Seq(Blocks) /\ Len(s) = n - 1
        /\ \A i \in 1 .. n - 1 : s[i] = e[i]
    BY <1>1, <2>2, PrefixTyped DEF n
  <2> HIDE DEF s
  <2>4. s # <<>>
    <3>1. Len(s) # 0
      BY <2>2, <2>3
    <3> QED
      BY <3>1, EmptySeq
  <2> QED
    BY <2>1, <2>3, <2>4 DEF s
<1>3. e = Append(c, b)
  <2>1. Append(c, b) \in Seq(Blocks) /\ Len(Append(c, b)) = n
        /\ Append(c, b)[n] = b /\ \A i \in 1 .. n - 1 : Append(c, b)[i] = c[i]
    <3>1. (n - 1) + 1 = n
      BY <1>1
    <3> HIDE DEF c, b, n
    <3> QED
      BY <1>1, <1>2, <3>1, AppendProperties
  <2>2. \A i \in 1 .. n : i \in 1 .. n - 1 \/ i = n
    BY <1>1
  <2>3. \A i \in 1 .. n : Append(c, b)[i] = e[i]
    BY <1>2, <2>1, <2>2
  <2> HIDE DEF c, b
  <2> QED
    BY <1>1, <2>1, <2>3, SeqEqual
<1>4. SpendsRight(c) /\ FindsCoins(c, b)
  BY <1>1, <1>2, <1>3, SpendsOn DEF CoinInv
<1>5. ParentsFirst(b) /\ ~HoldsKin(b)
  <2>1. n \in 2 .. n
    BY <1>1
  <2>2. b \in Sound
    BY <2>1 DEF CoinInv, Placed
  <2> QED
    BY <1>1, <2>2 DEF Orderly, ParentsFirst
<1>6. utxo' = CoinsOf(c)
  <2>1. \A t : HeightsOf(t) = PlacesOf(e, t)
    BY DEF HeightsOf, PlacesOf, TxsAt
  <2>2. \A p : EntryInActiveChain(p) = EntryIn(e, p)
    BY <2>1 DEF EntryInActiveChain, EntryIn
  <2> DEFINE found == {p \in PutBack(TxsOf[b]) : PlacesOf(e, p[1]) # {}}
             entry == [p \in found |-> EntryIn(e, p)]
  <2>3. utxo' = DisconnectTxs(utxo, TxsOf[b], entry)
    BY <1>1, <2>1, <2>2 DEF PopTip
  <2>4. utxo = CoinsOf(e)
    BY DEF CoinInv
  <2>5. DisconnectTxs(CoinsOf(e), TxsOf[b], entry) = CoinsOf(c)
    <3> DEFINE x == Append(c, b)
               foundx == {p \in PutBack(TxsOf[b]) : PlacesOf(x, p[1]) # {}}
               entryx == [p \in foundx |-> EntryIn(x, p)]
    <3>1. DisconnectTxs(CoinsOf(x), TxsOf[b], entryx) = CoinsOf(c)
      <4> HIDE DEF b, c
      <4> QED
        BY <1>1, <1>2, <1>4, <1>5, DisconnectExact
    <3> QED
      BY <1>3, <3>1
  <2> QED
    BY <2>3, <2>4, <2>5
<1>7. activeChain' = c
  BY DEF PopTip
<1>8. Placed(height)'
  <2>1. \A i \in 1 .. n - 1 : i \in 1 .. n /\ (i \in 2 .. n - 1 => i \in 2 .. n)
    BY <1>1
  <2>2. \A i \in 2 .. n - 1 : i \in 1 .. n - 1
    BY <1>1
  <2> HIDE DEF c
  <2> QED
    BY <1>2, <1>7, <2>1, <2>2 DEF CoinInv, Placed
<1>9. PoolIsUnmined'
  <2>1. mempool' = mempool \cup NonCoinbase(TxsOf[b])
    BY <1>1 DEF PopTip
  <2>2. Mined' = MinedTo(c, Len(c))
    BY <1>7 DEF Mined, MinedTo, TxsAt
  <2>3. MinedTo(e, n) = MinedTo(c, Len(c)) \cup Elements(TxsOf[b])
    <3>1. Len(c) + 1 = n
      BY <1>1, <1>2
    <3> HIDE DEF c, b, e, n
    <3> QED
      BY <1>1, <1>2, <1>3, <3>1, Longer
  <2>4. NonCoinbase(TxsOf[b]) \cap MinedTo(c, Len(c)) = {}
    BY <1>4 DEF FindsCoins, NonCoinbase
  <2> QED
    BY <2>1, <2>2, <2>3, <2>4, MinedIsMinedTo DEF CoinInv, PoolIsUnmined
<1> QED
  BY <1>4, <1>6, <1>7, <1>8, <1>9 DEF CoinInv

\* A transaction of the active chain does not come into the pool again: what it
\* spends is gone from the map, and no transaction of the pool made it.
LEMMA AddedIsUnmined ==
  ASSUME IInv, NEW height, Orderly(height), CoinInv(height), NEW t \in Txs, AddTx(t)
  PROVE  t \notin Mined
<1> DEFINE M == MinedTo(activeChain, Len(activeChain))
<1>1. Ins[t] # {} /\ Ins[t] \subseteq DOMAIN utxo \cup OutsOfAll(mempool)
  BY DEF AddTx, Orderly, ValidTx
<1>2. DOMAIN utxo = Unspent(M)
  BY DEF CoinInv, CoinsOf
<1>3. SpentBy(M) \subseteq OutsOfAll(M)
  BY ActiveChain, SpentWasMade DEF CoinInv
<1>4. mempool \cap M = {}
  BY MinedIsMinedTo DEF CoinInv, PoolIsUnmined
<1> HIDE DEF M
<1>5. ASSUME t \in M
      PROVE  FALSE
  <2>1. Ins[t] \subseteq SpentBy(M)
    BY <1>5 DEF SpentBy
  <2>2. PICK p \in Ins[t] : p \in OutsOfAll(mempool)
    BY <1>1, <1>2, <2>1 DEF Unspent
  <2>3. p \in OutsOfAll(M)
    BY <1>3, <2>1, <2>2
  <2>4. p[1] \in mempool /\ p[1] \in M
    BY <2>2, <2>3, OutKnowsTx DEF OutsOfAll
  <2> QED
    BY <1>4, <2>4
<1> QED
  BY <1>5, MinedIsMinedTo DEF M

LEMMA NoCoins == CoinsOf(<<Genesis>>) = <<>> /\ SpendsRight(<<Genesis>>)
<1> DEFINE c == <<Genesis>>
<1>1. Len(c) = 1 /\ 2 .. 1 = {}
  OBVIOUS
<1>2. MinedTo(c, 1) = {}
  BY <1>1 DEF MinedTo
<1>3. Unspent({}) = {}
  BY DEF Unspent, OutsOfAll
<1>4. CoinsOf(c) = [p \in {} |-> EntryIn(c, p)]
  BY <1>1, <1>2, <1>3 DEF CoinsOf
<1>5. SpendsRight(c)
  BY <1>1 DEF SpendsRight
<1> HIDE DEF c
<1>6. [p \in {} |-> EntryIn(c, p)] = <<>>
  OBVIOUS
<1> QED
  BY <1>4, <1>5, <1>6 DEF c

LEMMA StartCoins ==
  ASSUME NEW height, Orderly(height)
  PROVE  /\ Init => CoinInv(height)
         /\ StartsOver => CoinInv(height)'
<1>1. CoinsOf(<<Genesis>>) = <<>> /\ SpendsRight(<<Genesis>>)
  BY NoCoins
<1>2. Len(<<Genesis>>) = 1 /\ height[Genesis] = 0
  BY DEF Orderly, IsHeight
<1>3. \A i \in 1 .. 1 : <<Genesis>>[i] = Genesis /\ i - 1 = 0
  OBVIOUS
<1>4. 2 .. 1 = {}
  OBVIOUS
<1>5. ASSUME Init
      PROVE  CoinInv(height)
  BY <1>1, <1>2, <1>3, <1>4, <1>5 DEF Init, CoinInv, Placed, PoolIsUnmined
<1>6. ASSUME StartsOver
      PROVE  CoinInv(height)'
  BY <1>1, <1>2, <1>3, <1>4, <1>6 DEF StartsOver, CoinInv, Placed, PoolIsUnmined
<1> QED
  BY <1>5, <1>6

LEMMA CoinStep ==
  ASSUME NEW height, Orderly(height), IInv, CoinInv(height), [Next]_vars,
         [DisconnectTip => ~HoldsKin(Tip)]_vars
  PROVE  CoinInv(height)'
<1>1. CASE UNCHANGED <<activeChain, activeChainIndex, ledgerVars>>
  BY <1>1 DEF CoinInv, Placed, PoolIsUnmined, Mined, ledgerVars
<1>2. ASSUME NEW t \in Txs, AddTx(t), UNCHANGED <<activeChain, activeChainIndex, utxo, feeHistory>>
      PROVE  CoinInv(height)'
  <2>1. t \notin Mined
    BY <1>2, AddedIsUnmined
  <2>2. mempool' = mempool \cup {t} /\ Mined' = Mined
    BY <1>2 DEF AddTx, Mined
  <2> QED
    BY <1>2, <2>1, <2>2 DEF CoinInv, Placed, PoolIsUnmined
<1>3. ASSUME NEW b \in Blocks, ~OnActive(b), ExtendsActive(b), PushOnActive(b)
      PROVE  CoinInv(height)'
  BY <1>3, PushCoins
<1>4. CASE OnActive(forkBlock) /\ DisconnectTip
  <2>1. CASE UNCHANGED vars
    BY <2>1 DEF CoinInv, Placed, PoolIsUnmined, Mined, ledgerVars, chainVars, vars
  <2>2. CASE ~HoldsKin(Tip)
    BY <1>4, <2>2, PopCoins
  <2> QED
    BY <1>4, <2>1, <2>2
<1>5. CASE StartsOver
  BY <1>5, StartCoins
<1> QED
  BY <1>1, <1>2, <1>3, <1>4, <1>5, LedgerMoves

\* No block that holds a transaction and one that spends it is disconnected:
\* disconnect_block does not undo such a block (run chain_child).
KinStay == [][DisconnectTip => ~HoldsKin(Tip)]_vars

LEMMA CoinsAlways ==
  ASSUME NEW height, Orderly(height)
  PROVE  Spec /\ KinStay => [](IInv /\ CoinInv(height))
<1>1. Init => IInv /\ CoinInv(height)
  BY InitIInv, StartCoins
<1>2. IInv /\ CoinInv(height) /\ [Next]_vars /\ [DisconnectTip => ~HoldsKin(Tip)]_vars
        => (IInv /\ CoinInv(height))'
  BY NextIInv, CoinStep
<1> QED
  BY <1>1, <1>2, PTL DEF Spec, KinStay

\* The map of unspent outputs is always what the active chain made and has not
\* spent, each output with the height and the coinbase mark of the transaction
\* that made it, through every reorganisation, every failed one and every
\* restart, when blocks are as the miners of this code make them and none that
\* holds a transaction and its child is disconnected.
THEOREM UtxoIsTheChains ==
  ASSUME NEW height, Orderly(height)
  PROVE  Spec /\ KinStay => []UtxoExact
<1>1. IInv /\ CoinInv(height) => UtxoExact
  <2> SUFFICES ASSUME CoinInv(height)
               PROVE  UtxoExact
    OBVIOUS
  <2>1. utxo = [p \in Unspent(Mined) |-> EntryIn(activeChain, p)]
    BY MinedIsMinedTo DEF CoinInv, CoinsOf
  <2>2. Unspent(Mined) = (UNION {OutsOf(t) : t \in Mined}) \ (UNION {Ins[t] : t \in Mined})
    BY DEF Unspent, OutsOfAll, SpentBy
  <2>3. \A p : EntryIn(activeChain, p) = EntryInActiveChain(p)
    BY DEF EntryIn, EntryInActiveChain, PlacesOf, HeightsOf, TxsAt
  <2> QED
    BY <2>1, <2>2, <2>3 DEF UtxoExact
<1> QED
  BY <1>1, CoinsAlways, PTL

\* No transaction is ever on the active chain and in the pool at once, though
\* disconnect_block puts those of a block back and connect_block takes them out.
THEOREM PoolNeverMined ==
  ASSUME NEW height, Orderly(height)
  PROVE  Spec /\ KinStay => []PoolIsUnmined
<1>1. IInv /\ CoinInv(height) => PoolIsUnmined
  BY DEF CoinInv
<1> QED
  BY <1>1, CoinsAlways, PTL

-----------------------------------------------------------------------------
(* The file.  A load that starts before any block of a peer is connected    *)
(* goes through the file from its first block, each of which is connected  *)
(* to the tip, until one is refused; so lastSaved stays 0 until the end.    *)

\* main.cpp does not see to this: the network is started before the load (run
\* chain_file).
LoadsFirst ==
  [][LoadFromDisk => activeChain = <<Genesis>> /\ sideBranches = <<>> /\ orphans = {}]_vars

\* The next block of the file to be connected, or the one that was just now:
\* the first of the frames is for the block at this place.
NextOfFile == IF at = "idle" THEN Len(activeChain) ELSE Len(activeChain) - 1

\* The blocks of the active chain are the first of the file, the frames are for
\* the others.
Restoring ==
  /\ \/ at = "idle"
     \/ at = "scan" /\ landed /\ frozen = <<>> /\ Len(frames) >= 2
  /\ frames # <<>>
  /\ NextOfFile + Len(frames) = Len(chainFile) + 2
  /\ \A i \in 2 .. Len(activeChain) : activeChain[i] = chainFile[i - 1]
  /\ \A i \in 1 .. Len(frames) - 1 :
       frames[i] = Frame("load", chainFile[NextOfFile + i - 1])
  /\ frames[Len(frames)] = LoadedFrame

LoadInv ==
  \/ \A i \in DOMAIN frames : frames[i].op \in {"receive", "mine", "orphan", "save"}
  \/ frames = <<WipeFrame>> /\ at = "idle" /\ lastSaved = 0
  \/ Restoring /\ sideBranches = <<>> /\ orphans = {} /\ lastSaved = 0

FileInv == FileMatchesChain /\ FileIsChain /\ LoadInv

\* What is saved, block by block.
LEMMA FileByBlocks ==
  ASSUME NEW c \in Seq(Blocks), NEW f \in Seq(Blocks), NEW l \in Nat, l < Len(c)
  PROVE  f = SubSeq(c, 2, l + 1) <=> Len(f) = l /\ \A i \in 1 .. l : f[i] = c[i + 1]
<1> DEFINE two == 2
           m == l + 1
           s == SubSeq(c, two, m)
<1>1. Len(c) \in Nat /\ two \in Nat \ {0} /\ m \in Int /\ m <= Len(c)
      /\ (IF two <= m THEN m - two + 1 ELSE 0) = l /\ m - two + 1 = l
      /\ \A i \in Int : two + i - 1 = i + 1
  BY LenProperties
<1> HIDE DEF two, m
<1>2. s \in Seq(Blocks) /\ Len(s) = l /\ \A i \in 1 .. l : s[i] = c[i + 1]
  <2>1. /\ s \in Seq(Blocks) /\ Len(s) = IF two <= m THEN m - two + 1 ELSE 0
        /\ \A i \in 1 .. m - two + 1 : s[i] = c[two + i - 1]
    BY <1>1, SubSeqTyped
  <2> HIDE DEF s
  <2> QED
    BY <1>1, <2>1
<1> HIDE DEF s
<1>3. f = s <=> Len(f) = l /\ \A i \in 1 .. l : f[i] = c[i + 1]
  BY <1>2, SeqEqual
<1> QED
  BY <1>3 DEF s, two, m

\* The same of the whole chain.
LEMMA WholeChain ==
  ASSUME NEW c \in Seq(Blocks), c # <<>>
  PROVE  /\ Tail(c) \in Seq(Blocks) /\ Len(Tail(c)) = Len(c) - 1
         /\ \A i \in 1 .. Len(c) - 1 : Tail(c)[i] = c[i + 1]
  BY HeadTailProperties

LEMMA SavedIsChain ==
  ASSUME IInv, FileMatchesChain
  PROVE  SavedFile = Tail(activeChain)
<1> DEFINE c == activeChain
           n == Len(c)
           l == lastSaved
           f == chainFile
           rest == SubSeq(c, l + 2, n)
<1>1. /\ c \in Seq(Blocks) /\ c # <<>> /\ n \in Nat \ {0} /\ l \in Nat /\ f \in Seq(Blocks)
  BY ActiveChain DEF IInv, TypeOK, ChainTypeOK, NodeTypeOK, ChainIndexed
<1>2. CASE l > 0 /\ l < n - 1
  <2>1. Len(f) = l /\ \A i \in 1 .. l : f[i] = c[i + 1]
    BY <1>1, <1>2, FileByBlocks DEF FileMatchesChain
  <2>2. rest \in Seq(Blocks) /\ Len(rest) = n - l - 1 /\ \A i \in 1 .. n - l - 1 : rest[i] = c[l + 1 + i]
    <3> DEFINE m == l + 2
    <3>1. m \in Nat \ {0} /\ n \in Int /\ n <= Len(c)
          /\ (IF m <= n THEN n - m + 1 ELSE 0) = n - l - 1 /\ n - m + 1 = n - l - 1
          /\ \A i \in Int : m + i - 1 = l + 1 + i
      BY <1>1, <1>2
    <3> DEFINE r == SubSeq(c, m, n)
    <3> HIDE DEF m, n
    <3>2. /\ r \in Seq(Blocks) /\ Len(r) = IF m <= n THEN n - m + 1 ELSE 0
          /\ \A i \in 1 .. n - m + 1 : r[i] = c[m + i - 1]
      BY <1>1, <3>1, SubSeqTyped
    <3> HIDE DEF r
    <3>3. r \in Seq(Blocks) /\ Len(r) = n - l - 1
      BY <3>1, <3>2
    <3>4. \A i \in 1 .. n - l - 1 : r[i] = c[l + 1 + i]
      <4> TAKE i \in 1 .. n - l - 1
      <4>1. i \in 1 .. n - m + 1 /\ i \in Int
        BY <3>1
      <4>2. r[i] = c[m + i - 1] /\ m + i - 1 = l + 1 + i
        BY <3>1, <3>2, <4>1, Zenon
      <4> QED
        BY <4>2, Zenon
    <3> QED
      BY <3>3, <3>4 DEF r, m
  <2> HIDE DEF rest, n, l, f
  <2>3. /\ f \o rest \in Seq(Blocks) /\ Len(f \o rest) = n - 1
        /\ \A i \in 1 .. n - 1 : (f \o rest)[i] = c[i + 1]
    <3>1. /\ f \o rest \in Seq(Blocks) /\ Len(f \o rest) = l + (n - l - 1)
          /\ \A i \in 1 .. l + (n - l - 1) :
               (f \o rest)[i] = IF i <= l THEN f[i] ELSE rest[i - l]
      <4>1. /\ f \o rest \in Seq(Blocks) /\ Len(f \o rest) = Len(f) + Len(rest)
            /\ \A i \in 1 .. Len(f) + Len(rest) :
                 (f \o rest)[i] = IF i <= Len(f) THEN f[i] ELSE rest[i - Len(f)]
        BY <1>1, <2>2, ConcatProperties
      <4>2. Len(f) = l /\ Len(rest) = n - l - 1
        BY <2>1, <2>2
      <4> QED
        BY <4>1, <4>2
    <3>2. \A i \in 1 .. n - 1 : \/ i \in 1 .. l
                                \/ i - l \in 1 .. n - l - 1 /\ ~(i <= l) /\ l + 1 + (i - l) = i + 1
      BY <1>1, <1>2
    <3>3. l + (n - l - 1) = n - 1
      BY <1>1
    <3>4. \A i \in 1 .. l : i <= l
      BY <1>1
    <3> QED
      BY <2>1, <2>2, <3>1, <3>2, <3>3, <3>4, SMTT(40)
  <2>4. SavedFile = f \o rest
    BY <1>2 DEF SavedFile, rest, n, l, f
  <2> HIDE DEF c
  <2>5. f \o rest = Tail(c)
    BY <1>1, <2>3, WholeChain, SeqEqual, SMTT(40) DEF n
  <2> QED
    BY <2>4, <2>5 DEF c
<1>3. CASE ~(l > 0 /\ l < n - 1)
  BY <1>3 DEF SavedFile
<1> QED
  BY <1>2, <1>3

\* What is known of the frames.
LEMMA FrameFacts ==
  ASSUME IInv
  PROVE  /\ frames \in Seq(Frames) /\ Len(frames) \in Nat /\ DOMAIN frames = 1 .. Len(frames)
         /\ frames # <<>> =>
              /\ Len(frames) >= 1 /\ Head(frames) = frames[1] /\ 1 \in DOMAIN frames
              /\ Tail(frames) \in Seq(Frames) /\ Len(Tail(frames)) = Len(frames) - 1
              /\ DOMAIN Tail(frames) = 1 .. Len(frames) - 1
              /\ \A i \in 1 .. Len(frames) - 1 :
                   Tail(frames)[i] = frames[i + 1] /\ i + 1 \in DOMAIN frames
<1>1. /\ frames \in Seq(Frames) /\ Len(frames) \in Nat /\ DOMAIN frames = 1 .. Len(frames)
  BY LenProperties DEF IInv, TypeOK, CallTypeOK, Frames
<1>2. ASSUME frames # <<>>
      PROVE  /\ Len(frames) >= 1 /\ Head(frames) = frames[1] /\ 1 \in DOMAIN frames
             /\ Tail(frames) \in Seq(Frames) /\ Len(Tail(frames)) = Len(frames) - 1
             /\ \A i \in 1 .. Len(frames) - 1 :
                  Tail(frames)[i] = frames[i + 1] /\ i + 1 \in DOMAIN frames
  <2>1. Len(frames) >= 1
    BY <1>1, <1>2, EmptySeq
  <2>2. /\ Tail(frames) \in Seq(Frames) /\ Len(Tail(frames)) = Len(frames) - 1
        /\ \A i \in 1 .. Len(Tail(frames)) : Tail(frames)[i] = frames[i + 1]
    BY <1>1, <1>2, HeadTailProperties
  <2>3. Head(frames) = frames[1]
    OBVIOUS
  <2> QED
    BY <1>1, <2>1, <2>2, <2>3
<1> QED
  BY <1>1, <1>2, LenProperties

Ours == {"receive", "mine", "orphan", "save"}

\* Which of the three cases of LoadInv a frame belongs to.
LEMMA CallOfLoad ==
  ASSUME IInv, LoadInv, frames # <<>>
  PROVE  \/ \A i \in DOMAIN frames : frames[i].op \in Ours
         \/ Head(frames).op = "wipe" /\ frames = <<WipeFrame>> /\ lastSaved = 0
         \/ Head(frames).op = "loaded" /\ Restoring /\ Len(frames) = 1 /\ lastSaved = 0
         \/ /\ Head(frames) = Frame("load", chainFile[NextOfFile]) /\ Restoring
            /\ Len(frames) >= 2 /\ lastSaved = 0 /\ sideBranches = <<>> /\ orphans = {}
<1>1. Len(frames) \in Nat /\ Len(frames) >= 1 /\ Head(frames) = frames[1]
  BY FrameFacts
<1>2. CASE frames = <<WipeFrame>> /\ lastSaved = 0
  BY <1>2 DEF WipeFrame, Frame
<1>3. CASE Restoring /\ sideBranches = <<>> /\ orphans = {} /\ lastSaved = 0
  <2>1. CASE Len(frames) = 1
    BY <1>1, <1>3, <2>1 DEF Restoring, LoadedFrame, Frame
  <2>2. CASE Len(frames) >= 2
    <3>1. 1 \in 1 .. Len(frames) - 1 /\ NextOfFile \in Int
      BY <1>1, <2>2, ActiveChain DEF NextOfFile
    <3>2. frames[1] = Frame("load", chainFile[NextOfFile + 1 - 1])
      BY <1>3, <3>1 DEF Restoring
    <3>3. NextOfFile + 1 - 1 = NextOfFile
      BY <3>1
    <3> QED
      BY <1>1, <1>3, <2>2, <3>2, <3>3
  <2> QED
    BY <1>1, <2>1, <2>2
<1>4. CASE \A i \in DOMAIN frames : frames[i].op \in Ours
  BY <1>4
<1> QED
  BY <1>2, <1>3, <1>4 DEF LoadInv, Ours

\* A step that changes neither the file nor the chain keeps what is said of both.
LEMMA FileUnchanged ==
  ASSUME FileInv, UNCHANGED <<activeChain, chainFile, lastSaved>>
  PROVE  FileMatchesChain' /\ FileIsChain'
  BY DEF FileInv, FileMatchesChain, FileIsChain

\* The chain grows beyond what is saved of it.
LEMMA FileBehindChain ==
  ASSUME IInv, FileInv, NEW b \in Blocks, activeChain' = Append(activeChain, b),
         UNCHANGED <<chainFile, lastSaved>>
  PROVE  FileMatchesChain' /\ FileIsChain'
<1> DEFINE c == activeChain
           e == Append(c, b)
           l == lastSaved
<1>1. /\ c \in Seq(Blocks) /\ c # <<>> /\ l \in Nat /\ chainFile \in Seq(Blocks)
      /\ Len(c) \in Nat
  BY ActiveChain DEF IInv, TypeOK, ChainTypeOK, NodeTypeOK, ChainIndexed
<1>2. e \in Seq(Blocks) /\ Len(e) = Len(c) + 1 /\ \A i \in 1 .. Len(c) : e[i] = c[i]
  BY <1>1, AppendProperties
<1> HIDE DEF e
<1>3. ASSUME l > 0
      PROVE  l < Len(e) /\ chainFile = SubSeq(e, 2, l + 1)
  <2>1. l < Len(c) /\ chainFile = SubSeq(c, 2, l + 1)
    BY <1>3 DEF FileInv, FileMatchesChain
  <2>2. Len(chainFile) = l /\ \A i \in 1 .. l : chainFile[i] = c[i + 1]
    BY <1>1, <2>1, FileByBlocks
  <2>3. \A i \in 1 .. l : i + 1 \in 1 .. Len(c)
    BY <1>1, <2>1
  <2>4. l < Len(e)
    BY <1>1, <1>2, <2>1
  <2>5. \A i \in 1 .. l : chainFile[i] = e[i + 1]
    BY <1>2, <2>2, <2>3
  <2> QED
    BY <1>1, <1>2, <2>2, <2>4, <2>5, FileByBlocks
<1>4. FileMatchesChain'
  BY <1>3 DEF FileMatchesChain, e
<1> QED
  BY <1>4 DEF FileInv, FileIsChain

\* After save_to_disk the file holds the whole chain.
LEMMA FileSaved ==
  ASSUME IInv, FileInv, WriteFile
  PROVE  FileMatchesChain' /\ FileIsChain'
<1> DEFINE c == activeChain
           l == Len(c) - 1
<1>1. c \in Seq(Blocks) /\ c # <<>> /\ Len(c) \in Nat \ {0} /\ l \in Nat
  BY ActiveChain DEF IInv, TypeOK, ChainTypeOK, ChainIndexed
<1>2. lastSaved' = l /\ chainFile' = Tail(c) /\ activeChain' = c
  BY SavedIsChain DEF FileInv, WriteFile, chainVars
<1>3. /\ Tail(c) \in Seq(Blocks) /\ Len(Tail(c)) = l /\ DOMAIN Tail(c) = 1 .. l
      /\ \A i \in 1 .. l : Tail(c)[i] = c[i + 1]
  BY <1>1, WholeChain, LenProperties
<1>4. l < Len(c)
  BY <1>1
<1>5. Tail(c) = SubSeq(c, 2, l + 1)
  <2> HIDE DEF l
  <2> QED
    BY <1>1, <1>3, <1>4, FileByBlocks
<1>6. FileMatchesChain'
  BY <1>2, <1>4, <1>5 DEF FileMatchesChain
<1>7. ASSUME NEW i \in 1 .. l
      PROVE  Parent[Tail(c)[i]] = IF i = 1 THEN Genesis ELSE Tail(c)[i - 1]
  <2>1. i + 1 \in 2 .. Len(c) /\ (i + 1) - 1 = i
    BY <1>1
  <2>2. Parent[c[i + 1]] = c[i] /\ c[1] = Genesis
    BY <2>1 DEF IInv, ChainIndexed
  <2>3. i # 1 => i - 1 \in 1 .. l /\ (i - 1) + 1 = i
    BY <1>1
  <2> HIDE DEF c, l
  <2>4. i # 1 => Tail(c)[i - 1] = c[i]
    BY <1>3, <2>3
  <2> QED
    BY <1>3, <2>2, <2>4
<1>8. FileIsChain'
  BY <1>2, <1>3, <1>7 DEF FileIsChain
<1> QED
  BY <1>6, <1>8

\* While no load runs, calls leave only calls of their own.
OwnFrames == \A i \in DOMAIN frames : frames[i].op \in Ours

LEMMA OwnFramesShrink ==
  ASSUME IInv, OwnFrames, frames' = Tail(frames), frames # <<>>
  PROVE  OwnFrames'
  BY FrameFacts DEF OwnFrames

LEMMA OwnFramesReturn ==
  ASSUME IInv, OwnFrames, frames # <<>>, NEW reorganised, ReturnConnected(reorganised)
  PROVE  OwnFrames'
<1> DEFINE rest == CallerGoesOn
<1>1. PICK candidates \in SetToSeqs(Waiting(Head(frames).block)) :
        frames' = [i \in DOMAIN candidates |-> Frame("orphan", candidates[i])] \o rest
  BY DEF ReturnConnected
<1> DEFINE first == [i \in DOMAIN candidates |-> Frame("orphan", candidates[i])]
<1>2. candidates \in Seq(Blocks)
  <2>1. /\ Waiting(Head(frames).block) \subseteq Blocks
        /\ Cardinality(Waiting(Head(frames).block)) \in Nat
    BY WaitingTyped, FS_CardinalityType
  <2>2. candidates \in [1 .. Cardinality(Waiting(Head(frames).block)) -> Blocks]
    BY <2>1 DEF SetToSeqs
  <2> QED
    BY <2>1, <2>2, SeqDef
<1>3. first \in Seq(Frames) /\ \A i \in DOMAIN first : first[i].op \in Ours
  BY <1>2, FramesOfBlocks DEF Ops, Frame, Ours
<1>4. Head(frames).op \in Ours
  BY FrameFacts DEF OwnFrames
<1>5. rest \in Seq(Frames) /\ \A i \in DOMAIN rest : rest[i].op \in Ours
  <2>1. CASE Head(frames).op = "orphan"
    <3>1. rest = <<SaveFrame>> \o Tail(frames)
      BY <2>1 DEF CallerGoesOn
    <3>2. /\ <<SaveFrame>> \in Seq(Frames) /\ Len(<<SaveFrame>>) = 1
          /\ <<SaveFrame>>[1].op = "save"
      BY OwnFramesTyped DEF SaveFrame, Frame
    <3>3. Tail(frames) \in Seq(Frames) /\ Len(Tail(frames)) \in Nat
          /\ \A i \in 1 .. Len(Tail(frames)) : Tail(frames)[i].op \in Ours
      BY FrameFacts DEF OwnFrames
    <3> DEFINE one == <<SaveFrame>>
               t == Tail(frames)
    <3> HIDE DEF one, t
    <3>4. /\ one \o t \in Seq(Frames) /\ Len(one \o t) = 1 + Len(t)
          /\ \A i \in 1 .. 1 + Len(t) : (one \o t)[i] = IF i <= 1 THEN one[i] ELSE t[i - 1]
      BY <3>2, <3>3, ConcatProperties DEF one, t
    <3>5. DOMAIN (one \o t) = 1 .. 1 + Len(t)
      BY <3>4, LenProperties
    <3>6. \A i \in 1 .. 1 + Len(t) : \/ i = 1 /\ i <= 1
                                     \/ ~(i <= 1) /\ i - 1 \in 1 .. Len(t)
      BY <3>3 DEF t
    <3> QED
      BY <3>1, <3>2, <3>3, <3>4, <3>5, <3>6 DEF one, t, Ours
  <2>2. CASE Head(frames).op # "orphan"
    <3>1. rest = Tail(frames)
      BY <1>4, <2>2 DEF CallerGoesOn, Ours
    <3> QED
      BY <3>1, FrameFacts DEF OwnFrames
  <2> QED
    BY <2>1, <2>2
<1> HIDE DEF first, rest
<1>6. /\ first \o rest \in Seq(Frames)
      /\ \A i \in 1 .. Len(first) + Len(rest) :
           (first \o rest)[i] = IF i <= Len(first) THEN first[i] ELSE rest[i - Len(first)]
      /\ DOMAIN (first \o rest) = 1 .. Len(first) + Len(rest)
      /\ Len(first) \in Nat /\ Len(rest) \in Nat
      /\ DOMAIN first = 1 .. Len(first) /\ DOMAIN rest = 1 .. Len(rest)
  BY <1>3, <1>5, ConcatProperties, LenProperties
<1>7. \A i \in 1 .. Len(first) + Len(rest) :
        \/ i <= Len(first) /\ i \in 1 .. Len(first)
        \/ ~(i <= Len(first)) /\ i - Len(first) \in 1 .. Len(rest)
  BY <1>6
<1> QED
  BY <1>1, <1>3, <1>5, <1>6, <1>7 DEF OwnFrames, first

\* connect_block, called by load_from_disk or not.
LEMMA ConnectKeepsFile ==
  ASSUME IInv, FileInv, NEW b \in Blocks,
         \/ IgnoreSeen(b) \/ RejectBlock(b) \/ StoreOrphan(b)
         \/ ConnectToActive(b) \/ ConnectAside(b)
  PROVE  FileInv'
<1>1. /\ Connecting(b) /\ at = "idle" /\ frames # <<>> /\ Head(frames).block = b
      /\ Head(frames).op \in {"receive", "mine", "orphan", "load"}
  BY DEF IgnoreSeen, RejectBlock, StoreOrphan, ConnectToActive, ConnectAside, Connecting,
         NextCallIs
<1>2. \/ OwnFrames
      \/ /\ Head(frames) = Frame("load", chainFile[Len(activeChain)]) /\ Restoring
         /\ Len(frames) >= 2 /\ lastSaved = 0 /\ sideBranches = <<>> /\ orphans = {}
  BY <1>1, CallOfLoad DEF FileInv, NextOfFile, OwnFrames
<1>3. Len(frames) \in Nat /\ Len(activeChain) \in Nat \ {0} /\ chainFile \in Seq(Blocks)
  BY FrameFacts, ActiveChain DEF IInv, TypeOK, NodeTypeOK
<1>4. UNCHANGED <<chainFile, lastSaved>>
  BY DEF IgnoreSeen, RejectBlock, StoreOrphan, ConnectToActive, ConnectAside, diskVars,
         fileVars
<1>5. CASE IgnoreSeen(b) \/ RejectBlock(b) \/ StoreOrphan(b)
  <2>1. ReturnFailure /\ UNCHANGED <<activeChain, at>>
    BY <1>5 DEF IgnoreSeen, RejectBlock, StoreOrphan, NothingConnected, KeepOrphan, chainVars
  <2>2. CASE OwnFrames
    <3>1. Head(frames).op # "load"
      BY <1>1, <2>2, FrameFacts DEF OwnFrames, Ours
    <3>2. OwnFrames'
      BY <1>1, <2>1, <2>2, <3>1, OwnFramesShrink DEF ReturnFailure
    <3> QED
      BY <1>4, <2>1, <3>2, FileUnchanged DEF FileInv, LoadInv, OwnFrames, Ours
  <2>3. CASE Head(frames).op = "load" /\ lastSaved = 0
    BY <1>1, <1>4, <2>1, <2>3, FileUnchanged DEF FileInv, LoadInv, ReturnFailure
  <2> QED
    BY <1>2, <2>2, <2>3 DEF Frame
<1>6. CASE ConnectToActive(b)
  <2>1. /\ activeChain' = Append(activeChain, b) /\ UNCHANGED <<frames, sideBranches, orphans>>
        /\ at' = "scan" /\ landed' /\ frozen' = sideBranches
    BY <1>6 DEF ConnectToActive, PushOnActive, StartScan
  <2>2. FileMatchesChain' /\ FileIsChain'
    BY <1>4, <2>1, FileBehindChain
  <2>3. CASE OwnFrames
    BY <2>1, <2>2, <2>3 DEF FileInv, LoadInv, OwnFrames, Ours
  <2>4. CASE /\ Head(frames) = Frame("load", chainFile[Len(activeChain)]) /\ Restoring
             /\ Len(frames) >= 2 /\ lastSaved = 0 /\ sideBranches = <<>> /\ orphans = {}
    <3> DEFINE n == Len(activeChain)
    <3>1. b = chainFile[n]
      BY <1>1, <2>4 DEF Frame
    <3>2. Len(activeChain') = n + 1 /\ activeChain'[n + 1] = b
          /\ \A i \in 1 .. n : activeChain'[i] = activeChain[i]
      BY <2>1, AppendProperties DEF IInv, TypeOK, ChainTypeOK
    <3>3. NextOfFile = n /\ NextOfFile' = n
      BY <1>1, <1>3, <2>1, <3>2 DEF NextOfFile
    <3>4. \A i \in 2 .. n + 1 : activeChain'[i] = chainFile[i - 1]
      <4>1. \A i \in 2 .. n : activeChain[i] = chainFile[i - 1] /\ i \in 1 .. n
        BY <1>3, <2>4 DEF Restoring
      <4>2. \A i \in 2 .. n + 1 : \/ i \in 2 .. n
                                  \/ i = n + 1 /\ i - 1 = n
        BY <1>3
      <4> HIDE DEF n
      <4> QED
        BY <3>1, <3>2, <4>1, <4>2
    <3>5. Restoring'
      <4>1. /\ n + Len(frames) = Len(chainFile) + 2
            /\ \A i \in 1 .. Len(frames) - 1 : frames[i] = Frame("load", chainFile[n + i - 1])
            /\ frames[Len(frames)] = LoadedFrame
        BY <2>4, <3>3 DEF Restoring
      <4> HIDE DEF n
      <4> QED
        BY <1>1, <1>4, <2>1, <2>4, <3>2, <3>3, <3>4, <4>1 DEF Restoring
    <3> QED
      BY <1>4, <2>1, <2>2, <2>4, <3>5 DEF FileInv, LoadInv
  <2> QED
    BY <1>2, <2>3, <2>4
<1>7. CASE ConnectAside(b)
  <2>1. UNCHANGED <<activeChain, frames>> /\ PushAside(b)
    BY <1>7 DEF ConnectAside, PushAside, PushOnBranch, PushOnNewBranch, StartScan
  <2>2. CASE OwnFrames
    BY <1>4, <2>1, <2>2, FileUnchanged DEF FileInv, LoadInv, OwnFrames, Ours
  <2>3. CASE /\ Head(frames) = Frame("load", chainFile[Len(activeChain)]) /\ Restoring
             /\ sideBranches = <<>> /\ Len(frames) >= 2
    <3> DEFINE n == Len(activeChain)
    <3>1. b = chainFile[n]
      BY <1>1, <2>3 DEF Frame
    <3>2. n \in DOMAIN chainFile
      <4>1. n + Len(frames) = Len(chainFile) + 2
        BY <1>1, <2>3 DEF Restoring, NextOfFile
      <4>2. Len(chainFile) \in Nat /\ DOMAIN chainFile = 1 .. Len(chainFile)
        BY <1>3, LenProperties
      <4> QED
        BY <1>3, <2>3, <4>1, <4>2
    <3>3. Parent[b] = IF n = 1 THEN Genesis ELSE chainFile[n - 1]
      BY <3>1, <3>2 DEF FileInv, FileIsChain
    <3>4. Parent[b] = Tip
      <4>1. CASE n = 1
        BY <3>3, <4>1 DEF Tip, IInv, ChainIndexed
      <4>2. CASE n # 1
        <5>1. n \in 2 .. n
          <6>1. n \in Nat \ {0}
            BY <1>3
          <6> HIDE DEF n
          <6> QED
            BY <4>2, <6>1
        <5> QED
          BY <2>3, <3>3, <4>2, <5>1 DEF Tip, Restoring
      <4> QED
        BY <4>1, <4>2
    <3>5. OnActive(Tip)
      BY ActiveChain
    <3>6. FALSE
      BY <2>1, <2>3, <3>4, <3>5 DEF PushAside, ExtendsBranch, OpensBranch
    <3> QED
      BY <3>6
  <2> QED
    BY <1>2, <2>2, <2>3
<1> QED
  BY <1>5, <1>6, <1>7

\* The loops of a reorganisation do not run while the file is read.
LEMMA ReorgKeepsFile ==
  ASSUME IInv, FileInv, Reorg
  PROVE  FileInv'
<1>1. at # "idle" /\ frames # <<>>
  BY DEF Reorg, SkipBranch, StartReorg, ReadOutOfBounds, Scanning, ScanDone, DisconnectTip,
         ForkReached, ExtendReorg, AbandonReorg, Extending, CommitReorg, RestoreOld,
         RollbackDone, IInv, LoopsInBounds
<1>2. CASE OwnFrames
  <2>1. OwnFrames'
    <3>1. CASE ScanDone
      BY <1>1, <1>2, <3>1, OwnFramesReturn DEF ScanDone
    <3>2. CASE CommitReorg
      BY <1>1, <1>2, <3>2, OwnFramesReturn DEF CommitReorg
    <3>3. CASE ~ScanDone /\ ~CommitReorg
      <4>1. UNCHANGED frames
        BY <3>3 DEF Reorg, SkipBranch, StartReorg, ReadOutOfBounds, DisconnectTip, ForkReached,
               ExtendReorg, AbandonReorg, RestoreOld, RollbackDone, callVars
      <4> QED
        BY <1>2, <4>1 DEF OwnFrames
    <3> QED
      BY <3>1, <3>2, <3>3
  <2>2. FileMatchesChain' /\ FileIsChain'
    <3>1. CASE \/ SkipBranch \/ StartReorg \/ ReadOutOfBounds \/ ScanDone \/ ForkReached
               \/ CommitReorg \/ RollbackDone
      BY <3>1, FileUnchanged
         DEF SkipBranch, StartReorg, ReadOutOfBounds, ScanDone, ForkReached, CommitReorg,
             RollbackDone, diskVars, fileVars, chainVars
    <3>2. CASE DisconnectTip
      BY <3>2 DEF DisconnectTip, PopTip, ForgetSaved, FileInv, FileMatchesChain, FileIsChain
    <3>3. CASE ExtendReorg \/ AbandonReorg \/ RestoreOld
      <4>1. PICK b \in Blocks : ConnectInReorg(b) \/ FailInReorg(b)
        BY <3>3, LoopBlocks DEF ExtendReorg, AbandonReorg, RestoreOld, Extending
      <4>2. UNCHANGED <<chainFile, lastSaved>>
        BY <3>3 DEF ExtendReorg, AbandonReorg, RestoreOld, diskVars, fileVars
      <4>3. CASE ConnectInReorg(b)
        BY <4>2, <4>3, FileBehindChain DEF ConnectInReorg, PushOnActive
      <4>4. CASE FailInReorg(b)
        BY <4>2, <4>4, FileUnchanged
           DEF FailInReorg, NothingConnected, KeepOrphan, PushAside, PushOnBranch,
               PushOnNewBranch, chainVars
      <4> QED
        BY <4>1, <4>3, <4>4
    <3> QED
      BY <3>1, <3>2, <3>3 DEF Reorg
  <2> QED
    BY <2>1, <2>2 DEF FileInv, LoadInv, OwnFrames, Ours
<1>3. CASE ~OwnFrames
  <2>1. Restoring /\ sideBranches = <<>> /\ orphans = {} /\ lastSaved = 0
    BY <1>1, <1>3 DEF FileInv, LoadInv, OwnFrames, Ours
  <2>2. at = "scan" /\ landed /\ frozen = <<>> /\ Len(frames) >= 2
    BY <1>1, <2>1 DEF Restoring
  <2>3. branch \in Nat /\ branch >= 1 /\ Len(frozen) = 0
    BY <2>2, EmptySeq DEF IInv, LoopsInBounds, TypeOK, CallTypeOK
  <2>4. ~Scanning
    BY <2>3 DEF Scanning
  <2>5. ScanDone
    BY <2>2, <2>4 DEF Reorg, SkipBranch, StartReorg, ReadOutOfBounds, DisconnectTip, ForkReached,
                ExtendReorg, AbandonReorg, Extending, CommitReorg, RestoreOld, RollbackDone
  <2>6. UNCHANGED <<activeChain, chainFile, lastSaved, sideBranches>>
    BY <2>5 DEF ScanDone, chainVars, fileVars
  <2>7. FileMatchesChain' /\ FileIsChain'
    BY <2>6, FileUnchanged
  <2>8. Head(frames).op = "load"
    <3>1. Len(<<WipeFrame>>) = 1 /\ Frame("load", chainFile[NextOfFile]).op = "load"
      BY DEF Frame
    <3>2. Len(frames) # 1
      BY <2>2, FrameFacts
    <3>3. frames # <<WipeFrame>>
      BY <3>1, <3>2
    <3> QED
      BY <1>1, <1>3, <3>1, <3>2, <3>3, CallOfLoad DEF FileInv, OwnFrames
  <2>9. frames' = Tail(frames) /\ orphans' = {} /\ at' = "idle"
    <3>1. Waiting(Head(frames).block) = {}
      BY <2>1 DEF Waiting
    <3>2. CallerGoesOn = Tail(frames)
      BY <2>2, <2>8 DEF CallerGoesOn
    <3>3. PICK candidates \in SetToSeqs({}) :
            frames' = [i \in DOMAIN candidates |-> Frame("orphan", candidates[i])] \o Tail(frames)
      BY <2>5, <3>1, <3>2 DEF ScanDone, ReturnConnected
    <3>4. DOMAIN candidates = {}
      BY <3>3, FS_EmptySet DEF SetToSeqs
    <3>5. [i \in DOMAIN candidates |-> Frame("orphan", candidates[i])] = <<>>
      BY <3>4
    <3>6. Tail(frames) \in Seq(Frames)
      BY <1>1, FrameFacts
    <3>7. <<>> \o Tail(frames) = Tail(frames)
      BY <3>6, ConcatEmptySeq
    <3> QED
      BY <2>1, <2>5, <3>3, <3>5, <3>7 DEF ScanDone, ReturnConnected
  <2>10. Restoring'
    <3> DEFINE n == Len(activeChain)
               m == Len(frames)
    <3>1. /\ n \in Nat \ {0} /\ m \in Nat /\ m >= 2
          /\ Len(Tail(frames)) = m - 1
          /\ \A i \in 1 .. m - 1 : Tail(frames)[i] = frames[i + 1]
      BY <1>1, <2>2, FrameFacts, ActiveChain
    <3>2. NextOfFile = n - 1 /\ NextOfFile' = n
      BY <2>2, <2>6, <2>9 DEF NextOfFile
    <3>3. /\ (n - 1) + m = Len(chainFile) + 2
          /\ \A i \in 1 .. m - 1 : frames[i] = Frame("load", chainFile[(n - 1) + i - 1])
          /\ frames[m] = LoadedFrame
          /\ \A i \in 2 .. n : activeChain[i] = chainFile[i - 1]
      BY <2>1, <3>2 DEF Restoring
    <3> HIDE DEF n, m
    <3>10. Len(Tail(frames)) # 0
      BY <3>1, SMTT(40)
    <3>4. Tail(frames) # <<>>
      BY <3>10, EmptySeq
    <3>5. n + (m - 1) = (n - 1) + m
      BY <3>1
    <3>6. \A i \in 1 .. (m - 1) - 1 : /\ i \in 1 .. m - 1 /\ i + 1 \in 1 .. m - 1
                                      /\ (n - 1) + (i + 1) - 1 = n + i - 1
      BY <3>1
    <3>7. \A i \in 1 .. (m - 1) - 1 : Tail(frames)[i] = Frame("load", chainFile[n + i - 1])
      BY <3>1, <3>3, <3>6
    <3>8. m - 1 \in 1 .. m - 1 /\ (m - 1) + 1 = m
      BY <3>1
    <3>9. Tail(frames)[m - 1] = LoadedFrame
      BY <3>1, <3>3, <3>8
    <3> QED
      BY <2>6, <2>9, <3>1, <3>2, <3>3, <3>4, <3>5, <3>7, <3>9 DEF Restoring, n
  <2> QED
    BY <2>1, <2>6, <2>7, <2>9, <2>10 DEF FileInv, LoadInv
<1> QED
  BY <1>2, <1>3

LEMMA DiskKeepsFile ==
  ASSUME IInv, FileInv, SaveToDisk \/ FinishLoad \/ FailLoad
  PROVE  FileInv'
<1>1. CASE SaveToDisk
  <2>1. FileMatchesChain' /\ FileIsChain'
    BY <1>1, FileSaved DEF SaveToDisk
  <2>2. CASE Quiet /\ UNCHANGED frames
    BY <2>1, <2>2 DEF Quiet, FileInv, LoadInv
  <2>3. CASE NextCallIs("save") /\ frames' = Tail(frames)
    <3>1. frames # <<>> /\ Head(frames).op = "save"
      BY <2>3 DEF NextCallIs
    <3>2. OwnFrames
      BY <3>1, CallOfLoad DEF FileInv, OwnFrames, Frame
    <3>3. OwnFrames'
      BY <2>3, <3>1, <3>2, OwnFramesShrink
    <3> QED
      BY <2>1, <3>3 DEF FileInv, LoadInv, OwnFrames, Ours
  <2> QED
    BY <1>1, <2>2, <2>3 DEF SaveToDisk
<1>2. CASE FinishLoad
  <2>1. frames # <<>> /\ Head(frames).op = "loaded" /\ at = "idle" /\ frames' = Tail(frames)
    BY <1>2 DEF FinishLoad, NextCallIs
  <2>2. ~OwnFrames
    BY <2>1, FrameFacts DEF OwnFrames, Ours
  <2>3. Restoring /\ Len(frames) = 1
    BY <2>1, <2>2, CallOfLoad DEF FileInv, OwnFrames, Frame
  <2> DEFINE c == activeChain
             l == Len(c) - 1
  <2>4. /\ c \in Seq(Blocks) /\ Len(c) \in Nat \ {0} /\ l \in Nat /\ l < Len(c)
        /\ chainFile \in Seq(Blocks) /\ Len(chainFile) \in Nat
    BY ActiveChain, LenProperties DEF IInv, TypeOK, ChainTypeOK, NodeTypeOK
  <2>5. Len(chainFile) = l
    BY <2>1, <2>3, <2>4 DEF Restoring, NextOfFile
  <2>6. ASSUME NEW i \in 1 .. l
        PROVE  chainFile[i] = c[i + 1]
    <3>1. i + 1 \in 2 .. Len(c) /\ (i + 1) - 1 = i
      BY <2>4
    <3> QED
      BY <2>3, <3>1 DEF Restoring
  <2>7. chainFile = SubSeq(c, 2, l + 1)
    <3> HIDE DEF l
    <3> QED
      BY <2>4, <2>5, <2>6, FileByBlocks
  <2>8. lastSaved' = l /\ UNCHANGED <<activeChain, chainFile>>
    BY <1>2 DEF FinishLoad, chainVars
  <2>9. FileMatchesChain'
    BY <2>4, <2>7, <2>8 DEF FileMatchesChain
  <2>10. FileIsChain'
    BY <2>8 DEF FileInv, FileIsChain
  <2>11. DOMAIN frames' = {}
    BY <2>1, <2>3, FrameFacts
  <2> QED
    BY <2>9, <2>10, <2>11 DEF FileInv, LoadInv
<1>3. CASE FailLoad
  <2>1. frames # <<>> /\ Head(frames).op = "wipe" /\ frames' = <<>>
    BY <1>3 DEF FailLoad, NextCallIs
  <2>2. ~OwnFrames
    BY <2>1, FrameFacts DEF OwnFrames, Ours
  <2>3. lastSaved = 0
    BY <2>1, <2>2, CallOfLoad DEF FileInv, OwnFrames, Frame
  <2>4. UNCHANGED <<chainFile, lastSaved>>
    BY <1>3 DEF FailLoad, diskVars, fileVars
  <2> QED
    BY <2>1, <2>3, <2>4 DEF FileInv, LoadInv, FileMatchesChain, FileIsChain
<1> QED
  BY <1>1, <1>2, <1>3

LEMMA EnvironmentKeepsFile ==
  ASSUME IInv, FileInv, Environment,
         LoadFromDisk => activeChain = <<Genesis>> /\ sideBranches = <<>> /\ orphans = {}
  PROVE  FileInv'
<1>1. ASSUME NEW b \in Blocks, ReceiveBlock(b) \/ ConnectMined(b)
      PROVE  FileInv'
  <2>1. /\ frames' = <<Frame("receive", b)>> \/ frames' = <<Frame("mine", b)>>
        /\ UNCHANGED <<activeChain, chainFile, lastSaved>>
    BY <1>1 DEF ReceiveBlock, ConnectMined, chainVars, diskVars, fileVars
  <2>2. \A i \in DOMAIN frames' : frames'[i].op \in {"receive", "mine", "orphan", "save"}
    BY <2>1 DEF Frame
  <2> QED
    BY <2>1, <2>2, FileUnchanged DEF FileInv, LoadInv
<1>2. ASSUME NEW t \in Txs, AddTx(t)
      PROVE  FileInv'
  BY <1>2, FileUnchanged
     DEF AddTx, Quiet, chainVars, diskVars, fileVars, callVars, FileInv, LoadInv
<1>3. CASE StartMining
  <2>1. UNCHANGED <<activeChain, chainFile, lastSaved, frames, at, landed, frozen,
                    sideBranches, orphans>>
    BY <1>3 DEF StartMining, chainVars, diskVars, fileVars, callVars, reorgVars
  <2> QED
    BY <2>1, FileUnchanged DEF FileInv, LoadInv, Restoring, NextOfFile
<1>4. CASE Tick
  BY <1>4, FileUnchanged
     DEF Tick, Quiet, chainVars, diskVars, fileVars, callVars, FileInv, LoadInv
<1>5. CASE Restart
  BY <1>5 DEF Restart, FileInv, LoadInv, FileMatchesChain, FileIsChain
<1>6. CASE LoadFromDisk
  <2>1. /\ UNCHANGED <<activeChain, chainFile, lastSaved, at, sideBranches, orphans>>
        /\ activeChain = <<Genesis>> /\ sideBranches = <<>> /\ orphans = {} /\ at = "idle"
    BY <1>6 DEF LoadFromDisk, Quiet, chainVars
  <2>2. FileMatchesChain' /\ FileIsChain'
    BY <2>1, FileUnchanged
  <2>3. chainFile \in Seq(Blocks) /\ lastSaved \in Nat /\ Len(activeChain) = 1
    BY <2>1 DEF IInv, TypeOK, NodeTypeOK
  <2>4. lastSaved = 0
    BY <2>3 DEF FileInv, FileMatchesChain
  <2>5. CASE chainFile = <<>>
    <3>1. frames' = <<>>
      BY <1>6, <2>5 DEF LoadFromDisk
    <3> QED
      BY <2>2, <3>1 DEF FileInv, LoadInv
  <2>6. CASE chainFile # <<>>
    <3> DEFINE loads == [i \in DOMAIN chainFile |-> Frame("load", chainFile[i])]
               last == <<LoadedFrame>>
               m == Len(chainFile)
    <3>1. frames' = loads \o last
      BY <1>6, <2>6 DEF LoadFromDisk
    <3>2. m \in Nat /\ DOMAIN chainFile = 1 .. m /\ loads \in Seq(Frames) /\ DOMAIN loads = 1 .. m
      BY <2>3, LenProperties, FramesOfBlocks DEF Ops
    <3>3. last \in Seq(Frames) /\ Len(last) = 1 /\ last[1] = LoadedFrame
      BY OwnFramesTyped
    <3>4. Len(loads) = m /\ \A i \in 1 .. m : loads[i] = Frame("load", chainFile[i])
      BY <3>2, LenProperties
    <3> HIDE DEF loads, last, m
    <3>5. /\ frames' \in Seq(Frames) /\ Len(frames') = m + 1
          /\ \A i \in 1 .. m + 1 : frames'[i] = IF i <= m THEN loads[i] ELSE last[i - m]
      <4>1. /\ loads \o last \in Seq(Frames) /\ Len(loads \o last) = Len(loads) + Len(last)
            /\ \A i \in 1 .. Len(loads) + Len(last) :
                 (loads \o last)[i] = IF i <= Len(loads) THEN loads[i] ELSE last[i - Len(loads)]
        BY <3>2, <3>3, ConcatProperties
      <4> QED
        BY <3>1, <3>3, <3>4, <4>1
    <3>6. /\ (m + 1) - 1 = m /\ 1 + (m + 1) = m + 2 /\ (m + 1) - m = 1 /\ ~(m + 1 <= m)
          /\ m + 1 \in 1 .. m + 1 /\ m + 1 # 0
          /\ \A i \in 1 .. m : i \in 1 .. m + 1 /\ i <= m /\ 1 + i - 1 = i
      BY <3>2
    <3>7. /\ \A i \in 1 .. m : frames'[i] = Frame("load", chainFile[1 + i - 1])
          /\ frames'[m + 1] = LoadedFrame
      BY <3>3, <3>4, <3>5, <3>6, ZenonT(40)
    <3>8. frames' # <<>>
      BY <3>5, <3>6, EmptySeq
    <3>9. NextOfFile' = 1 /\ Len(activeChain') = 1 /\ 2 .. 1 = {}
      BY <2>1, <2>3 DEF NextOfFile
    <3>10. Restoring'
      BY <2>1, <3>5, <3>6, <3>7, <3>8, <3>9 DEF Restoring, m
    <3> QED
      BY <2>1, <2>2, <2>4, <3>10 DEF FileInv, LoadInv
  <2> QED
    BY <2>5, <2>6
<1> QED
  BY <1>1, <1>2, <1>3, <1>4, <1>5, <1>6 DEF Environment

LEMMA FileStep ==
  ASSUME IInv, FileInv, [Next]_vars,
         [LoadFromDisk => activeChain = <<Genesis>> /\ sideBranches = <<>> /\ orphans = {}]_vars
  PROVE  FileInv'
<1>1. CASE UNCHANGED vars
  <2>1. UNCHANGED <<activeChain, chainFile, lastSaved, frames, at, landed, frozen,
                    sideBranches, orphans>>
    BY <1>1 DEF vars, chainVars, diskVars, fileVars, callVars, reorgVars
  <2> QED
    BY <2>1, FileUnchanged DEF FileInv, LoadInv, Restoring, NextOfFile
<1>2. CASE Next /\ ~UNCHANGED vars
  BY <1>2, ConnectKeepsFile, DiskKeepsFile, ReorgKeepsFile, EnvironmentKeepsFile
     DEF Next, Connect
<1> QED
  BY <1>1, <1>2

LEMMA FileAlways == Spec /\ LoadsFirst => []FileInv
<1>1. Init => FileInv
  BY DEF Init, FileInv, LoadInv, FileMatchesChain, FileIsChain
<1>2. /\ IInv /\ FileInv /\ [Next]_vars
      /\ [LoadFromDisk => activeChain = <<Genesis>> /\ sideBranches = <<>> /\ orphans = {}]_vars
      => FileInv'
  BY FileStep
<1> QED
  BY <1>1, <1>2, Invariance, PTL DEF Spec, LoadsFirst

\* Whatever save_to_disk appends goes after the blocks it has to follow: the
\* file holds the active chain up to last_saved_height at every step, if the
\* load comes before the first block of a peer.
THEOREM FileFollowsChain == Spec /\ LoadsFirst => []FileMatchesChain
<1>1. FileInv => FileMatchesChain
  BY DEF FileInv
<1> QED
  BY <1>1, FileAlways, PTL

\* Then the file is always a chain on the genesis block, wherever the process
\* dies: every load starts on one.
THEOREM FileRestores == Spec /\ LoadsFirst => []FileIsChain
<1>1. FileInv => FileIsChain
  BY DEF FileInv
<1> QED
  BY <1>1, FileAlways, PTL

-----------------------------------------------------------------------------
(* The fee history. *)

\* A load that fails empties the chain and keeps the history.
LoadsSucceed == [][~FailLoad]_vars

\* Blocks that are in an index, in its order.
InOrder(s, index) ==
  \A i, j \in DOMAIN s : s[i] \in DOMAIN index /\ (i < j => index[s[i]] < index[s[j]])

LEMMA FeeHistoryInOrder == FeeHistoryOnChain <=> InOrder(feeHistory, activeChainIndex)
  BY DEF FeeHistoryOnChain, InOrder, OnActive

LEMMA SuffixInOrder ==
  ASSUME NEW s \in Seq(Blocks), NEW index, InOrder(s, index), NEW m \in Nat \ {0}
  PROVE  InOrder(SubSeq(s, m, Len(s)), index)
<1> DEFINE n == Len(s)
           r == SubSeq(s, m, n)
<1>1. n \in Nat /\ DOMAIN s = 1 .. n /\ n \in Int /\ n <= n
  BY LenProperties
<1>2. /\ r \in Seq(Blocks) /\ Len(r) = IF m <= n THEN n - m + 1 ELSE 0
      /\ \A i \in 1 .. n - m + 1 : r[i] = s[m + i - 1]
  BY <1>1, SubSeqTyped
<1> HIDE DEF r
<1>3. DOMAIN r = 1 .. Len(r)
  BY <1>2, LenProperties
<1> HIDE DEF n
<1>4. \A i \in DOMAIN r : /\ r[i] = s[m + i - 1] /\ m + i - 1 \in DOMAIN s
                          /\ i \in Int
  BY <1>1, <1>2, <1>3
<1>5. \A i, j \in DOMAIN r : i < j => m + i - 1 < m + j - 1
  BY <1>4
<1>6. InOrder(r, index)
  BY <1>4, <1>5 DEF InOrder
<1> QED
  BY <1>6 DEF r, n

LEMMA RemovalArithmetic ==
  ASSUME NEW n \in Nat, NEW k \in 1 .. n
  PROVE  /\ 1 \in Nat \ {0} /\ k - 1 \in Int /\ k - 1 <= n
         /\ k + 1 \in Nat \ {0} /\ n \in Int /\ n <= n
         /\ (IF 1 <= k - 1 THEN k - 1 - 1 + 1 ELSE 0) = k - 1
         /\ (IF k + 1 <= n THEN n - (k + 1) + 1 ELSE 0) = n - k
         /\ k - 1 - 1 + 1 = k - 1 /\ n - (k + 1) + 1 = n - k
         /\ \A i \in Int : 1 + i - 1 = i /\ k + 1 + i - 1 = k + i
OBVIOUS

\* The positions of what is left after a removal.
Around(i, k) == IF i < k THEN i ELSE i + 1

LEMMA AroundProperties ==
  ASSUME NEW n \in Nat, NEW k \in 1 .. n
  PROVE  /\ \A i \in 1 .. n - 1 : Around(i, k) \in 1 .. n /\ Around(i, k) # k
         /\ \A i, j \in 1 .. n - 1 : i < j => Around(i, k) < Around(j, k)
  BY DEF Around

LEMMA Before ==
  ASSUME NEW S, NEW s \in Seq(S), NEW n, n = Len(s), NEW k \in 1 .. n
  PROVE  /\ SubSeq(s, 1, k - 1) \in Seq(S) /\ Len(SubSeq(s, 1, k - 1)) = k - 1
         /\ \A i \in 1 .. k - 1 : SubSeq(s, 1, k - 1)[i] = s[i]
<1>1. n \in Nat
  BY LenProperties
<1> DEFINE one == 1
           p == SubSeq(s, one, k - 1)
<1>2. /\ one \in Nat \ {0} /\ k - 1 \in Int /\ k - 1 <= Len(s)
      /\ (IF one <= k - 1 THEN k - 1 - one + 1 ELSE 0) = k - 1
      /\ k - 1 - one + 1 = k - 1 /\ \A i \in Int : one + i - 1 = i
  BY <1>1, RemovalArithmetic
<1> HIDE DEF one
<1>3. /\ p \in Seq(S) /\ Len(p) = IF one <= k - 1 THEN k - 1 - one + 1 ELSE 0
      /\ \A i \in 1 .. k - 1 - one + 1 : p[i] = s[one + i - 1]
  BY <1>2, SubSeqTyped
<1> HIDE DEF p
<1>4. \A i \in 1 .. k - 1 : i \in Int
  OBVIOUS
<1>5. p \in Seq(S) /\ Len(p) = k - 1 /\ \A i \in 1 .. k - 1 : p[i] = s[i]
  BY <1>2, <1>3, <1>4, Zenon
<1> QED
  BY <1>5, Zenon DEF p, one

LEMMA After ==
  ASSUME NEW S, NEW s \in Seq(S), NEW n, n = Len(s), NEW k \in 1 .. n
  PROVE  /\ SubSeq(s, k + 1, n) \in Seq(S) /\ Len(SubSeq(s, k + 1, n)) = n - k
         /\ \A i \in 1 .. n - k : SubSeq(s, k + 1, n)[i] = s[k + i]
<1>1. n \in Nat
  BY LenProperties
<1> DEFINE q == SubSeq(s, k + 1, n)
<1>2. /\ k + 1 \in Nat \ {0} /\ n \in Int /\ n <= Len(s)
      /\ (IF k + 1 <= n THEN n - (k + 1) + 1 ELSE 0) = n - k
      /\ n - (k + 1) + 1 = n - k /\ \A i \in Int : k + 1 + i - 1 = k + i
  BY <1>1, RemovalArithmetic
<1>3. /\ q \in Seq(S) /\ Len(q) = IF k + 1 <= n THEN n - (k + 1) + 1 ELSE 0
      /\ \A i \in 1 .. n - (k + 1) + 1 : q[i] = s[k + 1 + i - 1]
  BY <1>2, SubSeqTyped
<1> HIDE DEF q
<1>4. \A i \in 1 .. n - k : i \in Int
  OBVIOUS
<1>5. q \in Seq(S) /\ Len(q) = n - k /\ \A i \in 1 .. n - k : q[i] = s[k + i]
  BY <1>2, <1>3, <1>4, Zenon
<1> QED
  BY <1>5, Zenon DEF q

LEMMA Removed ==
  ASSUME NEW S, NEW s \in Seq(S), NEW n, n = Len(s), NEW k \in 1 .. n
  PROVE  /\ DOMAIN RemoveAt(s, k) = 1 .. n - 1
         /\ \A i \in 1 .. n - 1 : RemoveAt(s, k)[i] = s[Around(i, k)]
<1>1. n \in Nat
  BY LenProperties
<1> DEFINE p == SubSeq(s, 1, k - 1)
           q == SubSeq(s, k + 1, n)
<1>2. p \in Seq(S) /\ Len(p) = k - 1 /\ \A i \in 1 .. k - 1 : p[i] = s[i]
  BY Before
<1>3. q \in Seq(S) /\ Len(q) = n - k /\ \A i \in 1 .. n - k : q[i] = s[k + i]
  BY After, SMTT(40)
<1>4. RemoveAt(s, k) = p \o q
  BY DEF RemoveAt
<1> HIDE DEF p, q
<1> DEFINE r == p \o q
<1>5. /\ r \in Seq(S) /\ Len(r) = Len(p) + Len(q)
      /\ \A i \in 1 .. Len(p) + Len(q) : r[i] = IF i <= Len(p) THEN p[i] ELSE q[i - Len(p)]
  BY <1>2, <1>3, ConcatProperties, ZenonT(40)
<1>6. DOMAIN r = 1 .. Len(r)
  BY <1>5, LenProperties
<1> HIDE DEF r
<1>7. (k - 1) + (n - k) = n - 1
  BY <1>1
<1>8. DOMAIN r = 1 .. n - 1
  BY <1>2, <1>3, <1>5, <1>6, <1>7
<1>9. \A i \in 1 .. n - 1 : r[i] = IF i <= k - 1 THEN p[i] ELSE q[i - (k - 1)]
  BY <1>2, <1>3, <1>5, <1>7
<1>10. ASSUME NEW i \in 1 .. n - 1
       PROVE  r[i] = s[Around(i, k)]
  <2>1. CASE i <= k - 1
    <3>1. i \in 1 .. k - 1 /\ i < k
      BY <1>1, <2>1
    <3> QED
      BY <1>2, <1>9, <2>1, <3>1 DEF Around
  <2>2. CASE ~(i <= k - 1)
    <3>1. i - (k - 1) \in 1 .. n - k /\ k + (i - (k - 1)) = i + 1 /\ ~(i < k)
      BY <1>1, <2>2
    <3>2. q[i - (k - 1)] = s[k + (i - (k - 1))]
      BY <1>3, <3>1
    <3> QED
      BY <1>9, <2>2, <3>1, <3>2 DEF Around
  <2> QED
    BY <2>1, <2>2
<1> QED
  BY <1>4, <1>8, <1>10 DEF r

LEMMA RemoveAtInOrder ==
  ASSUME NEW s \in Seq(Blocks), NEW index, InOrder(s, index), NEW k \in DOMAIN s,
         NEW b, s[k] = b, NEW less, DOMAIN less = DOMAIN index \ {b},
         \A a \in DOMAIN less : less[a] = index[a], \A a \in DOMAIN index : index[a] \in Nat
  PROVE  InOrder(RemoveAt(s, k), less)
<1> DEFINE n == Len(s)
           r == RemoveAt(s, k)
<1>1. n \in Nat /\ DOMAIN s = 1 .. n
  BY LenProperties
<1>2. DOMAIN r = 1 .. n - 1 /\ \A i \in 1 .. n - 1 : r[i] = s[Around(i, k)]
  BY <1>1, Removed
<1> HIDE DEF n, r
<1>3. /\ \A i \in 1 .. n - 1 : Around(i, k) \in DOMAIN s /\ Around(i, k) # k
      /\ \A i, j \in 1 .. n - 1 : i < j => Around(i, k) < Around(j, k)
  BY <1>1, AroundProperties
<1>4. \A i \in 1 .. n : i < k \/ k < i \/ i = k
  BY <1>1
<1>5. \A i \in DOMAIN s : i # k => s[i] # b
  <2> TAKE i \in DOMAIN s
  <2>1. index[s[i]] \in Nat
    BY DEF InOrder
  <2>2. ~(index[s[i]] < index[s[i]])
    BY <2>1
  <2> QED
    BY <1>1, <1>4, <2>2 DEF InOrder
<1>6. \A i \in 1 .. n - 1 : r[i] \in DOMAIN less /\ less[r[i]] = index[s[Around(i, k)]]
  BY <1>2, <1>3, <1>5 DEF InOrder
<1>7. InOrder(r, less)
  BY <1>2, <1>3, <1>6 DEF InOrder
<1> QED
  BY <1>7 DEF r

LEMMA PushHistory ==
  ASSUME IInv, FeeHistoryOnChain, NEW b \in Blocks, ~OnActive(b), PushOnActive(b)
  PROVE  FeeHistoryOnChain'
<1> DEFINE s == feeHistory
           index == activeChainIndex
           longer == Append(s, b)
           from == Max({Len(longer) - FeeWindow + 1, 1})
<1>1. s \in Seq(Blocks) /\ Len(s) \in Nat /\ DOMAIN s = 1 .. Len(s)
  BY LenProperties DEF IInv, TypeOK, LedgerTypeOK
<1>2. /\ longer \in Seq(Blocks) /\ Len(longer) = Len(s) + 1
      /\ \A i \in 1 .. Len(s) : longer[i] = s[i]
      /\ longer[Len(s) + 1] = b /\ DOMAIN longer = 1 .. Len(s) + 1
  BY <1>1, AppendProperties, LenProperties
<1>3. /\ DOMAIN activeChainIndex' = DOMAIN index \cup {b}
      /\ activeChainIndex'[b] = Len(activeChain)
      /\ \A a \in DOMAIN index : activeChainIndex'[a] = index[a]
  BY DEF PushOnActive, IndexBlock, OnActive
<1>4. \A a \in DOMAIN index : index[a] \in Nat /\ index[a] < Len(activeChain)
  <2> TAKE a \in DOMAIN index
  <2>1. PICK i \in 1 .. Len(activeChain) : activeChain[i] = a
    BY ActiveChain DEF OnActive
  <2>2. index[a] = i - 1
    BY <2>1, ActiveChain DEF IInv, ChainIndexed
  <2> QED
    BY <2>1, <2>2, ActiveChain
<1>5. InOrder(s, index)
  BY FeeHistoryInOrder
<1>6. InOrder(longer, activeChainIndex')
  <2>1. ASSUME NEW i \in 1 .. Len(s) + 1
        PROVE  longer[i] \in DOMAIN activeChainIndex'
    <3>1. CASE i \in 1 .. Len(s)
      BY <1>1, <1>2, <1>3, <1>5, <3>1 DEF InOrder
    <3>2. CASE i = Len(s) + 1
      BY <1>2, <1>3, <3>2
    <3> QED
      BY <1>1, <3>1, <3>2
  <2>2. ASSUME NEW i \in 1 .. Len(s) + 1, NEW j \in 1 .. Len(s) + 1, i < j
        PROVE  activeChainIndex'[longer[i]] < activeChainIndex'[longer[j]]
    <3>1. i \in 1 .. Len(s)
      BY <1>1, <2>2
    <3>2. longer[i] = s[i] /\ s[i] \in DOMAIN index /\ activeChainIndex'[s[i]] = index[s[i]]
      BY <1>1, <1>2, <1>3, <1>5, <3>1 DEF InOrder
    <3>3. CASE j \in 1 .. Len(s)
      <4>1. longer[j] = s[j] /\ s[j] \in DOMAIN index /\ activeChainIndex'[s[j]] = index[s[j]]
        BY <1>1, <1>2, <1>3, <1>5, <3>3 DEF InOrder
      <4> QED
        BY <1>1, <1>5, <2>2, <3>1, <3>2, <3>3, <4>1 DEF InOrder
    <3>4. CASE j = Len(s) + 1
      BY <1>2, <1>3, <1>4, <3>2, <3>4
    <3> QED
      BY <1>1, <3>3, <3>4
  <2> HIDE DEF longer
  <2> QED
    BY <1>2, <2>1, <2>2 DEF InOrder
<1>7. from \in Nat \ {0}
  <2>1. Len(longer) \in Nat
    BY <1>1, <1>2
  <2> HIDE DEF longer
  <2>2. Len(longer) - FeeWindow + 1 \in Int
    BY <2>1, ParameterAssumption
  <2> DEFINE m == Len(longer) - FeeWindow + 1
  <2>3. m \in Int /\ 1 \in Int
    BY <2>2
  <2> HIDE DEF m
  <2>4. Max({m, 1}) \in {m, 1} /\ Max({m, 1}) >= 1
    BY <2>3, MaxOfTwo
  <2>5. Max({m, 1}) \in Nat \ {0}
    BY <2>3, <2>4
  <2> QED
    BY <2>5 DEF m
<1>8. InOrder(SubSeq(longer, from, Len(longer)), activeChainIndex')
  <2> HIDE DEF longer, from
  <2> QED
    BY <1>2, <1>6, <1>7, SuffixInOrder
<1>9. ~Contains(feeHistory, b)
  BY <1>1, <1>5 DEF Contains, InOrder, OnActive
<1>10. feeHistory' = SubSeq(longer, from, Len(longer))
  BY <1>9 DEF PushOnActive, RecordBlock
<1> QED
  BY <1>8, <1>10 DEF FeeHistoryOnChain, InOrder, OnActive

LEMMA PopHistory ==
  ASSUME IInv, FeeHistoryOnChain, PopTip
  PROVE  FeeHistoryOnChain'
<1> DEFINE index == activeChainIndex
<1>1. feeHistory \in Seq(Blocks) /\ DOMAIN feeHistory = 1 .. Len(feeHistory)
  BY LenProperties DEF IInv, TypeOK, LedgerTypeOK
<1>2. /\ DOMAIN activeChainIndex' = DOMAIN index \ {Tip}
      /\ \A a \in DOMAIN activeChainIndex' : activeChainIndex'[a] = index[a]
      /\ \A a \in DOMAIN index : index[a] \in Nat
  BY DEF PopTip, UnindexBlock, IInv, TypeOK, ChainTypeOK
<1>3. InOrder(feeHistory, index)
  BY FeeHistoryInOrder
<1>4. InOrder(feeHistory', activeChainIndex')
  <2>1. ASSUME NEW i \in DOMAIN feeHistory, feeHistory[i] = Tip,
               feeHistory' = RemoveAt(feeHistory, i)
        PROVE  InOrder(feeHistory', activeChainIndex')
    <3> DEFINE less == activeChainIndex'
    <3>1. /\ DOMAIN less = DOMAIN index \ {Tip}
          /\ \A a \in DOMAIN less : less[a] = index[a]
      BY <1>2
    <3> HIDE DEF less
    <3>2. InOrder(RemoveAt(feeHistory, i), less)
      BY <1>1, <1>2, <1>3, <2>1, <3>1, RemoveAtInOrder
    <3> QED
      BY <2>1, <3>2 DEF less
  <2>2. CASE ~Contains(feeHistory, Tip) /\ UNCHANGED feeHistory
    <3>1. \A i \in DOMAIN feeHistory : feeHistory[i] # Tip
      BY <1>1, <2>2 DEF Contains
    <3> QED
      BY <1>2, <1>3, <2>2, <3>1 DEF InOrder
  <2> QED
    BY <2>1, <2>2 DEF PopTip, UnrecordBlock
<1> QED
  BY <1>4 DEF FeeHistoryOnChain, InOrder, OnActive

LEMMA HistoryStep ==
  ASSUME IInv, FeeHistoryOnChain, [Next]_vars, [~FailLoad]_vars
  PROVE  FeeHistoryOnChain'
<1>1. CASE UNCHANGED <<activeChain, activeChainIndex, feeHistory>>
  BY <1>1 DEF FeeHistoryOnChain, OnActive
<1>2. ASSUME NEW b \in Blocks, ~OnActive(b), PushOnActive(b)
      PROVE  FeeHistoryOnChain'
  BY <1>2, PushHistory
<1>3. CASE DisconnectTip
  BY <1>3, PopHistory DEF DisconnectTip
<1>4. CASE feeHistory' = <<>>
  BY <1>4 DEF FeeHistoryOnChain
<1>5. CASE UNCHANGED vars
  BY <1>1, <1>5 DEF vars, chainVars, ledgerVars
<1> QED
  BY <1>1, <1>2, <1>3, <1>4, <1>5, LedgerMoves DEF ledgerVars

\* The blocks the fee estimator remembers are blocks of the active chain in its
\* order, through every reorganisation and restart, unless a load fails (then
\* Chain::load_from_disk resets the chain and not the estimator).
THEOREM FeeHistoryFollows == Spec /\ LoadsSucceed => []FeeHistoryOnChain
<1>1. Init => FeeHistoryOnChain
  BY DEF Init, FeeHistoryOnChain
<1>2. IInv /\ FeeHistoryOnChain /\ [Next]_vars /\ [~FailLoad]_vars => FeeHistoryOnChain'
  BY HistoryStep
<1> QED
  BY <1>1, <1>2, Invariance, PTL DEF Spec, LoadsSucceed

=============================================================================
