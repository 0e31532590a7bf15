---------------------------- MODULE MiningProofs ----------------------------
(***************************************************************************)
(* Proofs about Mining for every set of transactions, number of threads,   *)
(* size of a batch and set of nonces that solve a header.                  *)
(*                                                                         *)
(* The invariant proved by induction is IInv.  Besides the types it says   *)
(* what the miner may still rely on between two critical sections while    *)
(* blocks arrive (DraftBehind, DraftCurrent), how long the chain is inside *)
(* a reorganisation (ReorgShape), how far each thread and the batches have *)
(* come (ThreadsSwept, BatchesSwept) and which solution a found flag       *)
(* stands for (SolutionKept).                                              *)
(***************************************************************************)
EXTENDS Mining, DataProofs

N == Cardinality(Threads)

\* Spent, BlockFees and Subsidy of a chain, apart from the state.
FeesOn(c, txs) == SumOver(Fee, {t \in txs : Coin[t] \notin Spent(c)})
SubsidyAt(height) == Fifty \div TwoTo[height \div HalveAfter]

Assembled == {"mine", "search", "check", "connect"}

\* The chain that is there when Chain::mutex is free, or that a rollback
\* brings back.
Base == IF Unlocked THEN chain ELSE reorg.from

\* Inside a reorganisation the old tip is gone; half a branch makes up for it.
ReorgShape ==
  ~Unlocked =>
    /\ Len(reorg.from) \in 2..(MaxHeight - 1)
    /\ Len(chain) = IF reorg.at = "half" THEN Len(reorg.from)
                                         ELSE Len(reorg.from) - 1

\* The base only grows: a draft whose tip has gone never gets it back.
DraftBehind ==
  stage \notin {"tip", "dead"} =>
    Len(draft.prev) <= Len(Base) /\ Len(draft.prev) < MaxHeight

\* What the miner has read fits together while its tip is the base's, if the
\* transactions were not picked inside a reorganisation.  Fees read inside
\* one may be too low, never too high.
DraftCurrent ==
  draft.prev = Base /\ ~inside =>
    /\ stage \in {"fees", "subsidy"} \cup Assembled
         => \A t \in draft.txs : Coin[t] \notin Spent(Base)
    /\ stage = "subsidy" => draft.coinbase <= FeesOn(Base, draft.txs)
    /\ stage \in Assembled
         => draft.coinbase <= SubsidyAt(Len(Base)) + FeesOn(Base, draft.txs)

\* A nonce that a thread is about to store is a solution; the flag is set
\* before, and the nonce counts once no thread is still about to store.
SolutionKept ==
  /\ stage = "search" =>
       /\ \A t \in Threads : thread[t].at = "store" =>
            result.found /\ t * ChunkSize + thread[t].i \in solutions
       /\ result.found =>
            \/ result.nonce \in solutions
            \/ \E t \in Threads : thread[t].at = "store"
  /\ stage \in {"check", "connect"} /\ result.found => result.nonce \in solutions
  /\ stage = "connect" => result.found

\* No nonce a thread has passed is a solution, and a thread stops early only
\* when somebody has found one or the search is interrupted.
ThreadsSwept ==
  backend = "cpu" /\ stage \in {"search", "check"} =>
    \A t \in Threads :
      /\ \A j \in 0..(thread[t].i - 1) : t * ChunkSize + j \notin solutions
      /\ thread[t].at \in {"try", "store"} => thread[t].i < ChunkSize
      /\ thread[t].at = "done" =>
           interrupt \/ result.found \/ thread[t].i = ChunkSize
      /\ stage = "check" => thread[t].at = "done"

\* As long as the GPU does not fail, no batch has passed a solution.
BatchesSwept ==
  backend # "cpu" =>
    /\ stage = "search" => ~result.found /\ Idle = thread
    /\ stage = "search" /\ failures = 0 => \A n \in solutions : offset <= n
    /\ stage = "check" /\ failures = 0 /\ ~interrupt /\ ~result.found
         => solutions = {}

IInv ==
  /\ TypeOK
  /\ ReorgShape /\ DraftBehind /\ DraftCurrent
  /\ InterruptSeen
  /\ SolutionKept /\ ThreadsSwept /\ BatchesSwept

-----------------------------------------------------------------------------
(* The parameters and the operators. *)

\* Every pair of a thread and a try is a nonce, and every nonce but the last
\* few is such a pair.
LEMMA Chunks ==
  /\ N \in Nat \ {0} /\ ChunkSize \in Nat \ {0}
  /\ \A t \in Threads, i \in 0..(ChunkSize - 1) :
       t * ChunkSize + i \in 0..LastNonce
  /\ \A n \in 0..(LastNonce - N) :
       \E t \in Threads, i \in 0..(ChunkSize - 1) : n = t * ChunkSize + i
<1> DEFINE C == ChunkSize
<1>1. N \in Nat \ {0} /\ N <= LastNonce /\ LastNonce \in Nat /\ Threads = 0..(N - 1)
  BY MiningAssumption, SMTT(40) DEF N
<1>2. /\ C \in Nat /\ N * C <= LastNonce /\ LastNonce < N * C + N
      /\ C = LastNonce \div N
  BY <1>1 DEF ChunkSize, N
<1>3. C # 0
  BY <1>1, <1>2
<1> HIDE DEF C
<1>4. ASSUME NEW t \in Threads, NEW i \in 0..(C - 1)
      PROVE  t * C + i \in 0..LastNonce
  <2>1. t \in Nat /\ i \in Nat /\ t + 1 <= N
    BY <1>1, <1>2, <1>4
  <2>2. (t + 1) * C <= N * C
    BY <1>2, <1>1, <2>1
  <2>3. (t + 1) * C = t * C + C /\ t * C \in Nat
    BY <1>2, <2>1
  <2> QED
    BY <1>1, <1>2, <1>4, <2>1, <2>2, <2>3
<1>5. ASSUME NEW n \in 0..(LastNonce - N)
      PROVE  \E t \in Threads, i \in 0..(C - 1) : n = t * C + i
  <2> DEFINE q == n \div C
             r == n - C * q
  <2>1. q \in Nat /\ C * q <= n /\ n < C * q + C
    BY <1>1, <1>2, <1>3
  <2>2. n < N * C
    BY <1>1, <1>2
  <2> HIDE DEF q
  <2>3. r \in 0..(C - 1) /\ n = q * C + r
    BY <1>2, <2>1
  <2>4. q < N
    <3>1. SUFFICES ASSUME q >= N PROVE FALSE
      BY <1>1, <2>1
    <3>2. N * C <= C * q
      BY <1>1, <1>2, <2>1, <3>1
    <3> QED
      BY <1>1, <1>2, <2>1, <2>2, <3>2
  <2> QED
    BY <1>1, <2>1, <2>3, <2>4
<1> QED
  BY <1>1, <1>2, <1>3, <1>4, <1>5 DEF C

\* The fees and the subsidy of the block on a chain.
LEMMA MoneyTyped ==
  /\ \A c : \A txs \in SUBSET Txs : FeesOn(c, txs) \in Nat
  /\ \A height \in Nat : SubsidyAt(height) \in Nat
<1>1. ASSUME NEW c, NEW txs \in SUBSET Txs
      PROVE  FeesOn(c, txs) \in Nat
  <2> DEFINE S == {t \in txs : Coin[t] \notin Spent(c)}
  <2>1. IsFiniteSet(S) /\ \A t \in S : Fee[t] \in Nat
    BY MiningAssumption, FS_Subset
  <2> QED
    BY <2>1, SumTyped DEF FeesOn
<1>2. ASSUME NEW height \in Nat
      PROVE  SubsidyAt(height) \in Nat
  <2>1. HalveAfter \in Nat \ {0} /\ Fifty \in Nat
    BY MiningAssumption
  <2>2. height \div HalveAfter \in Nat
    BY <2>1
  <2>3. TwoTo[height \div HalveAfter] \in Nat \ {0}
    BY <2>2, PowersOfTwo
  <2> QED
    BY <2>1, <2>3 DEF SubsidyAt
<1> QED
  BY <1>1, <1>2

LEMMA MoneyOnTheTip ==
  /\ \A txs : BlockFees(txs) = FeesOn(chain, txs)
  /\ Subsidy = SubsidyAt(Len(chain))
  BY DEF BlockFees, FeesOn, Subsidy, SubsidyAt, Unspent, SumOver

LEMMA AppendedTyped ==
  ASSUME NEW c \in Seq(Block), NEW who \in {"me", "peer"},
         NEW S \in SUBSET Txs
  PROVE  /\ Appended(c, [by |-> who, txs |-> S]) \in Seq(Block)
         /\ Len(Appended(c, [by |-> who, txs |-> S])) = Len(c) + 1
<1>1. [by |-> who, txs |-> S] \in Block
  BY DEF Block
<1> QED
  BY <1>1, AppendProperties DEF Appended

LEMMA FrontTyped ==
  ASSUME NEW c \in Seq(Block), Len(c) >= 1
  PROVE  /\ Front(c) \in Seq(Block)
         /\ Len(Front(c)) = Len(c) - 1
         /\ Last(c).txs \subseteq Txs
<1>1. Len(c) \in Nat /\ \A i \in 1 .. Len(c) : c[i] \in Block
  BY ElementOfSeq, LenProperties
<1>2. SubSeq(c, 1, Len(c) - 1) \in Seq(Block)
      /\ Len(SubSeq(c, 1, Len(c) - 1)) = Len(c) - 1
  BY <1>1, PrefixTyped
<1>3. c[Len(c)] \in Block
  BY <1>1
<1> QED
  BY <1>2, <1>3 DEF Front, Last, Block

LEMMA BodiesTyped ==
  ASSUME NEW c, NEW S \in Bodies(c)
  PROVE  S \in SUBSET Txs
  BY DEF Bodies

\* A reorganisation keeps the types, the shape and the base until its last
\* block, which leaves a chain that is one block longer than the old one.
LEMMA ReorgMoves ==
  ASSUME TypeOK, ReorgShape, PeerReorg
  PROVE  /\ chain' \in Seq(Block) /\ Len(chain') \in 1..MaxHeight
         /\ pool' \subseteq Txs
         /\ reorg' \in [at : {"none", "fork", "half", "back"}, from : Seq(Block)]
         /\ ReorgShape'
         /\ \/ Base' = Base /\ ~Unlocked'
            \/ Base' = Base /\ Unlocked' /\ interrupt'
            \/ Len(Base') = Len(Base) + 1 /\ interrupt'
<1>a. /\ MaxHeight \in Nat \ {0}
      /\ chain \in Seq(Block) /\ Len(chain) \in 1..MaxHeight
      /\ reorg \in [at : {"none", "fork", "half", "back"}, from : Seq(Block)]
      /\ pool \subseteq Txs
  BY MiningAssumption DEF TypeOK
<1>b. Len(reorg.from) \in Nat /\ reorg.from \in Seq(Block)
  BY <1>a, LenProperties
<1>c. /\ NoReorg \in [at : {"none", "fork", "half", "back"}, from : Seq(Block)]
      /\ NoReorg.at = "none"
  BY DEF NoReorg
<1>1. CASE ReorgStarts
  <2>1. /\ reorg' = [at |-> "fork", from |-> chain] /\ chain' = Front(chain)
        /\ pool' = pool \cup Last(chain).txs /\ Unlocked
        /\ Len(chain) \in 2..(MaxHeight - 1)
    BY <1>1 DEF ReorgStarts
  <2>2. /\ Front(chain) \in Seq(Block) /\ Len(Front(chain)) = Len(chain) - 1
        /\ Last(chain).txs \subseteq Txs
    BY <1>a, <2>1, FrontTyped
  <2>3. reorg'.at = "fork" /\ reorg'.from = chain
    BY <2>1
  <2>4. ReorgShape' /\ Base' = Base /\ ~Unlocked'
    BY <1>a, <2>1, <2>2, <2>3 DEF ReorgShape, Base, Unlocked
  <2> QED
    BY <1>a, <2>1, <2>2, <2>4
<1>2. CASE ReorgConnects
  <2>1. PICK S \in Bodies(chain) :
          /\ chain' = Appended(chain, [by |-> "peer", txs |-> S])
          /\ pool' = pool \ S
    BY <1>2 DEF ReorgConnects
  <2>2. /\ chain' \in Seq(Block) /\ Len(chain') = Len(chain) + 1
        /\ pool' \subseteq Txs
    BY <1>a, <2>1, BodiesTyped, AppendedTyped
  <2>3. /\ reorg.at \in {"fork", "half"} /\ interrupt'
        /\ reorg' = IF reorg.at = "fork" THEN [reorg EXCEPT !.at = "half"]
                                         ELSE NoReorg
    BY <1>2 DEF ReorgConnects, Interrupts
  <2>4. /\ Len(reorg.from) \in 2..(MaxHeight - 1)
        /\ Len(chain) = IF reorg.at = "half" THEN Len(reorg.from)
                                             ELSE Len(reorg.from) - 1
    BY <2>3 DEF ReorgShape, Unlocked
  <2>5. CASE reorg.at = "fork"
    <3>1. /\ reorg' = [reorg EXCEPT !.at = "half"]
          /\ Len(chain') = Len(reorg.from)
      BY <1>b, <2>2, <2>3, <2>4, <2>5
    <3>2. reorg'.at = "half" /\ reorg'.from = reorg.from
          /\ reorg' \in [at : {"none", "fork", "half", "back"}, from : Seq(Block)]
      BY <1>a, <3>1
    <3>3. ReorgShape' /\ Base' = Base /\ ~Unlocked'
      BY <2>4, <2>5, <3>1, <3>2 DEF ReorgShape, Base, Unlocked
    <3>4. Len(chain') \in 1..MaxHeight
      BY <1>a, <2>4, <3>1
    <3> QED
      BY <2>2, <3>2, <3>3, <3>4
  <2>6. CASE reorg.at = "half"
    <3>1. reorg' = NoReorg /\ Len(chain') = Len(reorg.from) + 1
      BY <2>2, <2>3, <2>4, <2>6
    <3>2. reorg'.at = "none"
      BY <3>1, <1>c
    <3>3. ReorgShape' /\ Base' = chain' /\ Base = reorg.from
      BY <2>6, <3>2 DEF ReorgShape, Base, Unlocked
    <3>4. Len(chain') \in 1..MaxHeight
      BY <1>a, <2>4, <3>1
    <3> QED
      BY <1>c, <2>2, <2>3, <3>1, <3>3, <3>4
  <2> QED
    BY <2>3, <2>5, <2>6
<1>3. CASE ReorgFails
  <2>1. /\ reorg.at \in {"fork", "half"} /\ chain' = Front(reorg.from)
        /\ reorg' = [reorg EXCEPT !.at = "back"]
        /\ pool' = pool \/ pool' = pool \cup Last(chain).txs
    BY <1>3 DEF ReorgFails
  <2>2. Len(reorg.from) \in 2..(MaxHeight - 1)
    BY <2>1 DEF ReorgShape, Unlocked
  <2>3. /\ Front(reorg.from) \in Seq(Block)
        /\ Len(Front(reorg.from)) = Len(reorg.from) - 1
    BY <1>a, <1>b, <2>2, FrontTyped
  <2>4. Last(chain).txs \subseteq Txs
    BY <1>a, FrontTyped
  <2>5. /\ reorg'.at = "back" /\ reorg'.from = reorg.from
        /\ reorg' \in [at : {"none", "fork", "half", "back"}, from : Seq(Block)]
    BY <1>a, <2>1
  <2>6. ReorgShape' /\ Base' = Base /\ ~Unlocked'
    BY <2>1, <2>2, <2>3, <2>5 DEF ReorgShape, Base, Unlocked
  <2>7. Len(chain') \in 1..MaxHeight
    BY <1>a, <2>1, <2>2, <2>3
  <2> QED
    BY <1>a, <2>1, <2>3, <2>4, <2>5, <2>6, <2>7
<1>4. CASE ReorgRollsBack
  <2>1. /\ reorg.at = "back" /\ reorg' = NoReorg /\ chain' = reorg.from
        /\ pool' = pool \ Last(reorg.from).txs /\ interrupt'
    BY <1>4 DEF ReorgRollsBack, Interrupts
  <2>2. Len(reorg.from) \in 2..(MaxHeight - 1)
    BY <2>1 DEF ReorgShape, Unlocked
  <2>3. ReorgShape' /\ Base' = Base /\ Unlocked'
    BY <1>c, <2>1 DEF ReorgShape, Base, Unlocked
  <2>4. Len(chain') \in 1..MaxHeight
    BY <1>a, <2>1, <2>2
  <2> QED
    BY <1>a, <1>b, <1>c, <2>1, <2>3, <2>4
<1> QED
  BY <1>1, <1>2, <1>3, <1>4 DEF PeerReorg

\* A block on the tip leaves a chain that is one block longer.
LEMMA GrowthTyped ==
  ASSUME TypeOK, PeerBlock \/ ConnectOwn, chain' # chain
  PROVE  /\ chain' \in Seq(Block) /\ Len(chain') = Len(chain) + 1
         /\ pool' \subseteq Txs
<1>1. ASSUME PeerBlock
      PROVE  /\ chain' \in Seq(Block) /\ Len(chain') = Len(chain) + 1
             /\ pool' \subseteq Txs
  <2>1. PICK S \in Bodies(chain) :
          /\ chain' = Appended(chain, [by |-> "peer", txs |-> S])
          /\ pool' = pool \ S
    BY <1>1 DEF PeerBlock
  <2> QED
    BY <2>1, BodiesTyped, AppendedTyped DEF TypeOK
<1>2. ASSUME ConnectOwn
      PROVE  /\ chain' \in Seq(Block) /\ Len(chain') = Len(chain) + 1
             /\ pool' \subseteq Txs
  <2>1. /\ chain' = Appended(chain, [by |-> "me", txs |-> draft.txs])
        /\ pool' = pool \ draft.txs
    BY <1>2 DEF ConnectOwn, nodeVars
  <2>2. draft.txs \in SUBSET Txs
    BY DEF TypeOK
  <2> QED
    BY <2>1, <2>2, AppendedTyped DEF TypeOK
<1> QED
  BY <1>1, <1>2

-----------------------------------------------------------------------------
(* The initial state. *)

LEMMA InitIInv == Init => IInv
<1> SUFFICES ASSUME Init PROVE IInv
  OBVIOUS
<1> USE DEF Init
<1>1. TypeOK
  <2>1. [by |-> "peer", txs |-> {}] \in Block
    BY DEF Block
  <2>2. chain \in Seq(Block) /\ Len(chain) = 1
    BY <2>1
  <2>3. MaxHeight \in Nat \ {0} /\ LastNonce \in Nat /\ MaxFailures \in Nat
    BY MiningAssumption
  <2>4. thread \in [Threads -> [i : 0..ChunkSize,
                                at : {"try", "store", "poll", "done"}]]
    BY Chunks DEF Idle
  <2>5. result \in [found : BOOLEAN, nonce : 0..LastNonce]
    BY <2>3 DEF NotFound
  <2>6. draft \in [prev : Seq(Block), late : BOOLEAN, txs : SUBSET Txs,
                   coinbase : Nat]
    BY DEF NoDraft
  <2>7. reorg \in [at : {"none", "fork", "half", "back"}, from : Seq(Block)]
    BY DEF NoReorg
  <2>8. /\ Len(chain) \in 1..MaxHeight /\ since \in Seq(Block)
        /\ offset \in 0..LastNonce /\ failures \in 0..MaxFailures
    BY <2>2, <2>3
  <2>9. /\ pool \subseteq Txs /\ interrupt \in BOOLEAN /\ backend \in Backends
        /\ inside \in BOOLEAN /\ solutions \subseteq 0..LastNonce /\ stage = "tip"
    OBVIOUS
  <2> HIDE DEF Init
  <2> QED
    BY <2>2, <2>4, <2>5, <2>6, <2>7, <2>8, <2>9 DEF TypeOK
<1>2. DraftCurrent /\ ReorgShape
  BY DEF DraftCurrent, ReorgShape, Assembled, Unlocked, NoReorg
<1> QED
  BY <1>1, <1>2
  DEF IInv, DraftBehind, InterruptSeen, SolutionKept, ThreadsSwept, BatchesSwept

-----------------------------------------------------------------------------
(* What the steps of a search do. *)

Step == {"try", "store", "poll", "done"}

\* Only the threads of the CPU backend run.
LEMMA CpuRuns ==
  ASSUME IInv, NEW t \in Threads, CpuThread(t)
  PROVE  stage = "search" /\ backend = "cpu"
<1>1. stage = "search" /\ thread[t].at # "done"
  BY DEF CpuThread, Try, Store, Poll
<1>2. thread = Idle => thread[t].at = "done"
  BY DEF Idle
<1> QED
  BY <1>1, <1>2 DEF IInv, BatchesSwept

LEMMA TryMoves ==
  ASSUME IInv, NEW t \in Threads, Try(t)
  PROVE  LET i == thread[t].i
             n == t * ChunkSize + i
         IN  /\ thread[t].at = "try" /\ i \in 0..(ChunkSize - 1)
             /\ thread' \in [Threads -> [i : 0..ChunkSize, at : Step]]
             /\ \A u \in Threads : u # t => thread'[u] = thread[u]
             /\ \/ /\ n \in solutions
                   /\ thread'[t] = [i |-> i, at |-> "store"]
                   /\ result' = [found |-> TRUE, nonce |-> result.nonce]
                \/ /\ n \notin solutions
                   /\ \E at \in {"try", "poll", "done"} :
                        /\ thread'[t] = [i |-> i + 1, at |-> at]
                        /\ at = "try" => i + 1 < ChunkSize
                        /\ at = "done" => i + 1 = ChunkSize
                   /\ result' = result
<1> DEFINE i == thread[t].i
           n == t * ChunkSize + i
           next == IF n \in solutions THEN "store"
                   ELSE IF (i + 1) % PollEvery = 0 THEN "poll"
                   ELSE IF i + 1 = ChunkSize THEN "done"
                   ELSE "try"
           new == [i |-> IF next = "store" THEN i ELSE i + 1, at |-> next]
<1>1. /\ thread \in [Threads -> [i : 0..ChunkSize, at : Step]]
      /\ result \in [found : BOOLEAN, nonce : 0..LastNonce]
      /\ ChunkSize \in Nat \ {0}
  BY Chunks DEF IInv, TypeOK, Step
<1>2. /\ thread[t].at = "try" /\ stage = "search"
      /\ result' = [result EXCEPT !.found = @ \/ next = "store"]
      /\ thread' = [thread EXCEPT ![t] = new]
  BY DEF Try
<1>3. backend = "cpu"
  BY CpuRuns DEF CpuThread
<1>4. i \in 0..(ChunkSize - 1)
  BY <1>1, <1>2, <1>3 DEF IInv, ThreadsSwept
<1>5. \/ n \in solutions /\ next = "store"
      \/ /\ n \notin solutions /\ next \in {"try", "poll", "done"}
         /\ next = "try" => i + 1 # ChunkSize
         /\ next = "done" => i + 1 = ChunkSize
  OBVIOUS
<1> HIDE DEF n, next
<1>6. new \in [i : 0..ChunkSize, at : Step]
  BY <1>1, <1>4, <1>5 DEF Step
<1>7. /\ thread' \in [Threads -> [i : 0..ChunkSize, at : Step]]
      /\ \A u \in Threads : u # t => thread'[u] = thread[u]
      /\ thread'[t] = new
  BY <1>1, <1>2, <1>6
<1>8. CASE n \in solutions
  <2>1. next = "store"
    BY <1>5, <1>8
  <2>2. result' = [found |-> TRUE, nonce |-> result.nonce]
    BY <1>1, <1>2, <2>1
  <2> QED
    BY <1>2, <1>4, <1>7, <1>8, <2>1, <2>2 DEF n
<1>9. CASE n \notin solutions
  <2>1. /\ next \in {"try", "poll", "done"}
        /\ next = "try" => i + 1 < ChunkSize
        /\ next = "done" => i + 1 = ChunkSize
    BY <1>1, <1>4, <1>5, <1>9
  <2>2. result' = result
    BY <1>1, <1>2, <2>1
  <2>3. thread'[t] = [i |-> i + 1, at |-> next]
    BY <1>7, <2>1
  <2> QED
    BY <1>2, <1>4, <1>7, <1>9, <2>1, <2>2, <2>3 DEF n
<1> QED
  BY <1>8, <1>9

LEMMA StoreMoves ==
  ASSUME IInv, NEW t \in Threads, Store(t)
  PROVE  LET i == thread[t].i
             n == t * ChunkSize + i
         IN  /\ thread[t].at = "store" /\ result.found /\ n \in solutions
             /\ thread' \in [Threads -> [i : 0..ChunkSize, at : Step]]
             /\ \A u \in Threads : u # t => thread'[u] = thread[u]
             /\ thread'[t] = [i |-> i, at |-> "done"]
             /\ result' = [found |-> TRUE, nonce |-> n]
<1>1. /\ thread \in [Threads -> [i : 0..ChunkSize, at : Step]]
      /\ result \in [found : BOOLEAN, nonce : 0..LastNonce]
  BY DEF IInv, TypeOK, Step
<1>2. /\ thread[t].at = "store" /\ stage = "search"
      /\ result' = [result EXCEPT !.nonce = t * ChunkSize + thread[t].i]
      /\ thread' = [thread EXCEPT ![t].at = "done"]
  BY DEF Store
<1>3. result.found /\ t * ChunkSize + thread[t].i \in solutions
  BY <1>2 DEF IInv, SolutionKept
<1>4. /\ thread' \in [Threads -> [i : 0..ChunkSize, at : Step]]
      /\ \A u \in Threads : u # t => thread'[u] = thread[u]
      /\ thread'[t] = [i |-> thread[t].i, at |-> "done"]
  BY <1>1, <1>2 DEF Step
<1>5. result' = [found |-> TRUE, nonce |-> t * ChunkSize + thread[t].i]
  BY <1>1, <1>2, <1>3
<1> QED
  BY <1>2, <1>3, <1>4, <1>5

LEMMA PollMoves ==
  ASSUME IInv, NEW t \in Threads, Poll(t)
  PROVE  LET i == thread[t].i
         IN  /\ thread[t].at = "poll"
             /\ thread' \in [Threads -> [i : 0..ChunkSize, at : Step]]
             /\ \A u \in Threads : u # t => thread'[u] = thread[u]
             /\ \E at \in {"try", "done"} :
                  /\ thread'[t] = [i |-> i, at |-> at]
                  /\ at = "try" => i < ChunkSize
                  /\ at = "done" => interrupt \/ result.found \/ i = ChunkSize
<1> DEFINE i == thread[t].i
           next == IF result.found \/ interrupt \/ i = ChunkSize
                     THEN "done" ELSE "try"
<1>1. thread \in [Threads -> [i : 0..ChunkSize, at : Step]]
  BY DEF IInv, TypeOK, Step
<1>2. thread[t].at = "poll" /\ thread' = [thread EXCEPT ![t].at = next]
  BY DEF Poll
<1>3. /\ next \in {"try", "done"}
      /\ next = "try" => i # ChunkSize
      /\ next = "done" => interrupt \/ result.found \/ i = ChunkSize
  OBVIOUS
<1> HIDE DEF next
<1>4. /\ thread' \in [Threads -> [i : 0..ChunkSize, at : Step]]
      /\ \A u \in Threads : u # t => thread'[u] = thread[u]
      /\ thread'[t] = [i |-> i, at |-> next]
  BY <1>1, <1>2, <1>3 DEF Step
<1>5. i \in 0..ChunkSize /\ ChunkSize \in Nat
  BY <1>1, Chunks
<1> QED
  BY <1>2, <1>3, <1>4, <1>5

\* The batches begin at 0 and end once NextOffset has wrapped.
LEMMA OffsetMoves ==
  ASSUME TypeOK
  PROVE  /\ NextOffset \in 0..LastNonce
         /\ NextOffset >= Batch => NextOffset = offset + Batch
         /\ NextOffset < Batch => offset + Batch > LastNonce
<1>1. /\ offset \in 0..LastNonce
      /\ LastNonce \in Nat /\ Batch \in Nat \ {0}
  BY MiningAssumption DEF TypeOK
<1> DEFINE s == offset + Batch
           m == LastNonce + 1
<1>2. s \in Nat /\ m \in Nat \ {0} /\ s < m + Batch
  BY <1>1
<1>3. NextOffset = s % m
  BY DEF NextOffset
<1> HIDE DEF s, m
<1>4. s % m \in 0..(m - 1) /\ (s < m => s % m = s) /\ (s >= m => s % m <= s - m)
  BY <1>2
<1> QED
  BY <1>1, <1>2, <1>3, <1>4 DEF s, m

-----------------------------------------------------------------------------
(* Every step keeps the types. *)

LEMMA TypeStep == IInv /\ [Next]_vars => TypeOK'
<1> SUFFICES ASSUME IInv, [Next]_vars PROVE TypeOK'
  OBVIOUS
<1> DEFINE Stages == {"tip", "select", "fees", "subsidy", "mine", "search",
                      "check", "connect", "dead"}
<1>a. TypeOK
  BY DEF IInv
<1>b. /\ MaxHeight \in Nat \ {0} /\ LastNonce \in Nat /\ MaxFailures \in Nat
      /\ Batch \in Nat \ {0} /\ SolutionSets \subseteq SUBSET (0..LastNonce)
  BY MiningAssumption
<1>c. ChunkSize \in Nat \ {0}
  BY Chunks
<1>d. /\ NoDraft \in [prev : Seq(Block), late : BOOLEAN, txs : SUBSET Txs,
                       coinbase : Nat]
      /\ NotFound \in [found : BOOLEAN, nonce : 0..LastNonce]
      /\ Idle \in [Threads -> [i : 0..ChunkSize,
                               at : {"try", "store", "poll", "done"}]]
      /\ <<>> \in Seq(Block) /\ 0 \in 0..LastNonce
  BY <1>b, <1>c DEF NoDraft, NotFound, Idle
<1>1. CASE ReadTip
  <2>1. PICK late \in BOOLEAN :
          draft' = [draft EXCEPT !.prev = chain, !.late = late]
    BY <1>1 DEF ReadTip
  <2>2. draft' \in [prev : Seq(Block), late : BOOLEAN, txs : SUBSET Txs,
                    coinbase : Nat]
    BY <1>a, <2>1 DEF TypeOK
  <2> QED
    BY <1>1, <1>a, <2>2 DEF ReadTip, TypeOK, nodeVars, searchVars
<1>2. CASE Select
  BY <1>2, <1>a DEF Select, Picked, Unlocked, TypeOK, nodeVars, searchVars
<1>3. CASE ReadFees
  <2>1. BlockFees(draft.txs) \in Nat
    BY <1>a, MoneyTyped, MoneyOnTheTip DEF TypeOK
  <2> QED
    BY <1>3, <1>a, <2>1 DEF ReadFees, TypeOK, nodeVars, searchVars
<1>4. CASE MakeCoinbase
  <2>1. Subsidy \in Nat
    BY <1>a, MoneyTyped, MoneyOnTheTip DEF TypeOK
  <2>2. draft \in [prev : Seq(Block), late : BOOLEAN, txs : SUBSET Txs,
                   coinbase : Nat]
    BY <1>a DEF TypeOK
  <2>3. draft.coinbase + Subsidy \in Nat
    BY <2>1, <2>2
  <2>4. draft' = [draft EXCEPT !.coinbase = draft.coinbase + Subsidy]
    BY <1>4 DEF MakeCoinbase, WithSubsidy
  <2>5. draft' \in [prev : Seq(Block), late : BOOLEAN, txs : SUBSET Txs,
                   coinbase : Nat]
    BY <2>2, <2>3, <2>4
  <2> QED
    BY <1>4, <1>a, <2>5 DEF MakeCoinbase, TypeOK, nodeVars, searchVars
<1>5. CASE StartSearch
  <2>1. thread' \in [Threads -> [i : 0..ChunkSize,
                                 at : {"try", "store", "poll", "done"}]]
    BY <1>5, <1>c DEF StartSearch, Idle
  <2>2. NotFound \in [found : BOOLEAN, nonce : 0..LastNonce]
    BY <1>b DEF NotFound
  <2>3. /\ solutions' \subseteq 0..LastNonce /\ offset' \in 0..LastNonce
        /\ result' \in [found : BOOLEAN, nonce : 0..LastNonce]
    BY <1>5, <1>b, <2>2 DEF StartSearch
  <2> QED
    BY <1>5, <1>a, <2>1, <2>3 DEF StartSearch, TypeOK, minerVars, nodeVars
<1>6. ASSUME NEW t \in Threads, CpuThread(t)
      PROVE  TypeOK'
  <2> DEFINE Threaded == thread' \in [Threads -> [i : 0..ChunkSize, at : Step]]
             Resulted == result' \in [found : BOOLEAN, nonce : 0..LastNonce]
  <2>1. CASE Try(t)
    <3>1. Threaded
      BY <2>1, TryMoves
    <3>2. result' = result \/ result' = [found |-> TRUE, nonce |-> result.nonce]
      BY <2>1, TryMoves
    <3>3. result \in [found : BOOLEAN, nonce : 0..LastNonce]
      BY <1>a DEF TypeOK
    <3>4. \A n \in 0..LastNonce :
            [found |-> TRUE, nonce |-> n] \in [found : BOOLEAN, nonce : 0..LastNonce]
      OBVIOUS
    <3>5. Resulted
      BY <3>2, <3>3, <3>4
    <3> QED
      BY <2>1, <3>1, <3>5, <1>a DEF Try, TypeOK, minerVars, nodeVars, Step
  <2>2. CASE Store(t)
    <3>1. Threaded
      BY <2>2, StoreMoves
    <3>2. PICK n \in solutions : result' = [found |-> TRUE, nonce |-> n]
      BY <2>2, StoreMoves
    <3>3. solutions \subseteq 0..LastNonce
      BY <1>a DEF TypeOK
    <3>4. \A m \in 0..LastNonce :
            [found |-> TRUE, nonce |-> m] \in [found : BOOLEAN, nonce : 0..LastNonce]
      OBVIOUS
    <3>5. Resulted
      BY <3>2, <3>3, <3>4
    <3> QED
      BY <2>2, <3>1, <3>5, <1>a DEF Store, TypeOK, minerVars, nodeVars, Step
  <2>3. CASE Poll(t)
    <3>1. Threaded
      BY <2>3, PollMoves
    <3> QED
      BY <2>3, <3>1, <1>a DEF Poll, TypeOK, minerVars, nodeVars, Step
  <2> QED
    BY <1>6, <2>1, <2>2, <2>3 DEF CpuThread
<1>7. CASE Join
  BY <1>7, <1>a DEF Join, TypeOK, minerVars, nodeVars, searchVars
<1>8. CASE RunBatch
  <2>1. NextOffset \in 0..LastNonce
    BY <1>a, OffsetMoves
  <2>2. \/ result' = result
        \/ \E n \in solutions : result' = [found |-> TRUE, nonce |-> n]
    BY <1>8 DEF RunBatch
  <2>3. result' \in [found : BOOLEAN, nonce : 0..LastNonce]
    <3>1. /\ solutions \subseteq 0..LastNonce
          /\ result \in [found : BOOLEAN, nonce : 0..LastNonce]
      BY <1>a DEF TypeOK
    <3>2. \A n \in solutions :
            [found |-> TRUE, nonce |-> n] \in [found : BOOLEAN, nonce : 0..LastNonce]
      BY <3>1
    <3> QED
      BY <2>2, <3>1, <3>2
  <2> QED
    BY <1>8, <1>a, <1>b, <2>1, <2>3 DEF RunBatch, TypeOK, minerVars, nodeVars
<1>9. CASE CudaFails
  BY <1>9, <1>a, <1>b DEF CudaFails, TypeOK, minerVars, nodeVars
<1>10. CASE GpuInterrupted
  BY <1>10, <1>a DEF GpuInterrupted, TypeOK, minerVars, nodeVars, searchVars
<1>11. CASE CheckResult
  <2>1. CASE UNCHANGED <<minerVars, solutions, result>>
    BY <1>11, <1>a, <1>d, <2>1
    DEF CheckResult, RoundEnds, SearchEnds, TypeOK, nodeVars, minerVars
  <2>2. CASE RoundEnds
    BY <1>11, <1>a, <1>d, <2>2
    DEF CheckResult, RoundEnds, SearchEnds, TypeOK, nodeVars
  <2> QED
    BY <1>11, <2>1, <2>2 DEF CheckResult
<1>12. CASE ConnectOwn
  <2>1. /\ chain' \in Seq(Block) /\ Len(chain') \in 1..MaxHeight
        /\ pool' \subseteq Txs
    <3>1. CASE chain' = chain
      BY <1>12, <3>1, <1>a DEF ConnectOwn, TypeOK, nodeVars
    <3>2. CASE chain' # chain
      <4>1. draft.prev = chain /\ stage = "connect" /\ Len(chain) < MaxHeight
        BY <1>12, <3>2 DEF ConnectOwn, nodeVars, IInv, DraftBehind
      <4> QED
        BY <1>12, <3>2, <4>1, <1>a, <1>b, GrowthTyped, SMTT(40) DEF TypeOK
    <3> QED
      BY <3>1, <3>2
  <2>2. /\ UNCHANGED <<reorg, backend>> /\ interrupt' \in BOOLEAN
        /\ RoundEnds
    BY <1>12, <1>a DEF ConnectOwn, TypeOK, nodeVars
  <2> QED
    BY <1>a, <1>d, <2>1, <2>2 DEF RoundEnds, SearchEnds, TypeOK
<1>13. CASE PeerBlock
  <2>1. /\ chain' \in Seq(Block) /\ Len(chain') \in 1..MaxHeight
        /\ pool' \subseteq Txs
    <3>1. CASE chain' = chain
      BY <1>13, <3>1, <1>a DEF PeerBlock, TypeOK
    <3>2. CASE chain' # chain
      BY <1>13, <3>2, <1>a, <1>b, GrowthTyped DEF PeerBlock, TypeOK
    <3> QED
      BY <3>1, <3>2
  <2> QED
    BY <1>13, <1>a, <2>1 DEF PeerBlock, Interrupts, TypeOK, minerVars, searchVars
<1>14. CASE PeerReorg
  <2>1. /\ chain' \in Seq(Block) /\ Len(chain') \in 1..MaxHeight
        /\ pool' \subseteq Txs
        /\ reorg' \in [at : {"none", "fork", "half", "back"}, from : Seq(Block)]
    BY <1>14, <1>a, ReorgMoves DEF IInv
  <2>2. /\ UNCHANGED <<stage, minerVars, backend, searchVars, since>>
        /\ interrupt' \in BOOLEAN
    BY <1>14, <1>a
    DEF PeerReorg, ReorgStarts, ReorgConnects, ReorgFails, ReorgRollsBack,
        Interrupts, TypeOK
  <2> QED
    BY <1>a, <2>1, <2>2 DEF TypeOK, minerVars, searchVars
<1>15. CASE AddTx
  BY <1>15, <1>a DEF AddTx, TypeOK, minerVars, searchVars
<1>16. CASE UNCHANGED vars
  BY <1>16, <1>a DEF vars, nodeVars, minerVars, searchVars, TypeOK
<1> QED
  BY <1>1, <1>2, <1>3, <1>4, <1>5, <1>6, <1>7, <1>8, <1>9, <1>10, <1>11,
     <1>12, <1>13, <1>14, <1>15, <1>16
  DEF Next, Miner, Assemble, Gpu, IoThread

-----------------------------------------------------------------------------
(* What the miner has read, while blocks arrive. *)

DraftInv == ReorgShape /\ DraftBehind /\ DraftCurrent /\ InterruptSeen

\* Whoever makes the base longer leaves the draft behind and is seen.
LEMMA BaseMoves ==
  ASSUME IInv, Len(Base') = Len(Base) + 1, interrupt', ReorgShape',
         UNCHANGED <<stage, draft>> \/ stage' = "tip"
  PROVE  DraftInv'
<1>1. Len(Base) \in Nat
  BY LenProperties DEF IInv, TypeOK, Base
<1>2. CASE stage' = "tip"
  BY <1>2 DEF DraftInv, DraftBehind, DraftCurrent, InterruptSeen, Assembled
<1>3. CASE UNCHANGED <<stage, draft>> /\ stage \in {"tip", "dead"}
  BY <1>3 DEF DraftInv, DraftBehind, DraftCurrent, InterruptSeen, Assembled
<1>4. CASE UNCHANGED <<stage, draft>> /\ stage \notin {"tip", "dead"}
  <2>1. Len(draft.prev) \in Nat
    BY LenProperties DEF IInv, TypeOK
  <2>2. Len(draft.prev) < Len(Base') /\ Len(draft.prev) < MaxHeight
    BY <1>1, <1>4, <2>1 DEF IInv, DraftBehind
  <2>3. draft'.prev # Base' /\ Len(draft'.prev) <= Len(Base')
    BY <1>1, <1>4, <2>1, <2>2
  <2> QED
    BY <1>4, <2>2, <2>3
    DEF DraftInv, DraftBehind, DraftCurrent, InterruptSeen
<1> QED
  BY <1>2, <1>3, <1>4

\* The draft stays as it is and so does the base.
LEMMA BaseStays ==
  ASSUME IInv, Base' = Base, ReorgShape', UNCHANGED <<stage, minerVars>>,
         ~Unlocked' \/ interrupt' \/ UNCHANGED <<chain, reorg, interrupt, since>>
  PROVE  DraftInv'
<1>1. UNCHANGED <<stage, draft, inside>>
  BY DEF minerVars
<1>2. DraftBehind'
  BY <1>1 DEF IInv, DraftBehind
<1>3. DraftCurrent'
  BY <1>1 DEF IInv, DraftCurrent, Assembled
<1>4. InterruptSeen'
  BY <1>1 DEF IInv, InterruptSeen, Unlocked
<1> QED
  BY <1>2, <1>3, <1>4 DEF DraftInv

\* What is read inside a reorganisation leaves out fees.
LEMMA FeesLeftOut ==
  ASSUME NEW c, NEW d, NEW txs \in SUBSET Txs,
         \A t \in txs : Coin[t] \notin Spent(d)
  PROVE  FeesOn(c, txs) <= FeesOn(d, txs)
<1>1. {t \in txs : Coin[t] \notin Spent(d)} = txs
  OBVIOUS
<1>2. IsFiniteSet(txs) /\ \A t \in txs : Fee[t] \in Nat
  BY MiningAssumption, FS_Subset
<1> DEFINE S == {t \in txs : Coin[t] \notin Spent(c)}
<1>3. S \in SUBSET txs
  OBVIOUS
<1>4. SumOver(Fee, S) <= SumOver(Fee, txs)
  BY <1>2, <1>3, SumGrows
<1> QED
  BY <1>1, <1>4 DEF FeesOn

LEMMA DraftStep == IInv /\ [Next]_vars => DraftInv'
<1> SUFFICES ASSUME IInv, [Next]_vars PROVE DraftInv'
  OBVIOUS
<1> USE DEF DraftInv
<1>a. TypeOK /\ ReorgShape /\ DraftBehind /\ DraftCurrent /\ InterruptSeen
  BY DEF IInv
<1>b. Len(Base) \in Nat /\ Len(draft.prev) \in Nat
  BY <1>a, LenProperties DEF TypeOK, Base
<1>c. UNCHANGED <<chain, reorg>> => Base' = Base /\ ReorgShape'
  BY <1>a DEF Base, Unlocked, ReorgShape
<1>1. CASE ReadTip
  <2>1. /\ stage' = "select" /\ Unlocked /\ Len(chain) < MaxHeight
        /\ UNCHANGED <<chain, reorg>>
        /\ \E late \in BOOLEAN :
             draft' = [draft EXCEPT !.prev = chain, !.late = late]
    BY <1>1 DEF ReadTip, nodeVars
  <2>2. draft'.prev = chain /\ Base = chain
    BY <2>1, <1>a DEF TypeOK, Base
  <2> QED
    BY <1>b, <1>c, <2>1, <2>2
    DEF DraftBehind, DraftCurrent, InterruptSeen, Assembled
<1>2. CASE Select
  <2>1. /\ draft' = [draft EXCEPT !.txs = Picked] /\ inside' = ~Unlocked
        /\ UNCHANGED <<chain, reorg>>
        /\ stage = "select" /\ stage' \in {"fees", "dead"}
    BY <1>2 DEF Select, nodeVars
  <2>2. draft'.prev = draft.prev /\ draft'.txs = Picked
    BY <2>1, <1>a DEF TypeOK
  <2>3. \A t \in Picked : Coin[t] \notin Spent(chain)
    BY DEF Picked, Unspent
  <2>4. DraftBehind'
    BY <1>a, <1>c, <2>1, <2>2 DEF DraftBehind
  <2>5. ~inside' => Base = chain
    BY <2>1 DEF Base
  <2>6. DraftCurrent'
    BY <1>c, <2>1, <2>2, <2>3, <2>5 DEF DraftCurrent, Assembled
  <2> QED
    BY <1>c, <2>1, <2>4, <2>6 DEF InterruptSeen
<1>3. CASE ReadFees
  <2>1. /\ draft' = [draft EXCEPT !.coinbase = BlockFees(draft.txs)]
        /\ UNCHANGED <<chain, reorg, inside>>
        /\ stage = "fees" /\ stage' = "subsidy"
    BY <1>3 DEF ReadFees, nodeVars
  <2>2. /\ draft'.prev = draft.prev /\ draft'.txs = draft.txs
        /\ draft'.coinbase = FeesOn(chain, draft.txs)
        /\ draft.txs \in SUBSET Txs
    BY <2>1, <1>a, MoneyOnTheTip DEF TypeOK
  <2>3. DraftBehind'
    BY <1>a, <1>c, <2>1, <2>2 DEF DraftBehind
  <2>4. ASSUME draft.prev = Base, ~inside
        PROVE  /\ \A t \in draft.txs : Coin[t] \notin Spent(Base)
               /\ draft'.coinbase <= FeesOn(Base, draft.txs)
    <3>1. \A t \in draft.txs : Coin[t] \notin Spent(Base)
      BY <1>a, <2>1, <2>4 DEF DraftCurrent
    <3> QED
      BY <2>2, <3>1, FeesLeftOut
  <2>5. DraftCurrent'
    BY <1>c, <2>1, <2>2, <2>4 DEF DraftCurrent, Assembled
  <2> QED
    BY <1>c, <2>1, <2>3, <2>5 DEF InterruptSeen
<1>4. CASE MakeCoinbase
  <2>1. /\ draft' = [draft EXCEPT !.coinbase = @ + Subsidy]
        /\ UNCHANGED <<chain, reorg, inside>> /\ Unlocked
        /\ stage = "subsidy" /\ stage' \in {"dead", "mine"}
    BY <1>4 DEF MakeCoinbase, WithSubsidy, nodeVars
  <2>2. /\ draft'.prev = draft.prev /\ draft'.txs = draft.txs
        /\ draft'.coinbase = draft.coinbase + SubsidyAt(Len(Base))
        /\ draft.txs \in SUBSET Txs
    BY <2>1, <1>a, MoneyOnTheTip DEF TypeOK, Base
  <2>3. /\ draft.coinbase \in Nat /\ SubsidyAt(Len(Base)) \in Nat
        /\ FeesOn(Base, draft.txs) \in Nat
    BY <1>a, <1>b, <2>2, MoneyTyped DEF TypeOK
  <2>4. DraftBehind'
    BY <1>a, <1>c, <2>1, <2>2 DEF DraftBehind
  <2>5. ASSUME draft.prev = Base, ~inside
        PROVE  /\ \A t \in draft.txs : Coin[t] \notin Spent(Base)
               /\ draft'.coinbase <= SubsidyAt(Len(Base)) + FeesOn(Base, draft.txs)
    <3>1. /\ \A t \in draft.txs : Coin[t] \notin Spent(Base)
          /\ draft.coinbase <= FeesOn(Base, draft.txs)
      BY <1>a, <2>1, <2>5 DEF DraftCurrent
    <3> QED
      BY <2>2, <2>3, <3>1
  <2>6. DraftCurrent'
    BY <1>c, <2>1, <2>2, <2>5 DEF DraftCurrent, Assembled
  <2> QED
    BY <1>c, <2>1, <2>4, <2>6 DEF InterruptSeen
<1>5. CASE StartSearch
  <2>1. /\ UNCHANGED <<chain, reorg, draft, inside>>
        /\ stage = "mine" /\ stage' = "search" /\ since' = chain
    BY <1>5 DEF StartSearch, nodeVars, minerVars
  <2>2. DraftBehind' /\ DraftCurrent'
    BY <1>a, <1>c, <2>1 DEF DraftBehind, DraftCurrent, Assembled
  <2> QED
    BY <1>c, <2>1, <2>2 DEF InterruptSeen
<1>6. ASSUME UNCHANGED <<nodeVars, minerVars, interrupt, since>>,
             stage = "search", stage' \in {"search", "check"}
      PROVE  DraftInv'
  <2>1. UNCHANGED <<chain, reorg, draft, inside>>
    BY <1>6 DEF nodeVars, minerVars
  <2>2. DraftBehind' /\ DraftCurrent'
    BY <1>a, <1>c, <1>6, <2>1 DEF DraftBehind, DraftCurrent, Assembled
  <2>3. InterruptSeen'
    BY <1>a, <1>6, <2>1 DEF InterruptSeen, Unlocked
  <2> QED
    BY <1>c, <2>1, <2>2, <2>3
<1>7. CASE \E t \in Threads : CpuThread(t)
  BY <1>6, <1>7 DEF CpuThread, Try, Store, Poll
<1>8. CASE Join \/ GpuInterrupted \/ CudaFails
  BY <1>6, <1>8 DEF Join, GpuInterrupted, CudaFails
<1>9. CASE RunBatch
  BY <1>6, <1>9 DEF RunBatch
<1>10. CASE CheckResult
  <2>1. /\ UNCHANGED <<chain, reorg>> /\ stage = "check"
        /\ \/ stage' = "connect" /\ UNCHANGED <<draft, inside>>
           \/ stage' = "tip"
    BY <1>10 DEF CheckResult, RoundEnds, nodeVars, minerVars
  <2>2. DraftBehind' /\ DraftCurrent'
    BY <1>a, <1>c, <2>1 DEF DraftBehind, DraftCurrent, Assembled
  <2> QED
    BY <1>c, <2>1, <2>2 DEF InterruptSeen
<1>11. CASE ConnectOwn
  <2>1. stage' = "tip" /\ Unlocked /\ UNCHANGED reorg
    BY <1>11 DEF ConnectOwn, RoundEnds, nodeVars
  <2>2. ReorgShape'
    BY <2>1 DEF ReorgShape, Unlocked
  <2> QED
    BY <2>1, <2>2 DEF DraftBehind, DraftCurrent, InterruptSeen, Assembled
<1>12. CASE PeerBlock
  <2>1. UNCHANGED <<reorg, stage, draft>> /\ interrupt' /\ Unlocked
    BY <1>12 DEF PeerBlock, Interrupts, minerVars
  <2>2. PICK S \in Bodies(chain) : chain' = Appended(chain, [by |-> "peer", txs |-> S])
    BY <1>12 DEF PeerBlock
  <2>3. Len(chain') = Len(chain) + 1
    BY <1>a, <2>2, AppendedTyped, BodiesTyped DEF TypeOK
  <2>4. Base = chain /\ Base' = chain' /\ ReorgShape'
    BY <2>1 DEF Base, ReorgShape, Unlocked
  <2>5. Len(Base') = Len(Base) + 1
    BY <2>3, <2>4
  <2> QED
    BY <2>1, <2>4, <2>5, BaseMoves
<1>13. CASE PeerReorg
  <2>1. UNCHANGED <<stage, minerVars>>
    BY <1>13
    DEF PeerReorg, ReorgStarts, ReorgConnects, ReorgFails, ReorgRollsBack
  <2>2. UNCHANGED <<stage, draft>>
    BY <2>1 DEF minerVars
  <2>3. /\ ReorgShape'
        /\ \/ Base' = Base /\ ~Unlocked'
           \/ Base' = Base /\ Unlocked' /\ interrupt'
           \/ Len(Base') = Len(Base) + 1 /\ interrupt'
    BY <1>13, <1>a, ReorgMoves
  <2> QED
    BY <2>1, <2>2, <2>3, BaseMoves, BaseStays
<1>14. CASE AddTx \/ UNCHANGED vars
  <2>1. UNCHANGED <<chain, reorg, interrupt, since, stage, minerVars>>
    BY <1>14 DEF AddTx, vars, nodeVars, minerVars
  <2> QED
    BY <1>c, <2>1, BaseStays
<1> QED
  BY <1>1, <1>2, <1>3, <1>4, <1>5, <1>7, <1>8, <1>9, <1>10, <1>11, <1>12,
     <1>13, <1>14
  DEF Next, Miner, Assemble, Gpu, IoThread

-----------------------------------------------------------------------------
(* How far the search is, and what it has found. *)

SearchInv == SolutionKept /\ ThreadsSwept /\ BatchesSwept

LEMMA TryStep ==
  ASSUME IInv, NEW t \in Threads, Try(t)
  PROVE  SearchInv'
<1> DEFINE i == thread[t].i
           n == t * ChunkSize + i
<1>1. /\ stage = "search" /\ backend = "cpu"
      /\ UNCHANGED <<stage, backend, solutions, interrupt>>
  BY CpuRuns DEF CpuThread, Try
<1>2. /\ thread[t].at = "try" /\ i \in 0..(ChunkSize - 1)
      /\ \A u \in Threads : u # t => thread'[u] = thread[u]
      /\ ChunkSize \in Nat \ {0}
  BY TryMoves, Chunks
<1>3. SolutionKept /\ ThreadsSwept
  BY DEF IInv
<1>4. CASE /\ n \in solutions
           /\ thread'[t] = [i |-> i, at |-> "store"]
           /\ result' = [found |-> TRUE, nonce |-> result.nonce]
  <2>1. SolutionKept'
    BY <1>1, <1>2, <1>3, <1>4 DEF SolutionKept
  <2>2. ThreadsSwept'
    BY <1>1, <1>2, <1>3, <1>4 DEF ThreadsSwept
  <2> QED
    BY <1>1, <2>1, <2>2 DEF SearchInv, BatchesSwept
<1>5. ASSUME n \notin solutions, NEW at \in {"try", "poll", "done"},
             thread'[t] = [i |-> i + 1, at |-> at],
             at = "try" => i + 1 < ChunkSize,
             at = "done" => i + 1 = ChunkSize,
             result' = result
      PROVE  SearchInv'
  <2>1. SolutionKept'
    BY <1>1, <1>2, <1>3, <1>5 DEF SolutionKept
  <2>2. ThreadsSwept'
    <3>1. ASSUME NEW j \in 0..((i + 1) - 1)
          PROVE  t * ChunkSize + j \notin solutions
      <4>1. j \in 0..(i - 1) \/ j = i
        BY <1>2
      <4> QED
        BY <1>1, <1>3, <1>5, <4>1 DEF ThreadsSwept
    <3> QED
      BY <1>1, <1>2, <1>3, <1>5, <3>1 DEF ThreadsSwept
  <2> QED
    BY <1>1, <2>1, <2>2 DEF SearchInv, BatchesSwept
<1> QED
  BY <1>4, <1>5, TryMoves

LEMMA StoreStep ==
  ASSUME IInv, NEW t \in Threads, Store(t)
  PROVE  SearchInv'
<1>1. /\ stage = "search" /\ backend = "cpu"
      /\ UNCHANGED <<stage, backend, solutions, interrupt>>
  BY CpuRuns DEF CpuThread, Store
<1>2. /\ thread[t].at = "store" /\ t * ChunkSize + thread[t].i \in solutions
      /\ \A u \in Threads : u # t => thread'[u] = thread[u]
      /\ thread'[t] = [i |-> thread[t].i, at |-> "done"]
      /\ result' = [found |-> TRUE, nonce |-> t * ChunkSize + thread[t].i]
  BY StoreMoves
<1>3. SolutionKept /\ ThreadsSwept
  BY DEF IInv
<1>4. SolutionKept'
  BY <1>1, <1>2, <1>3 DEF SolutionKept
<1>5. ThreadsSwept'
  BY <1>1, <1>2, <1>3 DEF ThreadsSwept
<1> QED
  BY <1>1, <1>4, <1>5 DEF SearchInv, BatchesSwept

LEMMA PollStep ==
  ASSUME IInv, NEW t \in Threads, Poll(t)
  PROVE  SearchInv'
<1>1. /\ stage = "search" /\ backend = "cpu"
      /\ UNCHANGED <<stage, backend, solutions, interrupt, result>>
  BY CpuRuns DEF CpuThread, Poll
<1>2. /\ thread[t].at = "poll"
      /\ \A u \in Threads : u # t => thread'[u] = thread[u]
  BY PollMoves
<1>3. PICK at \in {"try", "done"} :
        /\ thread'[t] = [i |-> thread[t].i, at |-> at]
        /\ at = "try" => thread[t].i < ChunkSize
        /\ at = "done" => interrupt \/ result.found \/ thread[t].i = ChunkSize
  BY PollMoves
<1>4. SolutionKept /\ ThreadsSwept
  BY DEF IInv
<1>5. SolutionKept'
  BY <1>1, <1>2, <1>3, <1>4 DEF SolutionKept
<1>6. ThreadsSwept'
  BY <1>1, <1>2, <1>3, <1>4 DEF ThreadsSwept
<1> QED
  BY <1>1, <1>5, <1>6 DEF SearchInv, BatchesSwept

LEMMA BatchStep ==
  ASSUME IInv, RunBatch
  PROVE  SearchInv'
<1> DEFINE hits == solutions \cap offset..(offset + Batch - 1)
<1>1. /\ stage = "search" /\ backend # "cpu" /\ ~interrupt
      /\ UNCHANGED <<backend, interrupt, solutions, thread>>
      /\ \/ \E n \in hits : result' = [found |-> TRUE, nonce |-> n]
         \/ result' = result
      /\ failures' = IF hits # {} /\ ~result'.found THEN failures + 1
                                                    ELSE failures
      /\ offset' = IF result'.found THEN offset ELSE NextOffset
      /\ stage' = IF result'.found \/ NextOffset < Batch
                    THEN "check" ELSE "search"
  BY DEF RunBatch
<1>2. /\ offset \in 0..LastNonce /\ solutions \subseteq 0..LastNonce
      /\ failures \in Nat /\ LastNonce \in Nat /\ Batch \in Nat \ {0}
  BY MiningAssumption DEF IInv, TypeOK
<1>3. ~result.found /\ thread = Idle /\ BatchesSwept
  BY <1>1 DEF IInv, BatchesSwept
<1>4. CASE \E n \in hits : result' = [found |-> TRUE, nonce |-> n]
  <2>1. result'.found /\ result'.nonce \in solutions /\ stage' = "check"
    BY <1>1, <1>4
  <2> QED
    BY <1>1, <2>1
    DEF SearchInv, SolutionKept, ThreadsSwept, BatchesSwept
<1>5. CASE result' = result
  <2>1. ~result'.found /\ (failures' = 0 => hits = {} /\ failures = 0)
        /\ offset' = NextOffset
        /\ stage' = IF NextOffset < Batch THEN "check" ELSE "search"
    BY <1>1, <1>2, <1>3, <1>5
  <2>2. failures' = 0 => \A n \in solutions : n >= offset + Batch
    <3>1. SUFFICES ASSUME failures' = 0, NEW n \in solutions
                   PROVE  n >= offset + Batch
      OBVIOUS
    <3>2. n \in Nat /\ offset <= n /\ n \notin hits
      BY <1>1, <1>2, <1>3, <2>1, <3>1 DEF BatchesSwept
    <3> QED
      BY <1>2, <3>2
  <2>3. CASE NextOffset >= Batch
    <3>1. NextOffset = offset + Batch /\ NextOffset \in 0..LastNonce
      BY <2>3, OffsetMoves DEF IInv
    <3>2. stage' = "search" /\ offset' = offset + Batch
      BY <1>2, <2>1, <2>3, <3>1
    <3>3. \A t \in Threads : thread[t].at = "done"
      BY <1>3 DEF Idle
    <3>4. SolutionKept'
      BY <1>1, <2>1, <3>2, <3>3 DEF SolutionKept
    <3>5. BatchesSwept'
      BY <1>1, <1>2, <1>3, <2>1, <2>2, <3>2 DEF BatchesSwept, Idle
    <3> QED
      BY <1>1, <3>4, <3>5 DEF SearchInv, ThreadsSwept
  <2>4. CASE NextOffset < Batch
    <3>1. offset + Batch > LastNonce
      BY <2>4, OffsetMoves DEF IInv
    <3>2. stage' = "check"
      BY <2>1, <2>4
    <3>3. failures' = 0 => solutions = {}
      BY <1>2, <2>2, <3>1
    <3> QED
      BY <1>1, <2>1, <3>2, <3>3
      DEF SearchInv, SolutionKept, ThreadsSwept, BatchesSwept
  <2> QED
    BY <1>2, <2>3, <2>4, OffsetMoves DEF IInv
<1> QED
  BY <1>1, <1>4, <1>5

LEMMA SearchStep == IInv /\ [Next]_vars => SearchInv'
<1> SUFFICES ASSUME IInv, [Next]_vars PROVE SearchInv'
  OBVIOUS
<1>a. TypeOK /\ SearchInv
  BY DEF IInv, SearchInv
<1>b. ChunkSize \in Nat \ {0}
  BY Chunks
<1> USE DEF SearchInv
<1>1. CASE stage' \notin {"search", "check", "connect"}
  BY <1>1 DEF SolutionKept, ThreadsSwept, BatchesSwept
<1>2. CASE StartSearch
  <2>1. /\ backend' = backend /\ stage' = "search"
        /\ thread' = IF backend = "cpu"
                       THEN [t \in Threads |-> [i |-> 0, at |-> "try"]]
                       ELSE Idle
        /\ result' = NotFound /\ offset' = 0
        /\ solutions' \subseteq 0..LastNonce
    BY <1>2, MiningAssumption DEF StartSearch
  <2>2. \A t \in Threads : thread'[t].at \in {"try", "done"} /\ thread'[t].i = 0
    BY <2>1 DEF Idle
  <2>3. ~result'.found
    BY <2>1 DEF NotFound
  <2>4. SolutionKept'
    BY <2>1, <2>2, <2>3 DEF SolutionKept
  <2>5. ThreadsSwept'
    BY <1>b, <2>1 DEF ThreadsSwept
  <2>6. BatchesSwept'
    <3>1. \A n \in solutions' : 0 <= n
      BY <2>1
    <3> QED
      BY <2>1, <2>3, <3>1 DEF BatchesSwept, Idle
  <2> QED
    BY <2>4, <2>5, <2>6
<1>3. CASE \E t \in Threads : CpuThread(t)
  BY <1>3, TryStep, StoreStep, PollStep DEF CpuThread
<1>4. CASE Join
  <2>1. /\ UNCHANGED <<interrupt, backend, solutions, thread, result>>
        /\ stage = "search" /\ stage' = "check" /\ backend = "cpu"
        /\ \A t \in Threads : thread[t].at = "done"
    BY <1>4 DEF Join, Joined, searchVars
  <2>2. SolutionKept'
    BY <1>a, <2>1 DEF SolutionKept
  <2>3. ThreadsSwept'
    BY <1>a, <2>1 DEF ThreadsSwept
  <2> QED
    BY <2>1, <2>2, <2>3 DEF BatchesSwept
<1>5. CASE RunBatch
  BY <1>5, BatchStep
<1>6. CASE CudaFails \/ GpuInterrupted
  <2>1. /\ UNCHANGED <<interrupt, backend, solutions, thread, result>>
        /\ stage = "search" /\ stage' = "check" /\ backend # "cpu"
        /\ failures' = failures + 1 \/ interrupt
    BY <1>6 DEF CudaFails, GpuInterrupted, searchVars
  <2>2. ~result.found /\ failures + 1 # 0
    BY <1>a, <2>1, MiningAssumption DEF BatchesSwept, TypeOK
  <2> QED
    BY <2>1, <2>2 DEF SolutionKept, ThreadsSwept, BatchesSwept
<1>7. CASE CheckResult /\ stage' = "connect"
  <2>1. /\ stage = "check" /\ result.found /\ UNCHANGED <<solutions, result>>
    BY <1>7 DEF CheckResult, RoundEnds
  <2> QED
    BY <1>a, <1>7, <2>1 DEF SolutionKept, ThreadsSwept, BatchesSwept
<1>8. CASE \/ PeerBlock \/ PeerReorg \/ AddTx \/ UNCHANGED vars
  <2>1. /\ UNCHANGED <<stage, backend, solutions, thread, result, offset, failures>>
        /\ interrupt => interrupt'
    BY <1>8
    DEF PeerBlock, PeerReorg, ReorgStarts, ReorgConnects, ReorgFails,
        ReorgRollsBack, Interrupts, AddTx, vars, searchVars
  <2>2. SolutionKept'
    BY <1>a, <2>1 DEF SolutionKept
  <2>3. ThreadsSwept'
    BY <1>a, <2>1 DEF ThreadsSwept
  <2>4. BatchesSwept'
    BY <1>a, <2>1 DEF BatchesSwept, Idle
  <2> QED
    BY <2>2, <2>3, <2>4
<1>9. Assemble \/ ConnectOwn \/ (CheckResult /\ stage' # "connect")
        => stage' \notin {"search", "check", "connect"}
  BY DEF Assemble, ReadTip, Select, ReadFees, MakeCoinbase, ConnectOwn,
         CheckResult, RoundEnds
<1> QED
  BY <1>1, <1>2, <1>3, <1>4, <1>5, <1>6, <1>7, <1>8, <1>9
  DEF Next, Miner, Gpu, IoThread

-----------------------------------------------------------------------------
(* The theorems. *)

\* The inductive invariant holds in every state of the miner, the threads of
\* its backend and the io thread.
THEOREM Invariance == Spec => []IInv
<1>1. IInv /\ [Next]_vars => IInv'
  BY TypeStep, DraftStep, SearchStep DEF IInv, DraftInv, SearchInv
<1> QED
  BY InitIInv, <1>1, PTL DEF Spec

\* The variables of the miner, of its backend and of the node have their
\* types: among others found_nonce, nonce_offset and the next try of each
\* mine_chunk stay inside the 64-bit numbers and the chunk.
THEOREM TypeCorrect == Spec => []TypeOK
<1>1. IInv => TypeOK
  BY DEF IInv
<1> QED
  BY <1>1, Invariance, PTL

\* PoW::mine hands on only a nonce that solves the header, although mine_chunk
\* sets the flag before it stores the nonce and several threads may do so.
THEOREM SolutionsAreValid == Spec => []SolutionIsValid
<1>1. IInv => SolutionIsValid
  BY DEF IInv, SolutionKept, SolutionIsValid
<1> QED
  BY <1>1, Invariance, PTL

\* "No nonce satisfies required bits" is said only when none does: the chunks
\* of the threads and the batches of the GPU leave out no nonce but the last
\* few, whatever the number of threads and the size of a batch.
THEOREM ExhaustionHonest == Spec => []ExhaustionIsHonest
<1>1. ASSUME IInv
      PROVE  ExhaustionIsHonest
  <2>1. SUFFICES ASSUME stage = "check", ~interrupt, ~result.found, failures = 0
                 PROVE  solutions \cap Covered = {}
    BY DEF ExhaustionIsHonest
  <2>2. CASE backend # "cpu"
    BY <1>1, <2>1, <2>2 DEF IInv, BatchesSwept
  <2>3. CASE backend = "cpu"
    <3>1. SUFFICES ASSUME NEW n \in solutions, n \in 0..(LastNonce - N)
                   PROVE  FALSE
      BY <2>3 DEF Covered, N
    <3>2. PICK t \in Threads, i \in 0..(ChunkSize - 1) : n = t * ChunkSize + i
      BY <3>1, Chunks
    <3>3. thread[t].i = ChunkSize
      BY <1>1, <2>1, <2>3 DEF IInv, ThreadsSwept
    <3> QED
      BY <1>1, <2>1, <2>3, <3>1, <3>2, <3>3 DEF IInv, ThreadsSwept
  <2> QED
    BY <2>2, <2>3
<1> QED
  BY <1>1, Invariance, PTL

\* assemble_and_solve_block reads the tip, the transactions, the fees and the
\* subsidy in critical sections of their own, beside blocks that arrive and
\* reorganisations that succeed or are rolled back; still validate_block
\* accepts the block if its tip is the tip when it connects, its timestamp is
\* not late and its transactions were not picked inside a reorganisation.
THEOREM OwnBlocksValid == Spec => []OwnBlockValid
<1>1. ASSUME IInv
      PROVE  OwnBlockValid
  <2>1. SUFFICES ASSUME stage = "connect", Unlocked, draft.prev = chain,
                        ~inside, ~draft.late
                 PROVE  Acceptable(draft)
    BY DEF OwnBlockValid
  <2>2. Base = chain
    BY <2>1 DEF Base
  <2>3. /\ \A t \in draft.txs : Unspent(t)
        /\ draft.coinbase <= SubsidyAt(Len(chain)) + FeesOn(chain, draft.txs)
    BY <1>1, <2>1, <2>2 DEF IInv, DraftCurrent, Assembled, Unspent
  <2> QED
    BY <2>1, <2>3, MoneyOnTheTip DEF Acceptable
<1> QED
  BY <1>1, Invariance, PTL

\* No change of the chain after PoW::mine has cleared mine_interrupt is lost:
\* the flag is set until the search is over.
THEOREM InterruptsSeen == Spec => []InterruptSeen
<1>1. IInv => InterruptSeen
  BY DEF IInv
<1> QED
  BY <1>1, Invariance, PTL

=============================================================================
