------------------------------- MODULE Mining -------------------------------
(***************************************************************************)
(* A miner at work: PoW::assemble_and_solve_block, PoW::mine and the loop  *)
(* at the end of PoW::mine_forever in mining/pow.cpp, and the three mining *)
(* backends, while the io thread connects the blocks of peers and takes    *)
(* their transactions.                                                     *)
(*                                                                         *)
(* The id of a block is the branch that ends in it, so a chain is its own  *)
(* tip.  Every transaction spends one coin of an old block; what the pool  *)
(* lets in and picks is the subject of module Mempool.                     *)
(***************************************************************************)
EXTENDS Naturals, FiniteSets, SequencesExt, Powers

CONSTANTS Txs, Coin, Fee, Size,  \* transactions: the coin spent, fee, bytes
          Fifty,          \* 50 * COIN
          HalveAfter,     \* HALVE_SUBSIDY_AFTER_BLOCKS_NUM
          EmptyBlock, CoinbaseSize,   \* bytes
          MaxBlock,       \* MAX_BLOCK_SERIALIZED_SIZE_IN_BYTES
          Backends,       \* among "cpu", "cuda" and "metal"
          LastNonce,      \* the largest 64-bit number
          Threads,        \* num_threads of the CPU backend, numbered from 0
          PollEvery,      \* tries between two looks at the flags: 4096
          Batch,          \* BATCH_SIZE of the GPU backends
          SolutionSets,   \* nonces that may solve a header
          MaxHeight,      \* bound: length of the chain
          MaxFailures     \* bound: failures of the GPU

ASSUME MiningAssumption ==
  /\ IsFiniteSet(Txs)
  /\ Fee \in [Txs -> Nat] /\ Size \in [Txs -> Nat]
  /\ DOMAIN Coin = Txs
  /\ {Fifty, EmptyBlock, CoinbaseSize, MaxBlock} \subseteq Nat
  /\ {LastNonce, MaxFailures} \subseteq Nat
  /\ {HalveAfter, PollEvery, Batch, MaxHeight} \subseteq Nat \ {0}
  /\ Cardinality(Threads) \in 1..LastNonce   \* far more nonces than threads
  /\ Threads = 0..(Cardinality(Threads) - 1)
  /\ SolutionSets \subseteq SUBSET (0..LastNonce)

VARIABLES
  chain,      \* Chain::active_chain: what each block carries
  pool,       \* Mempool::map
  reorg,      \* try_reorg: how far it is, and the chain it began with
  interrupt,  \* PoW::mine_interrupt
  stage,      \* where the miner is
  draft,      \* block
  inside,     \* history: its transactions were picked in a reorganisation
  backend,    \* PoW::mining_backend_
  solutions,  \* nonces whose hash is below the target
  thread,     \* mine_chunk of each thread: next try (i) and what it does
  result,     \* found and found_nonce
  offset,     \* nonce_offset of the GPU backends
  failures,   \* failures of the GPU so far
  since       \* the chain when mine() looked at the flag

nodeVars   == <<chain, pool, reorg>>
minerVars  == <<draft, inside>>
searchVars == <<solutions, thread, result, offset, failures>>
vars == <<nodeVars, interrupt, stage, minerVars, backend, searchVars, since>>

-----------------------------------------------------------------------------
(* Blocks. *)

Block == [by : {"me", "peer"}, txs : SUBSET Txs]

Mined(c) == UNION {c[i].txs : i \in DOMAIN c}
Spent(c) == {Coin[t] : t \in Mined(c)}
Unspent(t) == Coin[t] \notin Spent(chain)

Bytes(txs) == MapThenSumSet(LAMBDA t : Size[t], txs)

\* calculate_fees: what spends a missing coin adds nothing.
BlockFees(txs) ==
  MapThenSumSet(LAMBDA t : Fee[t], {t \in txs : Unspent(t)})

\* get_block_subsidy: shifted right once for each halving.
Subsidy == Fifty \div TwoTo[Len(chain) \div HalveAfter]

\* validate_block of a block on the tip, whose timestamp must be above the
\* median time of the chain.
Acceptable(b) ==
  /\ ~b.late
  /\ \A t \in b.txs : Unspent(t)
  /\ b.coinbase <= Subsidy + BlockFees(b.txs)

-----------------------------------------------------------------------------
(* assemble_and_solve_block: each step is a critical section of its own.   *)

\* Chain::mutex is free: a reorganisation holds it from end to end.
Unlocked == reorg.at = "none"

\* The timestamp is the miner's own clock, whatever the median time of the
\* blocks up to prev: a clock that is behind makes the block late.
ReadTip ==
  /\ stage = "tip" /\ Len(chain) < MaxHeight
  /\ Unlocked
  /\ \E late \in BOOLEAN :
       draft' = [draft EXCEPT !.prev = chain, !.late = late]
  /\ inside' = FALSE
  /\ stage' = "select"
  /\ UNCHANGED <<nodeVars, interrupt, backend, searchVars, since>>

\* select_from_mempool gives up at a transaction without its coin, and does
\* not come back when the pool does not fit into the block.
Picked == IF \A t \in pool : Unspent(t) THEN pool ELSE {}

\* Mempool::mutex and UTXO::mutex are taken, Chain::mutex is not.
Select ==
  /\ stage = "select"
  /\ draft' = [draft EXCEPT !.txs = Picked]
  /\ inside' = ~Unlocked
  /\ stage' = IF EmptyBlock + Bytes(Picked) < MaxBlock THEN "fees" ELSE "dead"
  /\ UNCHANGED <<nodeVars, interrupt, backend, searchVars, since>>

ReadFees ==
  /\ stage = "fees"
  /\ draft' = [draft EXCEPT !.coinbase = BlockFees(draft.txs)]
  /\ inside' = inside
  /\ stage' = "subsidy"
  /\ UNCHANGED <<nodeVars, interrupt, backend, searchVars, since>>

\* Mutant of WithSubsidy: the previous hash is the last thing read.
WithLateTip(d) == [d EXCEPT !.coinbase = @ + Subsidy, !.prev = chain]

WithSubsidy(d) == [d EXCEPT !.coinbase = @ + Subsidy]

\* The coinbase counts only now; a block it makes too large is an exception
\* that mine_forever and main let through.
MakeCoinbase ==
  /\ stage = "subsidy" /\ Unlocked
  /\ inside' = inside
  /\ draft' = WithSubsidy(draft)
  /\ stage' = IF EmptyBlock + CoinbaseSize + Bytes(draft.txs) > MaxBlock
                THEN "dead" ELSE "mine"
  /\ UNCHANGED <<nodeVars, interrupt, backend, searchVars, since>>

-----------------------------------------------------------------------------
(* mine(). *)

Idle == [t \in Threads |-> [i |-> 0, at |-> "done"]]
NotFound == [found |-> FALSE, nonce |-> 0]

\* The flag is cleared and the backend called.
StartSearch ==
  /\ stage = "mine"
  /\ interrupt' = FALSE
  /\ solutions' \in SolutionSets
  /\ thread' = IF backend = "cpu"
                 THEN [t \in Threads |-> [i |-> 0, at |-> "try"]] ELSE Idle
  /\ result' = NotFound /\ offset' = 0
  /\ since' = chain
  /\ stage' = "search"
  /\ UNCHANGED <<nodeVars, minerVars, backend, failures>>

\* Mutant of ChunkSize: the nonces are shared among one thread more.
ChunkTooSmall == LastNonce \div (Cardinality(Threads) + 1)

ChunkSize == LastNonce \div Cardinality(Threads)

\* mine_chunk: one nonce.  The flag is set before the nonce is stored.
Try(t) ==
  LET i == thread[t].i
      next == IF t * ChunkSize + i \in solutions THEN "store"
              ELSE IF (i + 1) % PollEvery = 0 THEN "poll"
              ELSE IF i + 1 = ChunkSize THEN "done"
              ELSE "try"
  IN  /\ stage = "search" /\ thread[t].at = "try"
      /\ result' = [result EXCEPT !.found = @ \/ next = "store"]
      /\ thread' = [thread EXCEPT ![t] =
           [i |-> IF next = "store" THEN i ELSE i + 1, at |-> next]]
      /\ UNCHANGED <<nodeVars, interrupt, stage, minerVars, backend, solutions,
                     offset, failures, since>>

Store(t) ==
  /\ stage = "search" /\ thread[t].at = "store"
  /\ result' = [result EXCEPT !.nonce = t * ChunkSize + thread[t].i]
  /\ thread' = [thread EXCEPT ![t].at = "done"]
  /\ UNCHANGED <<nodeVars, interrupt, stage, minerVars, backend, solutions,
                 offset, failures, since>>

Poll(t) ==
  /\ stage = "search" /\ thread[t].at = "poll"
  /\ thread' = [thread EXCEPT ![t].at =
       IF result.found \/ interrupt \/ thread[t].i = ChunkSize
         THEN "done" ELSE "try"]
  /\ UNCHANGED <<nodeVars, interrupt, stage, minerVars, backend, solutions,
                 result, offset, failures, since>>

\* Mutant of Joined: the first thread that is done ends the search.
AnyJoined == \E t \in Threads : thread[t].at = "done"

Joined == \A t \in Threads : thread[t].at = "done"

\* join_all, and the two results are read.
Join ==
  /\ stage = "search" /\ backend = "cpu"
  /\ Joined
  /\ stage' = "check"
  /\ UNCHANGED <<nodeVars, interrupt, minerVars, backend, searchVars, since>>

\* Mutant of NextOffset: every batch starts at 0.
SameOffset == offset

\* Mutant of NextOffset: the end of the nonces is not noticed.
WithoutWrap == offset + Batch

\* The addition wraps at the end of the 64-bit numbers.
NextOffset == (offset + Batch) % (LastNonce + 1)

\* One batch.  The kernel lets one of its threads store a nonce; the weak
\* exchange of the Metal kernel may also let none.
RunBatch ==
  LET hits == solutions \cap offset..(offset + Batch - 1)
  IN  /\ stage = "search" /\ backend # "cpu"
      /\ ~interrupt
      /\ \/ \E n \in hits : result' = [found |-> TRUE, nonce |-> n]
         \/ /\ hits # {} => backend = "metal" /\ failures < MaxFailures
            /\ result' = result
      /\ failures' = IF hits # {} /\ ~result'.found THEN failures + 1
                                                    ELSE failures
      /\ offset' = IF result'.found THEN offset ELSE NextOffset
      /\ stage' = IF result'.found \/ NextOffset < Batch
                    THEN "check" ELSE "search"
      /\ UNCHANGED <<nodeVars, interrupt, minerVars, backend, solutions, thread,
                     since>>

\* Memory that cannot be had, or a kernel that fails.
CudaFails ==
  /\ stage = "search" /\ backend = "cuda" /\ failures < MaxFailures
  /\ failures' = failures + 1
  /\ stage' = "check"
  /\ UNCHANGED <<nodeVars, interrupt, minerVars, backend, solutions, thread,
                 result, offset, since>>

GpuInterrupted ==
  /\ stage = "search" /\ backend # "cpu" /\ interrupt
  /\ stage' = "check"
  /\ UNCHANGED <<nodeVars, interrupt, minerVars, backend, searchVars, since>>

\* What is local to a search is gone when mine() returns.
SearchEnds ==
  /\ thread' = Idle /\ offset' = 0 /\ since' = <<>>
  /\ failures' = failures

NoDraft == [prev |-> <<>>, late |-> FALSE, txs |-> {}, coinbase |-> 0]

\* ... and with the block, before mine_forever begins the next one.
RoundEnds ==
  /\ stage' = "tip"
  /\ draft' = NoDraft /\ inside' = FALSE
  /\ solutions' = {} /\ result' = NotFound
  /\ SearchEnds

\* An interrupted search counts for nothing, even if it found a nonce.
CheckResult ==
  /\ stage = "check"
  /\ interrupt' = FALSE
  /\ IF ~interrupt /\ result.found
       THEN /\ stage' = "connect"
            /\ UNCHANGED <<minerVars, solutions, result>> /\ SearchEnds
       ELSE RoundEnds
  /\ UNCHANGED <<nodeVars, backend>>

-----------------------------------------------------------------------------
(* connect_block, for the miner and for the io thread. *)

\* The transactions of the block leave the pool, those that spend the same
\* coins do not.
Appended(c, b) == Append(c, [by |-> b.by, txs |-> b.txs])

\* Mutant of Interrupts: only a block on the tip sets mine_interrupt.
TipInterrupts(onTip) == interrupt \/ onTip

\* A block on the tip and a reorganisation set it.
Interrupts(onTip) == TRUE

\* The block of the miner.  One that is no longer on the tip becomes a side
\* branch that is at most as long as the chain; save_to_disk follows.
ConnectOwn ==
  /\ stage = "connect" /\ Unlocked
  /\ RoundEnds
  /\ IF draft.prev = chain /\ Acceptable(draft)
       THEN /\ chain' = Appended(chain, [by |-> "me", txs |-> draft.txs])
            /\ pool' = pool \ draft.txs
            /\ interrupt' = TRUE
            /\ reorg' = reorg
       ELSE UNCHANGED <<nodeVars, interrupt>>
  /\ backend' = backend

\* What peers mine: valid transactions, at most one for each coin.
Bodies(c) ==
  {S \in SUBSET (Txs \ Mined(c)) :
     /\ \A t \in S : Coin[t] \notin Spent(c)
     /\ \A t, u \in S : Coin[t] = Coin[u] => t = u}

PeerBlock ==
  /\ stage # "dead" /\ Len(chain) < MaxHeight
  /\ Unlocked
  /\ \E S \in Bodies(chain) :
       /\ chain' = Appended(chain, [by |-> "peer", txs |-> S])
       /\ pool' = pool \ S
  /\ interrupt' = Interrupts(TRUE)
  /\ UNCHANGED <<reorg, stage, minerVars, backend, searchVars, since>>

NoReorg == [at |-> "none", from |-> <<>>]

\* A branch of two blocks is heavier than the tip it forks below.  The tip is
\* disconnected: its transactions go back into the pool.
ReorgStarts ==
  /\ stage # "dead" /\ Unlocked
  /\ Len(chain) \in 2..(MaxHeight - 1)
  /\ reorg' = [at |-> "fork", from |-> chain]
  /\ chain' = Front(chain)
  /\ pool' = pool \cup Last(chain).txs
  /\ UNCHANGED <<interrupt, stage, minerVars, backend, searchVars, since>>

\* The next block of the branch is connected.
ReorgConnects ==
  /\ reorg.at \in {"fork", "half"}
  /\ \E S \in Bodies(chain) :
       /\ chain' = Appended(chain, [by |-> "peer", txs |-> S])
       /\ pool' = pool \ S
  /\ chain' # reorg.from
  /\ reorg' = IF reorg.at = "fork" THEN [reorg EXCEPT !.at = "half"]
                                   ELSE NoReorg
  /\ interrupt' = Interrupts(FALSE)
  /\ UNCHANGED <<stage, minerVars, backend, searchVars, since>>

\* It is refused, and what the branch has brought so far is disconnected.
ReorgFails ==
  /\ reorg.at \in {"fork", "half"}
  /\ reorg' = [reorg EXCEPT !.at = "back"]
  /\ chain' = Front(reorg.from)
  /\ pool' = IF reorg.at = "half" THEN pool \cup Last(chain).txs ELSE pool
  /\ UNCHANGED <<interrupt, stage, minerVars, backend, searchVars, since>>

\* rollback_reorg connects the old tip again.
ReorgRollsBack ==
  /\ reorg.at = "back"
  /\ reorg' = NoReorg
  /\ chain' = reorg.from
  /\ pool' = pool \ Last(reorg.from).txs
  /\ interrupt' = Interrupts(FALSE)
  /\ UNCHANGED <<stage, minerVars, backend, searchVars, since>>

PeerReorg == ReorgStarts \/ ReorgConnects \/ ReorgFails \/ ReorgRollsBack

AddTx ==
  /\ stage # "dead" /\ Unlocked
  /\ \E t \in Txs \ pool :
       /\ Unspent(t) /\ \A u \in pool : Coin[u] # Coin[t]
       /\ pool' = pool \cup {t}
  /\ UNCHANGED <<chain, reorg, interrupt, stage, minerVars, backend, searchVars, since>>

-----------------------------------------------------------------------------

\* MiningBackendFactory::create takes the first GPU there is, else the CPU.
Init ==
  /\ backend \in Backends
  /\ chain = <<[by |-> "peer", txs |-> {}]>> /\ pool = {}
  /\ reorg = NoReorg
  /\ interrupt = FALSE /\ stage = "tip"
  /\ draft = NoDraft
  /\ inside = FALSE
  /\ solutions = {} /\ thread = Idle /\ result = NotFound
  /\ offset = 0 /\ failures = 0 /\ since = <<>>

Assemble == ReadTip \/ Select \/ ReadFees \/ MakeCoinbase
CpuThread(t) == Try(t) \/ Store(t) \/ Poll(t)
Gpu == RunBatch \/ GpuInterrupted
Miner == Assemble \/ StartSearch \/ Join \/ CheckResult \/ ConnectOwn
IoThread == PeerBlock \/ PeerReorg \/ AddTx

Next ==
  \/ Miner
  \/ \E t \in Threads : CpuThread(t)
  \/ Gpu \/ CudaFails
  \/ IoThread

Spec == Init /\ [][Next]_vars

\* The miner and its threads get their turn; nothing makes a peer speak.
FairSpec ==
  /\ Spec
  /\ WF_vars(Miner) /\ WF_vars(Gpu)
  /\ \A t \in Threads : WF_vars(CpuThread(t))

-----------------------------------------------------------------------------
(* Properties. *)

TypeOK ==
  /\ chain \in Seq(Block) /\ Len(chain) \in 1..MaxHeight
  /\ pool \subseteq Txs
  /\ interrupt \in BOOLEAN
  /\ stage \in {"tip", "select", "fees", "subsidy", "mine", "search",
                "check", "connect", "dead"}
  /\ reorg \in [at : {"none", "fork", "half", "back"}, from : Seq(Block)]
  /\ draft \in [prev : Seq(Block), late : BOOLEAN, txs : SUBSET Txs,
                coinbase : Nat]
  /\ inside \in BOOLEAN
  /\ backend \in Backends
  /\ solutions \subseteq 0..LastNonce
  /\ thread \in [Threads -> [i : 0..ChunkSize,
                             at : {"try", "store", "poll", "done"}]]
  /\ result \in [found : BOOLEAN, nonce : 0..LastNonce]
  /\ offset \in 0..LastNonce
  /\ failures \in 0..MaxFailures
  /\ since \in Seq(Block)

\* The nonce of a block that goes to connect_block solves its header, however
\* the threads race to set found and found_nonce.
SolutionIsValid == stage = "connect" => result.nonce \in solutions

\* All nonces; the CPU's equal chunks leave out at most the last few.
Covered ==
  0..(IF backend = "cpu" THEN LastNonce - Cardinality(Threads) ELSE LastNonce)

\* "No nonce satisfies required bits" (pow.cpp:147) is said only when none of
\* the nonces does, unless the GPU failed.
ExhaustionIsHonest ==
  stage = "check" /\ ~interrupt /\ ~result.found /\ failures = 0
    => solutions \cap Covered = {}

\* The tip, the transactions, the fees and the subsidy are read one after the
\* other while blocks arrive and reorganisations succeed or are rolled back;
\* still a block that is on the tip when it connects is one that
\* validate_block accepts, so the work is not lost.  Two blocks are lost: one
\* whose transactions were picked inside a reorganisation that was then
\* rolled back (Select does not wait for it, and may pick what the old tip
\* holds), and one whose timestamp is late (nothing compares the clock with
\* the median time before the search).
OwnBlockValid ==
  stage = "connect" /\ Unlocked /\ draft.prev = chain
    /\ ~inside /\ ~draft.late
  => Acceptable(draft)

\* Whatever changes the chain after mine() has looked at the flag is seen by
\* the search once Chain::mutex is free again: the flag is set until the
\* search is over.
InterruptSeen ==
  stage = "search" /\ Unlocked /\ chain # since => interrupt

\* A miner whose headers can be solved in time again and again gets on: it
\* does not search for ever, spin on its flag or overlook what it found,
\* unless branches that fail keep it reorganising.
Fertile ==
  stage = "search" /\ solutions \cap Covered # {} /\ ~draft.late
Mines ==
  []<>Fertile /\ <>[]Unlocked => <>(stage = "dead" \/ Len(chain) = MaxHeight)

=============================================================================
