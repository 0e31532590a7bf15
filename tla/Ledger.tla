------------------------------- MODULE Ledger -------------------------------
(***************************************************************************)
(* Transactions, the map of unspent outputs, and what one block does to    *)
(* that map: src/tiny-lib/core/tx.cpp, core/unspent_tx_out.cpp and the     *)
(* loops of Chain::connect_block and Chain::disconnect_block.              *)
(*                                                                         *)
(* A transaction is known by its id.  Its inputs are a set of outpoints    *)
(* <<tx, i>> (Tx::validate_basics refuses a repeated input) and its        *)
(* outputs a sequence of values.  The map sends an unspent outpoint to the *)
(* facts the code keeps beside the output: whether a coinbase made it, and *)
(* the height of the chain just after it was made.                         *)
(*                                                                         *)
(* The code applies a block one transaction at a time; since the ids of a  *)
(* block are distinct, the result is given here in closed form, by the     *)
(* last event that touches each outpoint.                                  *)
(***************************************************************************)
EXTENDS Integers, Sequences, FiniteSetsExt

CONSTANTS Txs,         \* transaction ids
          Coinbases,   \* those with one input that spends nothing
          Ins,         \* outpoints each transaction spends
          Outs,        \* output values of each transaction, in order
          Signed,      \* those whose signatures unlock their inputs
          LockHeight,  \* absolute lock time of each transaction, as a height
          RelativeLock,\* relative lock of each transaction's inputs, in blocks
          Maturity     \* COINBASE_MATURITY

Outpoints == Txs \X (Nat \ {0})

ASSUME TxAssumption ==
  /\ Coinbases \subseteq Txs
  /\ Signed \subseteq Txs
  /\ Ins \in [Txs -> SUBSET Outpoints]
  /\ Outs \in [Txs -> Seq(Nat)]
  /\ LockHeight \in [Txs -> Nat]
  /\ RelativeLock \in [Txs -> Nat]
  /\ Maturity \in Nat
  /\ \A t \in Txs : IsFiniteSet(Ins[t])
  /\ \A t \in Coinbases : Ins[t] = {}

OutsOf(t) == {<<t, i>> : i \in DOMAIN Outs[t]}

Value(p) == Outs[p[1]][p[2]]

TotalValue(points) == MapThenSumSet(Value, points)

Elements(s) == {s[i] : i \in DOMAIN s}

NonCoinbase(txs) == Elements(txs) \ Coinbases

-----------------------------------------------------------------------------
(* What a block does to the map. *)

\* Outpoints spent (resp. made) by the transactions of a block from the i-th on.
SpentFrom(txs, i) == UNION {Ins[txs[j]] : j \in {k \in DOMAIN txs : k >= i}}
MadeFrom(txs, i) == UNION {OutsOf(txs[j]) : j \in {k \in DOMAIN txs : k >= i}}

\* Mutant of SpentIn: the inputs stay in the map.
SpentNothing(txs) == {}

SpentIn(txs) == SpentFrom(txs, 1)
MadeIn(txs) == MadeFrom(txs, 1)

(***************************************************************************)
(* Connecting: each transaction in turn takes its inputs from the map and  *)
(* puts its outputs there, so an output survives unless a later one of the *)
(* same block spends it.                                                   *)
(***************************************************************************)
MadeAndKept(txs) ==
  UNION {OutsOf(txs[i]) \ SpentFrom(txs, i + 1) : i \in DOMAIN txs}

ConnectTxs(utxo, txs, height) ==
  [p \in (DOMAIN utxo \ SpentIn(txs)) \cup MadeAndKept(txs) |->
     IF p \in MadeAndKept(txs)
     THEN [coinbase |-> p[1] \in Coinbases, height |-> height]
     ELSE utxo[p]]

(***************************************************************************)
(* Disconnecting, in the order of the code: from the FIRST transaction to  *)
(* the last, each puts back its inputs, then takes its outputs out.  So an *)
(* outpoint put back by a transaction stays unless the same or a later one *)
(* made it.  An input is put back with the facts of the first transaction  *)
(* of the chain that has its id (find_tx_out_for_tx_in_in_active_chain),   *)
(* given by "entry"; one that was made nowhere on the chain is not.        *)
(***************************************************************************)
\* Mutant of PutBack: the inputs are not put back.
PutNothingBack(txs) == {}

PutBack(txs) == UNION {Ins[txs[i]] \ MadeFrom(txs, i) : i \in DOMAIN txs}

DisconnectTxs(utxo, txs, entry) ==
  LET back == PutBack(txs) \cap DOMAIN entry
  IN  [p \in (DOMAIN utxo \ MadeIn(txs)) \cup back |->
         IF p \in back THEN entry[p] ELSE utxo[p]]

-----------------------------------------------------------------------------
(* Validity of a transaction against a map and a chain of a given height. *)

\* Tx::check_lock_time, for lock times below LOCKTIME_THRESHOLD.
LockTimeReached(t, height) == LockHeight[t] <= height

(***************************************************************************)
(* Tx::check_sequence_locks, for locks counted in blocks.  An input that   *)
(* is not in the map (it is made by a sibling) is not checked.             *)
(***************************************************************************)
SequenceLocksReached(t, utxo, height) ==
  \A p \in Ins[t] \cap DOMAIN utxo : utxo[p].height + RelativeLock[t] <= height

Mature(utxo, p, height) ==
  utxo[p].coinbase => height - utxo[p].height >= Maturity

(***************************************************************************)
(* Tx::validate.  An input must be in the map, or an output of one of the  *)
(* siblings of the block, wherever that sibling stands in it, or of a      *)
(* transaction of the pool when the caller allows it.  "others" is that    *)
(* last set of outpoints.                                                  *)
(***************************************************************************)
ValidTx(t, utxo, others, height) ==
  /\ LockTimeReached(t, height)
  /\ SequenceLocksReached(t, utxo, height)
  /\ Ins[t] \subseteq DOMAIN utxo \cup others
  /\ \A p \in Ins[t] \cap DOMAIN utxo : Mature(utxo, p, height)
  /\ t \in Signed
  /\ TotalValue(Ins[t]) >= TotalValue(OutsOf(t))

OutsOfAll(ts) == UNION {OutsOf(t) : t \in ts}

(***************************************************************************)
(* PoW::calculate_fees(tx): an input counts if the map or the pool has it, *)
(* and a transaction that seems to spend more than it has counts for 0.    *)
(***************************************************************************)
Fees(t, utxo, pool) ==
  LET spent == TotalValue(Ins[t] \cap (DOMAIN utxo \cup OutsOfAll(pool)))
      sent  == TotalValue(OutsOf(t))
  IN  IF spent < sent THEN 0 ELSE spent - sent

TotalFees(ts, utxo, pool) ==
  MapThenSumSet(LAMBDA t : Fees(t, utxo, pool), ts)

=============================================================================
