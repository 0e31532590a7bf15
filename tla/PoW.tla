-------------------------------- MODULE PoW --------------------------------
(***************************************************************************)
(* The arithmetic of proof of work: how a run of block times changes the   *)
(* difficulty, and how much work a block of a given difficulty counts for. *)
(* src/tiny-lib/mining/pow.cpp.                                            *)
(*                                                                         *)
(* A difficulty is a number of leading zero bits: the target is            *)
(* 2^(255 - bits), so the quotient of two targets is a power of two and    *)
(* the retargeting rule, msb(target * taken / aim), is a comparison of the *)
(* clamped time with halves and doubles of the aim.                        *)
(***************************************************************************)
EXTENDS Integers, Powers

CONSTANTS PeriodBlocks,   \* DIFFICULTY_PERIOD_IN_BLOCKS: blocks between retargets
          PeriodSecs      \* DIFFICULTY_PERIOD_IN_SECS_TARGET: seconds they should take

ASSUME PeriodAssumption ==
  /\ PeriodBlocks \in Nat \ {0}
  /\ PeriodSecs \in Nat \ {0}

(***************************************************************************)
(* The time a period is taken to have lasted: never below a quarter nor    *)
(* above four times the aim (integer division, as in the code).            *)
(***************************************************************************)
ClampedTime(taken) ==
  CASE taken < PeriodSecs \div 4 -> PeriodSecs \div 4
    [] taken > PeriodSecs * 4    -> PeriodSecs * 4
    [] OTHER                     -> taken

(***************************************************************************)
(* The new difficulty: 255 - msb(2^(255 - bits) * time / PeriodSecs).  The *)
(* most significant bit moves down as soon as the time is under the aim    *)
(* and up only when it reaches twice the aim.  Exact for 17 < bits < 254   *)
(* where neither the 256-bit product nor the 8-bit result wraps.           *)
(***************************************************************************)
Retarget(bits, taken) ==
  LET time == ClampedTime(taken)
  IN  CASE time * 2 < PeriodSecs    -> bits + 2
        [] /\ time * 2 >= PeriodSecs
           /\ time < PeriodSecs     -> bits + 1
        [] /\ time >= PeriodSecs
           /\ time < PeriodSecs * 2 -> bits
        [] /\ time >= PeriodSecs * 2
           /\ time < PeriodSecs * 4 -> bits - 1
        [] time >= PeriodSecs * 4   -> bits - 2

(***************************************************************************)
(* 2^256 / (target + 1) of PoW::get_block_work, exact up to 126 bits.      *)
(***************************************************************************)
BlockWork(bits) == TwoTo[bits + 1] - 1

=============================================================================
