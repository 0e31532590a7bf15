------------------------------ MODULE MCChain -------------------------------
(***************************************************************************)
(* Small universes of blocks for Chain.  Each is a tree of blocks and the  *)
(* transactions in them, given to the constants of Chain by a .cfg.        *)
(***************************************************************************)
EXTENDS Chain

-----------------------------------------------------------------------------
(* Shared.  The coinbases c1, c2, c2b pay the subsidy of 4; those from      *)
(* height 3 on pay 2, and c3, c3b, c4 a fee of 1 besides.  t1 spends c1,   *)
(* t2 spends t1, and each leaves a fee of 1.                               *)

McCoinbases == {"c1", "c2", "c2b", "c3", "c3b", "c4", "d3", "d4", "d5"}
McTxs == McCoinbases \cup {"t1", "t2"}
McIns ==
  [t \in McTxs |-> CASE t = "t1" -> {<<"c1", 1>>}
                     [] t = "t2" -> {<<"t1", 1>>}
                     [] OTHER    -> {}]
McOuts ==
  [t \in McTxs |-> CASE t \in {"c1", "c2", "c2b"} -> <<4>>
                     [] t \in {"c3", "c3b", "c4"} -> <<2, 1>>
                     [] t \in {"d3", "d4", "d5"}  -> <<2>>
                     [] t = "t1"                  -> <<3>>
                     [] t = "t2"                  -> <<1, 1>>]
NoLock == [t \in McTxs |-> 0]

-----------------------------------------------------------------------------
(* Three branches: A2 A3 and B2 B3 B4 after A1, X3 X4 after A2.  B4 makes  *)
(* the B branch the heaviest.  X4 claims, and has, far more work than its  *)
(* chain allows, so the node tries to adopt X3 X4 and must go back; and    *)
(* once the B branch is adopted the fork of X3 is not on the chain.  B5 is *)
(* too far in the future at time 0.                                        *)

ForkBlocks == {"G", "A1", "A2", "A3", "B2", "B3", "B4", "B5", "X3", "X4"}
ForkParent ==
  [b \in ForkBlocks \ {"G"} |->
     CASE b = "A1" -> "G"
       [] b \in {"A2", "B2"} -> "A1"
       [] b \in {"A3", "X3"} -> "A2"
       [] b = "B3" -> "B2"
       [] b = "B4" -> "B3"
       [] b = "B5" -> "B4"
       [] b = "X4" -> "X3"]
ForkTxs ==
  [b \in ForkBlocks |->
     CASE b = "G"  -> <<>>
       [] b = "A1" -> <<"c1">>
       [] b = "A2" -> <<"c2">>
       [] b = "A3" -> <<"c3", "t1">>
       [] b = "B2" -> <<"c2b">>
       [] b = "B3" -> <<"c3b", "t1">>
       [] b \in {"B4", "X4"} -> <<"c4", "t2">>
       [] b = "B5" -> <<"d5">>
       [] b = "X3" -> <<"c3", "t1">>]
ForkStamp ==
  [b \in ForkBlocks |->
     CASE b = "G" -> 0 [] b = "A1" -> 1 [] b = "A2" -> 2
       [] b \in {"A3", "B2", "X3"} -> 3 [] b \in {"B3", "X4"} -> 4
       [] b = "B4" -> 5 [] b = "B5" -> 6]
ForkBits == [b \in ForkBlocks |-> IF b = "X4" THEN 6 ELSE 3]
ForkSound == ForkBlocks \ {"G"}
ForkHonest == ForkBlocks \ {"X4"}

-----------------------------------------------------------------------------
(* The A branch alone, for a miner that is restarted. *)

LineBlocks == {"G", "A1", "A2", "A3"}
LineParent == [b \in LineBlocks \ {"G"} |-> ForkParent[b]]
LineTxs == [b \in LineBlocks |-> ForkTxs[b]]
LineStamp == [b \in LineBlocks |-> ForkStamp[b]]
LineBits == [b \in LineBlocks |-> ForkBits[b]]
LineSound == LineBlocks \ {"G"}

-----------------------------------------------------------------------------
(* The tree of the fork, but t1 and t2, which spends it, are together in   *)
(* A3 and X3, and not in the B branch.                                     *)

ChildTxs ==
  [ForkTxs EXCEPT !["A3"] = <<"c3", "t1", "t2">>, !["X3"] = <<"c3", "t1", "t2">>,
                  !["B3"] = <<"d3">>, !["B4"] = <<"d4">>]
ChildSound == ForkSound \ {"B5", "X3", "X4"}

-----------------------------------------------------------------------------
(* A branch that forks again: B2 and B3 after A1, then C3, C4 after B2.    *)

TwigBlocks == {"G", "A1", "A2", "A3", "B2", "B3", "C3", "C4"}
TwigParent ==
  [b \in TwigBlocks \ {"G"} |->
     CASE b = "A1" -> "G"
       [] b \in {"A2", "B2"} -> "A1"
       [] b = "A3" -> "A2"
       [] b \in {"B3", "C3"} -> "B2"
       [] b = "C4" -> "C3"]
TwigTxs ==
  [b \in TwigBlocks |->
     CASE b = "G"  -> <<>>
       [] b = "A1" -> <<"c1">>
       [] b = "A2" -> <<"c2">>
       [] b = "B2" -> <<"c2b">>
       [] b \in {"A3", "B3", "C3"} -> <<"d3">>
       [] b = "C4" -> <<"d4">>]
TwigStamp ==
  [b \in TwigBlocks |->
     CASE b = "G" -> 0 [] b = "A1" -> 1 [] b = "A2" -> 2
       [] b \in {"A3", "B2"} -> 3
       [] b \in {"B3", "C3"} -> 4 [] b = "C4" -> 5]
TwigBits == [b \in TwigBlocks |-> 3]
TwigSound == TwigBlocks \ {"G"}

-----------------------------------------------------------------------------
\* Each universe is one that miners running the code could make.
ASSUME UniverseAssumption ==
  /\ Orderly([b \in Blocks |-> Len(PathTo[b]) - 1])
  /\ SpendOnce

=============================================================================
