------------------------------- MODULE MCSync -------------------------------
(***************************************************************************)
(* Small universes for Sync.  B comes with a rival to the chain of A: to   *)
(* m1 and m2, which A has still to mine, so that announcements are lost    *)
(* and reordered; to c1 to c4, of which they share c1, one block below     *)
(* CHUNK_SIZE, or at it; and to x1 and x2, the first refused by B.         *)
(***************************************************************************)
EXTENDS Sync

McBlocks ==
  {"g", "m1", "m2", "c1", "c2", "c3", "c4", "x1", "x2", "r1", "r2", "r3"}
McParent ==
  [b \in McBlocks |-> CASE b \in {"m1", "c1", "x1", "r1"} -> "g"
                        [] b = "m2" -> "m1" [] b = "x2" -> "x1"
                        [] b \in {"c2", "r2"} -> "c1"
                        [] b = "c3" -> "c2" [] b = "c4" -> "c3"
                        [] b = "r3" -> "r2" [] OTHER -> "none"]
McFinder ==
  [b \in McBlocks \ {"g"} |-> IF b \in {"r1", "r2", "r3"} THEN "B" ELSE "A"]
McRefused == [n \in Nodes |-> IF n = "B" THEN {"x1"} ELSE {}]
McFiles ==
  {[A |-> <<>>, B |-> <<"r1">>],
   [A |-> <<"c1", "c2", "c3", "c4">>, B |-> <<"c1", "r2">>],
   [A |-> <<"c1", "c2", "c3", "c4">>, B |-> <<"c1", "r2", "r3">>],
   [A |-> <<"x1">>, B |-> <<"r1">>]}

NoneRefused == [n \in Nodes |-> {}]

\* The first miner of a network, and what it mines on an empty chain.
LoneBlocks == {"g", "z", "z1"}
LoneParent == [b \in LoneBlocks |-> IF b = "z1" THEN "z" ELSE "none"]
LoneFinder == [b \in LoneBlocks \ {"g"} |-> "A"]
NoFiles == {[n \in Nodes |-> <<>>]}

\* A has a chain; B and C are new.
TrioBlocks == {"g", "m1"}
TrioParent == [b \in TrioBlocks |-> IF b = "m1" THEN "g" ELSE "none"]
TrioFinder == [b \in TrioBlocks \ {"g"} |-> "A"]
TrioFiles == {[n \in Nodes |-> IF n = "A" THEN <<"m1">> ELSE <<>>]}

\* All but the universe in which a chain is lost have one root.
ASSUME UniverseAssumption == Blocks # LoneBlocks => Rooted

=============================================================================
