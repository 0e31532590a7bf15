------------------------------ MODULE MCMining ------------------------------
(***************************************************************************)
(* A small universe for Mining: t and u spend the same coin, u fits into a *)
(* block only without the coinbase, and both together do not fit at all.   *)
(***************************************************************************)
EXTENDS Mining

McTxs == {"t", "u"}
McCoin == [x \in McTxs |-> "k"]
McFee == [x \in McTxs |-> IF x = "t" THEN 2 ELSE 1]
McSize == [x \in McTxs |-> IF x = "t" THEN 1 ELSE 3]
McThreads == {0, 1}
McSolutionSets == {{}, {1}, {4, 5}, {7}}

=============================================================================
