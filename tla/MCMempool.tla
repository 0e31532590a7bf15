----------------------------- MODULE MCMempool ------------------------------
(***************************************************************************)
(* A small universe for Mempool.  The coins k and m are worth 12 and 8; m  *)
(* comes of a coinbase and matures with the next block.  a, r and s spend  *)
(* k; s spends besides an output of a, which it would replace.  b spends   *)
(* a, e spends b, c spends m, d spends both a and c; x leaves dust.        *)
(***************************************************************************)
EXTENDS Mempool

McCoinbases == {"k", "m"}
McTxs == McCoinbases \cup {"a", "b", "c", "d", "e", "r", "s", "x"}
McIns ==
  [t \in McTxs |-> CASE t \in {"a", "r"} -> {<<"k", 1>>}
                     [] t = "s" -> {<<"k", 1>>, <<"a", 1>>}
                     [] t = "e" -> {<<"b", 1>>}
                     [] t = "b" -> {<<"a", 1>>}
                     [] t \in {"c", "x"} -> {<<"m", 1>>}
                     [] t = "d" -> {<<"a", 2>>, <<"c", 1>>}
                     [] OTHER -> {}]
McOuts ==
  [t \in McTxs |-> CASE t = "k" -> <<12>> [] t = "m" -> <<8>>
                     [] t = "a" -> <<5, 4>>
                     [] t = "r" -> <<7>> [] t = "s" -> <<3>>
                     [] t = "e" -> <<2>>
                     [] t = "b" -> <<3>> [] t = "c" -> <<6>>
                     [] t = "d" -> <<4>> [] t = "x" -> <<1>>]
McSize == [t \in McTxs |-> IF t \in {"b", "r", "s"} THEN 2 ELSE 1]
NoLock == [t \in McTxs |-> 0]
McCoins ==
  [p \in {<<"k", 1>>, <<"m", 1>>} |->
     [coinbase |-> p[1] = "m", height |-> IF p[1] = "m" THEN 3 ELSE 1]]
McRbf == {"a", "b", "c", "d"}
McBodies == {<<>>, <<"a">>, <<"r">>, <<"c">>, <<"a", "b">>}

\* Only a and r, which spend the same coin, and a peer that mines r.
RivalTxs == McCoinbases \cup {"a", "r"}
RivalBodies == {<<>>, <<"r">>}

\* The chain below is whole, and the peers' blocks have parents first.
ASSUME UniverseAssumption == Orderly

=============================================================================
