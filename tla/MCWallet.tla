------------------------------ MODULE MCWallet ------------------------------
(***************************************************************************)
(* A small universe for Wallet: three coins at the first address of the HD *)
(* wallet and one of the plain wallet.                                     *)
(***************************************************************************)
EXTENDS Wallet

McBaseCoins ==
  [c \in {11, 12, 13, 14} |->
     [value |-> CASE c = 11 -> 9 [] c = 12 -> 4 [] c = 13 -> 3 [] c = 14 -> 8,
      addr |-> IF c = 14 THEN Main ELSE Hd(1, "ext", 0)]]

\* A question before the status, whose answer may be late or left in its
\* slot; change that is offered again; an address the file does not know.
McScripts ==
  {<<"send", "rbf", "status">>, <<"sendHd", "address", "sendHd">>,
   <<"sendHd", "address", "balance", "send">>}

=============================================================================
