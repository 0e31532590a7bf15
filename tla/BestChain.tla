----------------------------- MODULE BestChain ------------------------------
(***************************************************************************)
(* What a chain promises to the rest of the node: at any time one chain of *)
(* blocks from the genesis block, replaced only by one with more work.     *)
(***************************************************************************)
EXTENDS Integers, Sequences

CONSTANTS Blocks, Genesis, Parent, WorkOf(_)

VARIABLE chain

LinkedFromGenesis(c) ==
  /\ c # <<>> /\ c[1] = Genesis
  /\ \A i \in 2 .. Len(c) : c[i] # Genesis /\ Parent[c[i]] = c[i - 1]

Init == chain = <<Genesis>>

\* A block is added, or a reorganisation is complete.
Adopt ==
  /\ LinkedFromGenesis(chain')
  /\ WorkOf(chain') > WorkOf(chain)

Spec == Init /\ [][Adopt]_chain

=============================================================================
