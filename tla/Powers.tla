------------------------------- MODULE Powers -------------------------------
(***************************************************************************)
(* Powers of two, which the code forms by shifting: the work of a block    *)
(* and the halving of the subsidy in mining/pow.cpp.  A function of its    *)
(* own rather than the operator ^, of which the provers know nothing.      *)
(***************************************************************************)
EXTENDS Naturals

TwoTo[n \in Nat] == IF n = 0 THEN 1 ELSE 2 * TwoTo[n - 1]

=============================================================================
