----------------------------- MODULE MCTipRpc -----------------------------
(***************************************************************************)
(* Instances of TipRpc for TLC.  Contexts are interchangeable.             *)
(***************************************************************************)
EXTENDS TipRpcInvariant, TLC

ContextSymmetry == Permutations(Contexts)
=============================================================================
