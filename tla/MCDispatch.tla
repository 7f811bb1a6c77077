----------------------------- MODULE MCDispatch -----------------------------
(* Small instances of Dispatch for TLC. *)
EXTENDS Dispatch, TLC

\* Every run makes calls with each of its keys, or with none.
Symmetry == Permutations(Txs) \cup Permutations(Registry) \cup Permutations(Keys)
=============================================================================
