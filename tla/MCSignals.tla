----------------------------- MODULE MCSignals -----------------------------
(* Small instances of Signals for TLC. *)
EXTENDS Signals, TLC

Symmetry == Permutations(Listener) \union Permutations(Signal)
=============================================================================
