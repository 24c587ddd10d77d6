----------------------------- MODULE MCResource -----------------------------
(* Small instances of Resource for TLC: one generation more than user code starts, *)
(* for Mount, and one for Unmount.                                                 *)
EXTENDS Resource

FairSpec == Spec /\ Fairness(1..(MaxLoads + 2))
=============================================================================
