----------------------------- MODULE MCComputed -----------------------------
(* Computeds for TLC: low is computed from src, and same from src and low. *)
EXTENDS Computed, TLC

CONSTANTS src, low, same

Triangle == (low :> <<src>>) @@ (same :> <<src, low>>)

\* low = 1 - src and same = src * (1 - low), which is src: a change of src reaches same by
\* two paths, and same computed from the new src and the old low is wrong.
Gate(s, args) == IF s = low THEN 1 - args[1] ELSE args[1] * (1 - args[2])

\* The state but for what no step reads again: what a Computed told last matters while it is
\* observed, and its value then or while all its deps' versions or its own are known.
ValueMatters(c) ==
  \/ Observed(subs[c]) \/ known[c] = DOMAIN Deps[c]
  \/ \E d \in Derived : \E k \in known[d] : Deps[d][k] = c

Mattering ==
  <<[s \in Signal |-> IF s \in Source \/ ValueMatters(s) THEN value[s] ELSE Zero],
    [c \in Derived |-> IF Observed(subs[c]) THEN notified[c] ELSE Zero],
    known, subs, notifying, dirty, queued, batchDepth, batchQueue, historyVars, stack, panicking,
    callVars>>

Symmetry == Permutations(Listener)
=============================================================================
