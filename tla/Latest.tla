-------------------------------- MODULE Latest --------------------------------
(***************************************************************************)
(* What a resource promises (hooks.Resource): only the result of the       *)
(* newest load is ever shown, so a result that was shown stays until a     *)
(* newer load has one.                                                     *)
(***************************************************************************)
EXTENDS Naturals

VARIABLES
  newest,   \* the newest load started, or the mark of the unmount that ended all
  shown     \* the load whose result is shown, 0 before the first result

vars == <<newest, shown>>

Init == newest = 0 /\ shown = 0

Start ==
  /\ newest' = newest + 1
  /\ UNCHANGED shown

Settle ==
  /\ shown < newest
  /\ shown' = newest
  /\ UNCHANGED newest

Next == Start \/ Settle

Spec == Init /\ [][Next]_vars
=============================================================================
