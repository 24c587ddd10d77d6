---------------------------- MODULE MCFrameLoop ----------------------------
(* Small instances of FrameLoop for TLC. *)
EXTENDS FrameLoop, TLC

Chain == [s \in Scope \ {1} |-> s - 1]

\* The render of a scope marks any scope.
MarkAny == [s \in Scope |-> Scope]
=============================================================================
