------------------------------ MODULE MCScopes ------------------------------
(***************************************************************************)
(* A scope in an element of the outermost scope; in it, a component and a  *)
(* boundary around an element with a scope.                                *)
(***************************************************************************)
EXTENDS Scopes

MCKind == <<"scope", "element", "scope", "component", "boundary", "element", "scope">>

MCUp == <<0, 1, 2, 3, 3, 5, 6>>
=============================================================================
