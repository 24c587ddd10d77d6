------------------------------- MODULE MCPage -------------------------------
(***************************************************************************)
(* An element with a route scope: metadata, and a fragment of an element,  *)
(* whose text differs between server and client and which holds a portal   *)
(* with a file input, and of raw HTML.                                     *)
(***************************************************************************)
EXTENDS Events

MCKind ==
  <<"element", "scope", "metadata", "tag", "group", "dynamic", "text", "portal", "element", "raw">>

MCUp == <<0, 1, 2, 3, 2, 5, 6, 6, 8, 5>>
=============================================================================
