------------------------------ MODULE MCRouter ------------------------------
(***************************************************************************)
(* An application under the base "/g" with a Route of overlapping patterns *)
(* and two standalone SubRoutes.                                           *)
(***************************************************************************)
EXTENDS Router, TLC

MCBase == <<"g">>

\* Two are not what a URL makes of them: "/org/a b/r" and "/old?y=1".
MCPaths == {<<"org", "a b", "r">>, <<"old">>, <<"old?y=1">>}

MCEscapes == "a b" :> "a%20b"

MCCuts == "old?y=1" :> [segment |-> "old", search |-> << <<"y", "1">> >>]

MCPairs == {<<"y", "1">>, <<"y", "">>}

MCSearches == {<< <<"y", "2">>, <<"y", "1">>, <<"", "3">> >>}

MCParameter == {":kind", ":page", ":more", ":org", ":id", ":repo"}

MCRoutes == << <<"404">>, <<":kind", ":page", ":more">>, <<"old">>, <<"org", ":org", "*">> >>

MCNested == [r \in { <<"org", ":org", "*">> } |-> << <<":repo">> >>]

MCRedirects == [r \in { <<"old">> } |-> <<"org", "new">>]

MCFallible == {<<"org", ":org", "*">>}

MCLazy == {<<"404">>}

MCGuarded == {<<"old">>}

\* Standalone SubRoutes, each with a parameter of a name that another scope has as well.
MCSides ==
  << [prefix |-> <<"org">>, routes |-> << <<":id">>, <<":repo", "*">> >>],
     [prefix |-> <<"org">>, routes |-> << <<":id", "*">>, <<"new">> >>] >>
=============================================================================
