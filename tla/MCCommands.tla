----------------------------- MODULE MCCommands -----------------------------
(***************************************************************************)
(* A small cluster for Commands.                                           *)
(***************************************************************************)
EXTENDS Commands

\* Two databases, the name of one being the other's and more.
ClusterSharded == {<<"app", "a">>, <<"app", "b">>, <<"app2", "a">>}
ClusterExtends == {<<"app", "app2">>}
=============================================================================
