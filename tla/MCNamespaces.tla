---------------------------- MODULE MCNamespaces ----------------------------
(***************************************************************************)
(* A small server for Namespaces.                                          *)
(***************************************************************************)
EXTENDS Namespaces

\* Two databases of the user's and a system one; one name is found in another.
ServerNamespaces ==
    {<<"app", "a">>, <<"app", "ab">>, <<"app", "system.x">>, <<"log", "a">>, <<"admin", "a">>}
Substrings == {<<"a", "a">>, <<"a", "ab">>, <<"ab", "ab">>}

\* No list, a list with a database, one that names a collection twice over, one that
\* overlaps under discovery.
FilterLists ==
    {<<>>, <<<<"app", "*">>>>, <<<<"log", "a">>, <<"admin", "a">>>>,
     <<<<"log", "a">>, <<"log", "a">>>>, <<<<"app", "a">>, <<"app", "ab">>, <<"log", "*">>>>}

\* A mongod's answer, and that of a mongos with two shards; one and two indexes.
Documents ==
    {{[shard |-> "", key |-> "k"]},
     {[shard |-> s, key |-> k] : s \in {"s1", "s2"}, k \in {"k", "l"}}}
=============================================================================
