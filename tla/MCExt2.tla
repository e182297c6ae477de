------------------------------- MODULE MCExt2 -------------------------------
(* A disk of a few blocks, two directory levels.                           *)
EXTENDS Ext2

MCName == {"a", "b"}
MCPaths == {<<"a">>, <<"b">>, <<"a", "b">>, <<"b", "b">>}
LongLink == {[absolute |-> FALSE, long |-> TRUE, path |-> <<"a">>]}
ShortLink == {[absolute |-> TRUE, long |-> FALSE, path |-> <<"a">>]}

\* Past a spoiled disk nothing is claimed, and nothing is explored.
NotSpoiled == ~spoiled
=============================================================================
