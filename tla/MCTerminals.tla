---------------------------- MODULE MCTerminals ----------------------------
(* Two terminals that use one slot after the other.  On the first a task   *)
(* that its program spawns prints, beyond the program's end, and write! is *)
(* given two texts, the second of which may end in a parameter that feed   *)
(* cannot read.  On the second its program prints.                         *)
EXTENDS Terminals

MCParentOf == [w \in Tasks |-> "a"]
MCBytes == [w \in Writers |-> CASE w = "a" -> 0 [] w = "b" -> 1 [] OTHER -> 2]
MCWrites == [t \in Terms |-> IF t = "a" THEN 2 ELSE 0]
MCMalformed == {Text("a", 2)}
=============================================================================
