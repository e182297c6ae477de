------------------------------ MODULE MCInput ------------------------------
(* A keyboard and a mouse on queues of two buffers with indices that wrap  *)
(* after four events.                                                      *)
EXTENDS Input

Evdev(type, code, value) == [type |-> type, code |-> code, value |-> value]
MCDevices == <<"kbd0", "mouse0">>
MCRaw == [d \in Range(MCDevices) |->
  IF d = "kbd0" THEN {Evdev("key", 29, 1), Evdev("key", 29, 0), Evdev("key", 46, 1)}
  ELSE {Evdev("rel", 0, Word - 1), Evdev("syn", 0, 0)}]
MCKeys == 29 :> "left-ctrl" @@ 46 :> "c"
MCButtons == 272 :> "left"
MCEvents == <<3, 2>>
MCModifiers == [k \in {"left-ctrl"} |-> "ctrl"]
=============================================================================
