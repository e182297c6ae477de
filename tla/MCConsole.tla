------------------------------ MODULE MCConsole ------------------------------
(* The console ring on small counters: see MCConsole.cfg.                  *)
EXTENDS Console

MCByte == {Nul, CtrlC}
=============================================================================
