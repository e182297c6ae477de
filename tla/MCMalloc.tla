------------------------------ MODULE MCMalloc ------------------------------
(* A heap of a few blocks: see MCMalloc.cfg.                               *)
EXTENDS Malloc

CONSTANTS x

MCData == {x, Zero}
=============================================================================
