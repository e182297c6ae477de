-------------------------------- MODULE MCWm --------------------------------
(* A screen of 3 x 2 tabs, windows of 2 x 2, two surfaces beside it.       *)
EXTENDS Wm
=============================================================================
