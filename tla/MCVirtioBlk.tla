----------------------------- MODULE MCVirtioBlk -----------------------------
(* The C virtio-blk driver against one small device.                       *)
EXTENDS VirtioBlk

CONSTANTS v0, v1

MCVal == {v0, v1}
=============================================================================
