-------------------------------- MODULE MCIrq --------------------------------
(* Three listeners: two on one interrupt and one on another.               *)
EXTENDS Irq

CONSTANTS l1, l2, l3

MCListener == {l1, l2, l3}

\* 10 is UART_IRQ, 1 the first virtio slot.
MCSources == {1, 10}
MCIrqOf == [l \in Listener |-> IF l = l3 THEN 1 ELSE 10]
=============================================================================
