------------------------------ MODULE MCRingTx ------------------------------
(* Two senders on a ring of three descriptors (two usable): the ring fills, *)
(* the indices wrap around, and the pulses of both senders overlap.         *)
EXTENDS RingTx
=============================================================================
