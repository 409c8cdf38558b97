---------------------------- MODULE MCRingBuffer ----------------------------
(* Small instances of LockFreeRingBuffer. *)
EXTENDS LockFreeRingBuffer
=============================================================================
