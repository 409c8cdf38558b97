-------------------------- MODULE MCBurstCoalescer --------------------------
(* Two slots and three pages, two of which share a slot. *)
EXTENDS BurstCoalescer
=============================================================================
