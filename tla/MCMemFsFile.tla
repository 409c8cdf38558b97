----------------------------- MODULE MCMemFsFile -----------------------------
(* Files of a few bytes, and offsets on both sides of every limit. *)
EXTENDS MemFsFile
CONSTANT a
SomeOffsets == 0 .. Capacity + 1 \cup {Wrap, Wrap + Capacity}
=============================================================================
