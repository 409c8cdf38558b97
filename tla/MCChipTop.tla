------------------------------ MODULE MCChipTop ------------------------------
(* Words of one to three bytes, zero or not. *)
EXTENDS ChipTop
SomeWords == {<<1>>, <<0, 0>>, <<0, 1>>, <<1, 2, 0>>}
=============================================================================
