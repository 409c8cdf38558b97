---------------------------- MODULE MCSecdedEcc ----------------------------
(* The word of src/tests.cpp among others, and the bits that may flip. *)
EXTENDS SecdedEcc

\* 0x0123456789ABCDEF, the word TestECC uses.
TestWord ==
  {0, 1, 2, 3, 5, 6, 7, 8, 10, 11, 14, 15, 16, 17, 19, 21, 23, 24, 27,
   31, 32, 33, 34, 37, 38, 40, 42, 46, 48, 49, 53, 56}
AllOnes == Bits

EveryBit == Bits
SomeBits == {0, 3, 5, 10, 31, 57, 63}
WholeWord == {Bits}
FirstBytes == {0 .. 7, Bits}
SampleWords == {{}, TestWord, AllOnes}
=============================================================================
