---------------------------- MODULE ByteAssembler ----------------------------
(***************************************************************************)
(* hdl/ftj_byte_assembler.v: bytes become words again.  Next-state function *)
(* of its registers; a word is the sequence of its strobed bytes.          *)
(***************************************************************************)
EXTENDS Naturals, Sequences

CONSTANT WordBytes   \* 8

AsmReset == [buf |-> << >>, out_valid |-> FALSE, out_word |-> << >>, out_last |-> FALSE]

AsmTaken(a, out_ready) ==
  IF a.out_valid /\ out_ready
  THEN [a EXCEPT !.out_valid = FALSE, !.out_word = << >>, !.out_last = FALSE]
  ELSE a

\* A mutant: the end of a burst does not flush.
CompleteWhenFull(a, last) == Len(a.buf) = WordBytes - 1

\* A word is complete when it is full or the burst ends.
Complete(a, last) == Len(a.buf) = WordBytes - 1 \/ last

\* in_ready is 1 from reset on: every byte is taken, and a word completed
\* before the one before it was taken replaces it.
AsmNext(a, in_valid, data, last, out_ready) ==
  LET t == AsmTaken(a, out_ready) IN
  CASE ~in_valid -> t
    [] in_valid /\ Complete(a, last) ->
         [buf |-> << >>, out_valid |-> TRUE, out_word |-> Append(a.buf, data),
          out_last |-> last]
    [] OTHER -> [t EXCEPT !.buf = Append(@, data)]
=============================================================================
