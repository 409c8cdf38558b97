--------------------------- MODULE WordSerializer ---------------------------
(***************************************************************************)
(* hdl/ftj_word_serializer.v: the bytes of an encoded word, one by one.    *)
(* Next-state function of its registers; "rest" is the part of word_latch  *)
(* from byte_idx on.                                                       *)
(***************************************************************************)
EXTENDS Sequences

SerReset ==
  [state |-> "idle", in_ready |-> TRUE, rest |-> << >>, last_latch |-> FALSE,
   out_valid |-> FALSE, out_data |-> 0, out_last |-> FALSE]

\* A byte taken is no longer offered.
SerTaken(s, out_ready) ==
  IF s.out_valid /\ out_ready
  THEN [s EXCEPT !.out_valid = FALSE, !.out_last = FALSE]
  ELSE s

\* S_IDLE: wait for a word.
SerIdle(s, in_valid, word, last, out_ready) ==
  IF in_valid /\ s.in_ready
  THEN [SerTaken(s, out_ready) EXCEPT
          !.rest = word, !.last_latch = last, !.in_ready = FALSE, !.state = "stream"]
  ELSE [SerTaken(s, out_ready) EXCEPT !.in_ready = TRUE]

\* The next byte of the word on the output.
SerOffer(s) ==
  LET end == Len(s.rest) = 1 IN
  [s EXCEPT !.out_valid = TRUE, !.out_data = Head(s.rest), !.rest = Tail(s.rest),
            !.out_last = s.last_latch /\ end,
            !.in_ready = end,
            !.state = CASE ~end -> "stream"
                        [] end /\ s.last_latch -> "done"
                        [] OTHER -> "idle"]

\* A mutant: the next byte is offered whether or not this one was taken.
SerStreamBlindly(s, out_ready) == SerOffer(s)

\* S_STREAM: offer the next byte when the one before was taken.
SerStream(s, out_ready) == IF s.out_valid /\ ~out_ready THEN s ELSE SerOffer(s)

\* S_DONE: the offer is withdrawn, taken or not.
SerDone(s) ==
  [s EXCEPT !.in_ready = TRUE, !.out_valid = FALSE, !.out_last = FALSE, !.state = "idle"]

SerNext(s, in_valid, word, last, out_ready) ==
  CASE s.state = "idle" -> SerIdle(s, in_valid, word, last, out_ready)
    [] s.state = "stream" -> SerStream(s, out_ready)
    [] s.state = "done" -> SerDone(s)
=============================================================================
