----------------------------- MODULE Compressor -----------------------------
(***************************************************************************)
(* hdl/ftj_compressor.v: a run of zero bytes becomes a zero and its        *)
(* length, other bytes pass.  Next-state function of its registers; the    *)
(* telemetry counters are left out.                                        *)
(***************************************************************************)
EXTENDS Naturals

CONSTANT MaxRun   \* MAX_RUN

CmpReset ==
  [state |-> "idle", in_ready |-> TRUE, run |-> 0, pending_last |-> FALSE,
   out_valid |-> FALSE, out_data |-> 0, out_last |-> FALSE]

CmpTaken(c, out_ready) ==
  IF c.out_valid /\ out_ready
  THEN [c EXCEPT !.out_valid = FALSE, !.out_last = FALSE]
  ELSE c

\* S_IDLE: a zero begins a run, another byte is passed on.
CmpIdle(c, in_valid, data, last, out_ready) ==
  LET t == [CmpTaken(c, out_ready) EXCEPT !.in_ready = TRUE] IN
  CASE ~(in_valid /\ c.in_ready) -> t
    [] in_valid /\ c.in_ready /\ data = 0 ->
         [t EXCEPT !.run = 1, !.pending_last = last,
                   !.state = IF last THEN "flush" ELSE "stream"]
    [] in_valid /\ c.in_ready /\ data # 0 ->
         [t EXCEPT !.out_valid = TRUE, !.out_data = data, !.out_last = last,
                   !.state = IF last THEN "done" ELSE "idle"]

\* A zero that still fits the run.
CountsOn(c, data) == data = 0 /\ c.run < MaxRun

\* The zero that stands before the length of a run.
Marked(t) ==
  [t EXCEPT !.in_ready = FALSE, !.out_valid = TRUE, !.out_data = 0,
            !.out_last = FALSE, !.state = "flush"]

\* S_STREAM: count the run; what ends it is taken, and not kept.
CmpStream(c, in_valid, data, last, out_ready) ==
  LET t == CmpTaken(c, out_ready) IN
  CASE ~(in_valid /\ c.in_ready) -> t
    [] in_valid /\ c.in_ready /\ CountsOn(c, data) ->
         IF last THEN [Marked(t) EXCEPT !.run = @ + 1, !.pending_last = TRUE]
                 ELSE [t EXCEPT !.run = @ + 1]
    [] OTHER -> [Marked(t) EXCEPT !.pending_last = last]

\* S_FLUSH_RUN: offer the length once the zero was taken.
CmpFlush(c, out_ready) ==
  IF c.out_valid /\ ~out_ready
  THEN c
  ELSE [c EXCEPT !.out_valid = TRUE, !.out_data = c.run, !.out_last = c.pending_last,
                 !.run = 0, !.in_ready = TRUE,
                 !.state = IF c.pending_last THEN "done" ELSE "idle"]

\* S_DONE.
CmpDone(c) ==
  [c EXCEPT !.in_ready = TRUE, !.out_valid = FALSE, !.out_last = FALSE, !.state = "idle"]

CmpNext(c, in_valid, data, last, out_ready) ==
  CASE c.state = "idle" -> CmpIdle(c, in_valid, data, last, out_ready)
    [] c.state = "stream" -> CmpStream(c, in_valid, data, last, out_ready)
    [] c.state = "flush" -> CmpFlush(c, out_ready)
    [] c.state = "done" -> CmpDone(c)
=============================================================================
