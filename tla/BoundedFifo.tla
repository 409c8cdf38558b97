----------------------------- MODULE BoundedFifo -----------------------------
(***************************************************************************)
(* What the hardware submission queue promises at its ports: a clocked     *)
(* FIFO that may take and give one request in the same cycle.  It takes    *)
(* data_in in exactly the cycles with wr_en and without full, gives the    *)
(* oldest request in exactly the cycles with rd_en and without empty, and  *)
(* raises full only with at most one slot free.                            *)
(*                                                                         *)
(* The ports are variables, so that an implementation is bound to them     *)
(* signal by signal: only q, the requests inside, is for it to map.        *)
(***************************************************************************)
EXTENDS Naturals, Sequences

CONSTANTS
  Data,      \* requests
  Zero,      \* the request of all zero bits
  Capacity   \* slots

VARIABLES
  wr_en, rd_en, data_in,  \* inputs, as they stand at the coming edge
  full, empty, data_out,  \* outputs
  q                       \* the requests in the queue, oldest first

fvars == <<wr_en, rd_en, data_in, full, empty, data_out, q>>

Inputs == wr_en \in BOOLEAN /\ rd_en \in BOOLEAN /\ data_in \in Data

\* The flags: a request is refused only with at most one slot free, and
\* none is taken into a queue that has no room.
Flags ==
  /\ full \in BOOLEAN
  /\ full => Len(q) >= Capacity - 1
  /\ ~ full => Len(q) < Capacity
  /\ empty = (q = << >>)

Init ==
  /\ Inputs
  /\ q = << >>
  /\ data_out = Zero
  /\ Flags

\* The queue after the oldest request, if asked for and present, has left.
Rest == IF rd_en /\ ~ empty THEN Tail(q) ELSE q

Tick ==
  /\ data_out' = IF rd_en /\ ~ empty THEN Head(q) ELSE data_out
  /\ q' = IF wr_en /\ ~ full THEN Append(Rest, data_in) ELSE Rest

Reset == q' = << >> /\ data_out' = Zero

Next == (Tick \/ Reset) /\ Flags' /\ Inputs'

Spec == Init /\ [][Next]_fvars
=============================================================================
