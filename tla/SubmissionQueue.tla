--------------------------- MODULE SubmissionQueue ---------------------------
(***************************************************************************)
(* hdl/ftj_submission_queue.v: the circular FIFO between the host and the  *)
(* memory engine.  One step is one rising clock edge, which sees the       *)
(* inputs as they stand, or an asynchronous reset; whatever drives the     *)
(* inputs leaves them at any level for the edge after.                     *)
(***************************************************************************)
EXTENDS Integers, Sequences

CONSTANTS
  Depth,  \* 1 << ADDR_WIDTH
  Data,   \* requests on data_in
  Zero    \* the request of all zero bits, in Data

ASSUME DepthAssumption == Depth \in Nat /\ Depth > 1
ASSUME ZeroAssumption == Zero \in Data

VARIABLES
  wr_en, rd_en, data_in,  \* inputs
  wr_ptr,     \* slot of the next request to come
  rd_ptr,     \* slot of the next request to go
  is_full,    \* the full flag
  queue_mem,  \* the slots
  data_out    \* output register

inputs == <<wr_en, rd_en, data_in>>
vars == <<inputs, wr_ptr, rd_ptr, is_full, queue_mem, data_out>>

Slots == 0 .. Depth - 1

\* ADDR_WIDTH-bit addition: the pointers wrap around.
Succ(ptr) == IF ptr = Depth - 1 THEN 0 ELSE ptr + 1

full == is_full
empty == wr_ptr = rd_ptr /\ ~ is_full

Inputs == wr_en \in BOOLEAN /\ rd_en \in BOOLEAN /\ data_in \in Data

\* The host and the engine drive any levels for the next edge.
Drive == wr_en' \in BOOLEAN /\ rd_en' \in BOOLEAN /\ data_in' \in Data

\* After the first reset; the memory is not reset and holds anything.
Init ==
  /\ Inputs
  /\ wr_ptr = 0
  /\ rd_ptr = 0
  /\ is_full = FALSE
  /\ queue_mem \in [Slots -> Data]
  /\ data_out = Zero

Reset ==
  /\ wr_ptr' = 0
  /\ rd_ptr' = 0
  /\ is_full' = FALSE
  /\ data_out' = Zero
  /\ UNCHANGED queue_mem

\* Faulty variant: a write in the cycle of a read is dropped.
WriteUnlessRead ==
  IF wr_en /\ ~ full /\ ~ (rd_en /\ ~ empty)
  THEN /\ queue_mem' = [queue_mem EXCEPT ![wr_ptr] = data_in]
       /\ wr_ptr' = Succ(wr_ptr)
  ELSE UNCHANGED <<queue_mem, wr_ptr>>

Write ==
  IF wr_en /\ ~ full
  THEN /\ queue_mem' = [queue_mem EXCEPT ![wr_ptr] = data_in]
       /\ wr_ptr' = Succ(wr_ptr)
  ELSE UNCHANGED <<queue_mem, wr_ptr>>

Read ==
  IF rd_en /\ ~ empty
  THEN /\ data_out' = queue_mem[rd_ptr]
       /\ rd_ptr' = Succ(rd_ptr)
  ELSE UNCHANGED <<data_out, rd_ptr>>

\* Faulty variant: a read in the cycle of an attempted write leaves the flag.
FullFlagStuck ==
  is_full' = IF rd_en /\ ~ wr_en /\ is_full THEN FALSE
             ELSE IF wr_en /\ ~ full /\ Succ(wr_ptr) = rd_ptr THEN TRUE
             ELSE is_full

\* The later of two non-blocking assignments wins: reading clears the flag.
FullFlag ==
  is_full' = IF rd_en /\ is_full THEN FALSE
             ELSE IF wr_en /\ ~ full /\ Succ(wr_ptr) = rd_ptr THEN TRUE
             ELSE is_full

Clock == Write /\ Read /\ FullFlag

Next == (Clock \/ Reset) /\ Drive

Spec == Init /\ [][Next]_vars

(***************************************************************************)
(* Properties.                                                             *)
(***************************************************************************)

TypeOK ==
  /\ Inputs
  /\ wr_ptr \in Slots
  /\ rd_ptr \in Slots
  /\ is_full \in BOOLEAN
  /\ queue_mem \in [Slots -> Data]
  /\ data_out \in Data

\* The number of requests held, read off the pointers and the flag.
Held ==
  IF wr_ptr = rd_ptr
  THEN IF is_full THEN Depth ELSE 0
  ELSE IF wr_ptr > rd_ptr THEN wr_ptr - rd_ptr ELSE wr_ptr - rd_ptr + Depth

\* The slot of the i-th oldest request.
SlotOf(i) == IF rd_ptr + i - 1 < Depth THEN rd_ptr + i - 1 ELSE rd_ptr + i - 1 - Depth

Requests == [i \in 1 .. Held |-> queue_mem[SlotOf(i)]]

\* The ports of both modules have the same names: wr_en, rd_en, data_in,
\* full, empty and data_out are bound signal by signal.
Fifo == INSTANCE BoundedFifo WITH Capacity <- Depth, q <- Requests

\* Every request on data_in in a cycle with wr_en and without full, and no
\* other, comes out on data_out, once and in order, in the cycles in which
\* the engine asks; a read of a queue that is not empty is never refused,
\* and the flags say what the queue holds, whatever the host and the engine
\* do in the same cycle.
ImplementsFifo == Fifo!Spec

\* The full flag is raised with at most one slot free: simultaneous writes
\* and reads cannot leave it up on a queue that has drained.
FullIsNearlyFull == is_full => Held >= Depth - 1

\* The flag is raised only with the write pointer at or just behind the
\* read pointer; inductive together with the types.
FlagShape == is_full => wr_ptr = rd_ptr \/ Succ(wr_ptr) = rd_ptr

IInv == TypeOK /\ FlagShape
=============================================================================
