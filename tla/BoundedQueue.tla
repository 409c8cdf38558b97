---------------------------- MODULE BoundedQueue ----------------------------
(***************************************************************************)
(* What LockFreeRingBuffer promises its callers: a bounded FIFO queue      *)
(* whose Push and Pop take effect atomically.  The queue is kept as its    *)
(* whole history of entries and the number already taken from it, so that  *)
(* "exactly once, in order" is visible in the state.                       *)
(***************************************************************************)
EXTENDS Naturals, Sequences

CONSTANTS
  Producers,  \* threads that call Push
  Consumers,  \* threads that call Pop
  Capacity    \* entries the queue can hold

VARIABLES
  hist,   \* every entry accepted so far, in order
  taken,  \* how many of them have been handed to a consumer
  out,    \* out[c]: what c's latest Pop wrote through its reference argument
  sent    \* sent[p]: how many entries of p were accepted

qvars == <<hist, taken, out, sent>>

\* The content of an output argument no Pop has written yet.
NoEntry == <<>>

Init ==
  /\ hist = << >>
  /\ taken = 0
  /\ out = [c \in Consumers |-> NoEntry]
  /\ sent = [p \in Producers |-> 0]

\* A Push that returns true: p's next entry is accepted when there is room.
Enqueue(p) ==
  /\ Len(hist) - taken < Capacity
  /\ hist' = Append(hist, <<p, sent[p]>>)
  /\ sent' = [sent EXCEPT ![p] = @ + 1]
  /\ UNCHANGED <<taken, out>>

\* A Pop that returns true: the oldest entry not yet taken goes to c alone.
Dequeue(c) ==
  /\ taken < Len(hist)
  /\ out' = [out EXCEPT ![c] = hist[taken + 1]]
  /\ taken' = taken + 1
  /\ UNCHANGED <<hist, sent>>

Next ==
  \/ \E p \in Producers : Enqueue(p)
  \/ \E c \in Consumers : Dequeue(c)

Spec == Init /\ [][Next]_qvars
=============================================================================
