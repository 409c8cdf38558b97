------------------------- MODULE LockFreeRingBuffer -------------------------
(***************************************************************************)
(* LockFreeRingBuffer<T> of include/ftj_engine.hpp: Vyukov's bounded       *)
(* multi-producer multi-consumer queue, which carries the submission and   *)
(* completion entries of NVMeQueuePair.  One action is one access to       *)
(* shared memory, so every interleaving of Push and Pop is explored.       *)
(*                                                                         *)
(* Positions are natural numbers: size_t has 64 bits, which no run of the  *)
(* program exhausts.  pos & buffer_mask_ is pos % Size because size_ is a  *)
(* power of two.  Accesses are sequentially consistent; the acquire and    *)
(* release orders on "sequence" are what makes that right for the data.    *)
(***************************************************************************)
EXTENDS Integers, Sequences

CONSTANTS
  Producers,  \* threads that call Push
  Consumers,  \* threads that call Pop
  Size,       \* size_, after the constructor has rounded it
  MaxPush     \* bound of the model: entries each producer pushes

ASSUME SizeAssumption == Size \in Nat \ {0}
ASSUME MaxPushAssumption == MaxPush \in Nat
ASSUME ThreadsAssumption == Producers \cap Consumers = {}

VARIABLES
  enqueue_pos,  \* the next position a Push claims
  dequeue_pos,  \* the next position a Pop claims
  sequence,     \* sequence[i]: the turn of cell i
  data,         \* data[i]: the entry in cell i
  pc,           \* pc[t]: where thread t is
  pos,          \* pos[t]: the local "pos" of Push or Pop
  got,          \* got[c]: the T& argument of c's Pop
  pushes,       \* pushes[p]: completed Push calls of p
  log           \* history: the entry claimed for each position

vars == <<enqueue_pos, dequeue_pos, sequence, data, pc, pos, got, pushes, log>>

Threads == Producers \cup Consumers
Cells == 0 .. Size - 1
Cell(x) == x % Size
NoEntry == <<>>

\* The entry the current Push call of p carries.
Entry(p) == <<p, pushes[p]>>

Init ==
  /\ enqueue_pos = 0
  /\ dequeue_pos = 0
  /\ sequence = [i \in Cells |-> i]
  /\ data = [i \in Cells |-> NoEntry]
  /\ pc = [t \in Threads |-> "idle"]
  /\ pos = [t \in Threads |-> 0]
  /\ got = [c \in Consumers |-> NoEntry]
  /\ pushes = [p \in Producers |-> 0]
  /\ log = << >>

Goto(t, label) == pc' = [pc EXCEPT ![t] = label]

(***************************************************************************)
(* Push.                                                                   *)
(***************************************************************************)

\* Load enqueue_pos_: on entry, and again when another Push has moved on.
PushLoad(p) ==
  /\ \/ pc[p] = "idle" /\ pushes[p] < MaxPush
     \/ pc[p] = "reload"
  /\ pos' = [pos EXCEPT ![p] = enqueue_pos]
  /\ Goto(p, "check")
  /\ UNCHANGED <<enqueue_pos, dequeue_pos, sequence, data, got, pushes, log>>

\* Faulty variant: a cell whose previous entry is still there is claimed too.
PushTurnOnFull(p) ==
  /\ pc[p] = "check"
  /\ sequence[Cell(pos[p])] <= pos[p]
  /\ Goto(p, "cas")
  /\ UNCHANGED <<enqueue_pos, dequeue_pos, sequence, data, pos, got, pushes, log>>

\* Load the cell's sequence and branch on dif = seq - pos.
PushTurn(p) ==
  /\ pc[p] = "check"
  /\ sequence[Cell(pos[p])] = pos[p]
  /\ Goto(p, "cas")
  /\ UNCHANGED <<enqueue_pos, dequeue_pos, sequence, data, pos, got, pushes, log>>

\* Faulty variant: any other turn counts as full, a stale position included.
PushFullOnStale(p) ==
  /\ pc[p] = "check"
  /\ sequence[Cell(pos[p])] # pos[p]
  /\ Goto(p, "idle")
  /\ UNCHANGED <<enqueue_pos, dequeue_pos, sequence, data, pos, got, pushes, log>>

PushFull(p) ==
  /\ pc[p] = "check"
  /\ sequence[Cell(pos[p])] < pos[p]
  /\ Goto(p, "idle")                       \* return false
  /\ UNCHANGED <<enqueue_pos, dequeue_pos, sequence, data, pos, got, pushes, log>>

\* Faulty variant: the loop goes round without reloading enqueue_pos_.
PushBehindNoReload(p) ==
  /\ pc[p] = "check"
  /\ sequence[Cell(pos[p])] > pos[p]
  /\ UNCHANGED vars

PushBehind(p) ==
  /\ pc[p] = "check"
  /\ sequence[Cell(pos[p])] > pos[p]
  /\ Goto(p, "reload")
  /\ UNCHANGED <<enqueue_pos, dequeue_pos, sequence, data, pos, got, pushes, log>>

\* Faulty variant: a plain store instead of the compare_exchange.
PushClaimByStore(p) ==
  /\ pc[p] = "cas"
  /\ enqueue_pos' = pos[p] + 1
  /\ log' = Append(log, Entry(p))
  /\ Goto(p, "write")
  /\ UNCHANGED <<dequeue_pos, sequence, data, pos, got, pushes>>

\* compare_exchange_weak succeeds: p owns position pos[p].
PushClaim(p) ==
  /\ pc[p] = "cas"
  /\ enqueue_pos = pos[p]
  /\ enqueue_pos' = enqueue_pos + 1
  /\ log' = Append(log, Entry(p))
  /\ Goto(p, "write")
  /\ UNCHANGED <<dequeue_pos, sequence, data, pos, got, pushes>>

\* compare_exchange_weak fails, spuriously or not, and reloads pos.
PushClaimFails(p) ==
  /\ pc[p] = "cas"
  /\ pos' = [pos EXCEPT ![p] = enqueue_pos]
  /\ Goto(p, "check")
  /\ UNCHANGED <<enqueue_pos, dequeue_pos, sequence, data, got, pushes, log>>

PushWrite(p) ==
  /\ pc[p] = "write"
  /\ data' = [data EXCEPT ![Cell(pos[p])] = Entry(p)]
  /\ Goto(p, "publish")
  /\ UNCHANGED <<enqueue_pos, dequeue_pos, sequence, pos, got, pushes, log>>

\* Store pos + 1 in the cell's sequence and return true.
PushPublish(p) ==
  /\ pc[p] = "publish"
  /\ sequence' = [sequence EXCEPT ![Cell(pos[p])] = pos[p] + 1]
  /\ pushes' = [pushes EXCEPT ![p] = @ + 1]
  /\ Goto(p, "idle")
  /\ UNCHANGED <<enqueue_pos, dequeue_pos, data, pos, got, log>>

(***************************************************************************)
(* Pop.                                                                    *)
(***************************************************************************)

PopLoad(c) ==
  /\ pc[c] \in {"idle", "reload"}
  /\ pos' = [pos EXCEPT ![c] = dequeue_pos]
  /\ Goto(c, "check")
  /\ UNCHANGED <<enqueue_pos, dequeue_pos, sequence, data, got, pushes, log>>

\* Load the cell's sequence and branch on dif = seq - (pos + 1).
PopTurn(c) ==
  /\ pc[c] = "check"
  /\ sequence[Cell(pos[c])] = pos[c] + 1
  /\ Goto(c, "cas")
  /\ UNCHANGED <<enqueue_pos, dequeue_pos, sequence, data, pos, got, pushes, log>>

PopEmpty(c) ==
  /\ pc[c] = "check"
  /\ sequence[Cell(pos[c])] < pos[c] + 1
  /\ Goto(c, "idle")                       \* return false
  /\ UNCHANGED <<enqueue_pos, dequeue_pos, sequence, data, pos, got, pushes, log>>

PopBehind(c) ==
  /\ pc[c] = "check"
  /\ sequence[Cell(pos[c])] > pos[c] + 1
  /\ Goto(c, "reload")
  /\ UNCHANGED <<enqueue_pos, dequeue_pos, sequence, data, pos, got, pushes, log>>

\* Faulty variant: a plain store instead of the compare_exchange.
PopClaimByStore(c) ==
  /\ pc[c] = "cas"
  /\ dequeue_pos' = pos[c] + 1
  /\ Goto(c, "read")
  /\ UNCHANGED <<enqueue_pos, sequence, data, pos, got, pushes, log>>

PopClaim(c) ==
  /\ pc[c] = "cas"
  /\ dequeue_pos = pos[c]
  /\ dequeue_pos' = dequeue_pos + 1
  /\ Goto(c, "read")
  /\ UNCHANGED <<enqueue_pos, sequence, data, pos, got, pushes, log>>

PopClaimFails(c) ==
  /\ pc[c] = "cas"
  /\ pos' = [pos EXCEPT ![c] = dequeue_pos]
  /\ Goto(c, "check")
  /\ UNCHANGED <<enqueue_pos, dequeue_pos, sequence, data, got, pushes, log>>

PopRead(c) ==
  /\ pc[c] = "read"
  /\ got' = [got EXCEPT ![c] = data[Cell(pos[c])]]
  /\ Goto(c, "release")
  /\ UNCHANGED <<enqueue_pos, dequeue_pos, sequence, data, pos, pushes, log>>

\* Faulty variant: the wrong lap is stored.
PopReleaseOffByOne(c) ==
  /\ pc[c] = "release"
  /\ sequence' = [sequence EXCEPT ![Cell(pos[c])] = pos[c] + Size + 1]
  /\ Goto(c, "idle")
  /\ UNCHANGED <<enqueue_pos, dequeue_pos, data, pos, got, pushes, log>>

\* Store pos + size_ in the cell's sequence and return true.
PopRelease(c) ==
  /\ pc[c] = "release"
  /\ sequence' = [sequence EXCEPT ![Cell(pos[c])] = pos[c] + Size]
  /\ Goto(c, "idle")
  /\ UNCHANGED <<enqueue_pos, dequeue_pos, data, pos, got, pushes, log>>

(***************************************************************************)
(* The specification.                                                      *)
(***************************************************************************)

Push(p) ==
  \/ PushLoad(p)
  \/ PushTurn(p)
  \/ PushFull(p)
  \/ PushBehind(p)
  \/ PushClaim(p)
  \/ PushClaimFails(p)
  \/ PushWrite(p)
  \/ PushPublish(p)

Pop(c) ==
  \/ PopLoad(c)
  \/ PopTurn(c)
  \/ PopEmpty(c)
  \/ PopBehind(c)
  \/ PopClaim(c)
  \/ PopClaimFails(c)
  \/ PopRead(c)
  \/ PopRelease(c)

Next ==
  \/ \E p \in Producers : Push(p)
  \/ \E c \in Consumers : Pop(c)

Spec == Init /\ [][Next]_vars

\* Every thread keeps being scheduled, callers retry a refused call, and a
\* compare_exchange_weak that would succeed does not fail for ever.
Fairness ==
  /\ \A p \in Producers : WF_vars(Push(p)) /\ SF_vars(PushClaim(p))
  /\ \A c \in Consumers : WF_vars(Pop(c)) /\ SF_vars(PopClaim(c))

FairSpec == Spec /\ Fairness

(***************************************************************************)
(* Properties.                                                             *)
(***************************************************************************)

Entries == Producers \X Nat

TypeOK ==
  /\ enqueue_pos \in Nat
  /\ dequeue_pos \in Nat
  /\ sequence \in [Cells -> Nat]
  /\ data \in [Cells -> Entries \cup {NoEntry}]
  /\ pc \in [Threads -> {"idle", "check", "reload", "cas", "write", "publish", "read", "release"}]
  /\ pos \in [Threads -> Nat]
  /\ got \in [Consumers -> Entries \cup {NoEntry}]
  /\ pushes \in [Producers -> Nat]
  /\ log \in Seq(Entries)

\* p has claimed position x and has not published it yet.
Filling(p, x) == pc[p] \in {"write", "publish"} /\ pos[p] = x

\* c has claimed position x and has not given the cell back yet.
Draining(c, x) == pc[c] \in {"read", "release"} /\ pos[c] = x

\* The non-atomic copies "cell->data = data" and "data = cell->data" never
\* run on a cell another thread has claimed: one owner per cell at a time.
OneOwnerPerCell ==
  \A s, t \in Threads :
    /\ s # t
    /\ pc[s] \in {"write", "publish", "read", "release"}
    /\ pc[t] \in {"write", "publish", "read", "release"}
    => Cell(pos[s]) # Cell(pos[t])

\* The buffer never accepts more entries than it has cells: Push is refused
\* ("Queue full") while Size entries wait.
NeverOverfull == enqueue_pos - dequeue_pos <= Size

\* Pop hands out, for the position it claimed, the entry Push accepted there.
PopReturnsItsEntry ==
  \A c \in Consumers : pc[c] = "release" => got[c] = log[pos[c] + 1]

\* "return false" is never caused by a stale position.  A refused Push saw
\* the current enqueue_pos_, and the buffer either is full or waits for the
\* consumer of that cell to finish; a refused Pop saw the current
\* dequeue_pos_, and the buffer either is empty or waits for the producer.
RefusedForCause ==
  [][/\ \A p \in Producers : PushFull(p) =>
          /\ pos[p] = enqueue_pos
          /\ \/ enqueue_pos - dequeue_pos = Size
             \/ \E c \in Consumers : Draining(c, enqueue_pos - Size)
     /\ \A c \in Consumers : PopEmpty(c) =>
          /\ pos[c] = dequeue_pos
          /\ \/ enqueue_pos = dequeue_pos
             \/ \E p \in Producers : Filling(p, dequeue_pos)]_vars

\* The queue callers see.
Accepted == [p \in Producers |-> IF pc[p] \in {"write", "publish"}
                                 THEN pushes[p] + 1 ELSE pushes[p]]
Delivered == [c \in Consumers |-> IF pc[c] = "read"
                                  THEN log[pos[c] + 1] ELSE got[c]]
Queue == INSTANCE BoundedQueue
           WITH Capacity <- Size, hist <- log, taken <- dequeue_pos,
                out <- Delivered, sent <- Accepted

\* Push and Pop together implement the atomic bounded FIFO of BoundedQueue:
\* a successful compare_exchange is the moment an entry enters or leaves.
ImplementsQueue == Queue!Spec

\* Every entry is eventually accepted and handed to a consumer, whatever
\* the number of refusals, lost races and spurious failures on the way.
AllDelivered ==
  <>(/\ \A p \in Producers : pushes[p] = MaxPush
     /\ dequeue_pos = enqueue_pos
     /\ \A c \in Consumers : pc[c] \notin {"read", "release"})

(***************************************************************************)
(* The inductive invariant.  The last Size claimed positions, the window,  *)
(* occupy one cell each; a cell's turn says where its position stands.     *)
(***************************************************************************)
Window == enqueue_pos - Size .. enqueue_pos - 1

Bounds ==
  /\ dequeue_pos <= enqueue_pos
  /\ enqueue_pos <= dequeue_pos + Size
  /\ Len(log) = enqueue_pos

Labels ==
  /\ \A p \in Producers : pc[p] \in {"idle", "check", "reload", "cas", "write", "publish"}
  /\ \A c \in Consumers : pc[c] \in {"idle", "check", "reload", "cas", "read", "release"}

\* A claimed position is pending until published, then drained, then free.
Turns ==
  \A x \in Window :
    sequence[Cell(x)] =
      IF x >= dequeue_pos
      THEN IF \E p \in Producers : Filling(p, x) THEN x ELSE x + 1
      ELSE IF \E c \in Consumers : Draining(c, x) THEN x + 1 ELSE x + Size

\* Positions are claimed by one thread at a time, inside the window.
Claims ==
  /\ \A p \in Producers : pc[p] \in {"write", "publish"} =>
       /\ dequeue_pos <= pos[p] /\ pos[p] < enqueue_pos
       /\ \A q \in Producers : Filling(q, pos[p]) => q = p
  /\ \A c \in Consumers : pc[c] \in {"read", "release"} =>
       /\ enqueue_pos - Size <= pos[c] /\ pos[c] < dequeue_pos
       /\ \A d \in Consumers : Draining(d, pos[c]) => d = c

\* A thread's position may be stale but never ahead, and a cell's turn is
\* never behind a position that has been claimed.
Stale ==
  /\ \A p \in Producers :
       /\ pos[p] <= enqueue_pos
       /\ pos[p] < enqueue_pos => sequence[Cell(pos[p])] >= pos[p]
       /\ pc[p] = "cas" => sequence[Cell(pos[p])] >= pos[p]
  /\ \A c \in Consumers :
       /\ pos[c] <= dequeue_pos
       /\ pos[c] < dequeue_pos => sequence[Cell(pos[c])] >= pos[c] + 1
       /\ pc[c] = "cas" => sequence[Cell(pos[c])] >= pos[c] + 1

Contents ==
  /\ \A x \in Window : x >= dequeue_pos =>
       (\E p \in Producers : Filling(p, x)) \/ data[Cell(x)] = log[x + 1]
  /\ \A p \in Producers :
       /\ pc[p] \in {"write", "publish"} => log[pos[p] + 1] = Entry(p)
       /\ pc[p] = "publish" => data[Cell(pos[p])] = Entry(p)
  /\ \A c \in Consumers :
       /\ pc[c] = "read" => data[Cell(pos[c])] = log[pos[c] + 1]
       /\ pc[c] = "release" => got[c] = log[pos[c] + 1]

\* Everything the safety of the buffer rests on: bounds, turns, claims,
\* stale positions and cell contents; inductive for buffers of 2 or more.
IInv == TypeOK /\ Bounds /\ Labels /\ Turns /\ Claims /\ Stale /\ Contents
=============================================================================
