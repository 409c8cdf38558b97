------------------------ MODULE QueuePairBenchmark ------------------------
(***************************************************************************)
(* Clients and backend threads around one NVMeQueuePair: benchmark 4 of    *)
(* src/main.cpp.  A client submits an entry and reaps one completion, not  *)
(* necessarily its own; a backend pops an entry, executes the write and    *)
(* pushes the completion; main joins the clients, clears backend_active    *)
(* and joins the backends.                                                 *)
(*                                                                         *)
(* Each ring is a bounded queue here, which LockFreeRingBuffer is shown to *)
(* implement.  A call claims a cell, which is when the entry joins or      *)
(* leaves the queue, and frees it in a later step: until then a ring       *)
(* refuses the call that comes round to this cell, a push although there   *)
(* is room and a pop although there are entries.  A call that returns      *)
(* false leaves everything as it was, and the thread tries again.          *)
(***************************************************************************)
EXTENDS Integers, Sequences, FiniteSets

CONSTANTS
  Clients,       \* client_workers
  Backends,      \* backend_workers
  Depth,         \* entries a ring holds
  OpsPerClient,  \* ops_per_client
  TotalOps       \* TOTAL_OPS

\* num_clients is min(qd, 8), and 50000 is a multiple of each of its values.
\* A ring of one cell is not a queue (LockFreeRingBuffer), so qd = 1 is left out.
ASSUME SizesAssumption ==
  /\ Depth \in Nat \ {0, 1} /\ OpsPerClient \in Nat /\ IsFiniteSet(Clients)
  /\ Cardinality(Clients) <= Depth
  /\ TotalOps = OpsPerClient * Cardinality(Clients)
ASSUME ThreadsAssumption == Clients \cap Backends = {}

Cids == 0 .. TotalOps - 1
NoCid == -1

VARIABLES
  sq, cq,          \* the rings of the queue pair: what was pushed and not popped
  sq_head, cq_head, \* the cell of each ring that the next Pop claims
  slot,            \* thread -> the cell its last Push or Pop claimed
  ops_submitted,   \* the next cid
  ops_reaped,
  backend_active,
  pc,              \* where each thread is
  client_cid,      \* client -> the cid of its current operation
  rounds,          \* client -> operations finished, its loop variable
  sqe,             \* backend -> the cid of its SQEntry
  main,            \* where main is
  outcome,         \* history: cid -> what Write returned
  reaped           \* history: cid -> times its completion was reaped

rings == <<sq, cq>>
cells == <<sq_head, cq_head, slot>>
counters == <<ops_submitted, ops_reaped, backend_active>>
mine == <<client_cid, rounds>>
history == <<outcome, reaped>>
vars == <<rings, cells, counters, pc, mine, sqe, main, history>>

Init ==
  /\ sq = << >>
  /\ cq = << >>
  /\ sq_head = 0
  /\ cq_head = 0
  /\ slot = [t \in Clients \cup Backends |-> 0]
  /\ ops_submitted = 0
  /\ ops_reaped = 0
  /\ backend_active = TRUE
  /\ pc = [t \in Clients \cup Backends |-> IF t \in Clients THEN "take" ELSE "check"]
  /\ client_cid = [c \in Clients |-> NoCid]
  /\ rounds = [c \in Clients |-> 0]
  /\ sqe = [b \in Backends |-> NoCid]
  /\ main = "clients"
  /\ outcome = [cid \in Cids |-> "none"]
  /\ reaped = [cid \in Cids |-> 0]

Goto(t, label) == pc' = [pc EXCEPT ![t] = label]

\* The cell after i others, and those of each ring that a thread has claimed
\* and not freed.
Cell(head, i) == (head + i) % Depth
SlotsOf(threads, label) == {slot[t] : t \in {u \in threads : pc[u] = label}}
HeldInSq == SlotsOf(Clients, "publish") \cup SlotsOf(Backends, "drain")
HeldInCq == SlotsOf(Backends, "publish") \cup SlotsOf(Clients, "drain")

\* A Push returns true when the cell it comes to is free, a Pop when it is
\* filled.  With one request a client and no more clients than cells no ring
\* is ever full: a call is refused for a cell that is held, or an empty ring.
Room(q, head, held) == Len(q) < Depth /\ Cell(head, Len(q)) \notin held
Ready(q, head, held) == q # << >> /\ head \notin held

\* The step with which t frees the cell of its call.
Free(t, label, next) ==
  /\ pc[t] = label
  /\ Goto(t, next)
  /\ UNCHANGED <<rings, cells, counters, mine, sqe, main, history>>

(***************************************************************************)
(* A client.                                                               *)
(***************************************************************************)

TakeCid(c) ==
  /\ pc[c] = "take"
  /\ IF rounds[c] < OpsPerClient
     THEN /\ ops_submitted' = ops_submitted + 1
          /\ client_cid' = [client_cid EXCEPT ![c] = ops_submitted]
          /\ Goto(c, IF ops_submitted < TotalOps THEN "submit" ELSE "done")
     ELSE Goto(c, "done") /\ UNCHANGED <<ops_submitted, client_cid>>
  /\ UNCHANGED <<rings, cells, ops_reaped, backend_active, rounds, sqe, main, history>>

\* Faulty variant: the next operation does not wait for a completion.
SubmitAndGoOn(c) ==
  /\ pc[c] = "submit"
  /\ Room(sq, sq_head, HeldInSq)
  /\ sq' = Append(sq, client_cid[c])
  /\ slot' = [slot EXCEPT ![c] = Cell(sq_head, Len(sq))]
  /\ rounds' = [rounds EXCEPT ![c] = @ + 1]
  /\ Goto(c, IF rounds[c] + 1 < OpsPerClient THEN "take" ELSE "reap")
  /\ UNCHANGED <<cq, sq_head, cq_head, counters, client_cid, sqe, main, history>>

Submit(c) ==
  /\ pc[c] = "submit"
  /\ Room(sq, sq_head, HeldInSq)
  /\ sq' = Append(sq, client_cid[c])
  /\ slot' = [slot EXCEPT ![c] = Cell(sq_head, Len(sq))]
  /\ Goto(c, "publish")
  /\ UNCHANGED <<cq, sq_head, cq_head, counters, mine, sqe, main, history>>

Reap(c) ==
  /\ pc[c] = "reap"
  /\ Ready(cq, cq_head, HeldInCq)
  /\ reaped' = [reaped EXCEPT ![Head(cq).cid] = @ + 1]
  /\ cq' = Tail(cq)
  /\ cq_head' = Cell(cq_head, 1)
  /\ slot' = [slot EXCEPT ![c] = cq_head]
  /\ Goto(c, "drain")
  /\ UNCHANGED <<sq, sq_head, counters, mine, sqe, main, outcome>>

\* The second half of Submit and of Reap.
SubmitEnds(c) == Free(c, "publish", "reap")
ReapEnds(c) == Free(c, "drain", "count")

CountReaped(c) ==
  /\ pc[c] = "count"
  /\ ops_reaped' = ops_reaped + 1
  /\ rounds' = [rounds EXCEPT ![c] = @ + 1]
  /\ Goto(c, "take")
  /\ UNCHANGED <<rings, cells, ops_submitted, backend_active, client_cid, sqe, main, history>>

(***************************************************************************)
(* A backend.                                                              *)
(***************************************************************************)

\* The loop condition: backend_active, or else operations not yet reaped.
CheckActive(b) ==
  /\ pc[b] = "check"
  /\ Goto(b, IF backend_active THEN "pop" ELSE "check_reaped")
  /\ UNCHANGED <<rings, cells, counters, mine, sqe, main, history>>

CheckReaped(b) ==
  /\ pc[b] = "check_reaped"
  /\ Goto(b, IF ops_reaped < TotalOps THEN "pop" ELSE "done")
  /\ UNCHANGED <<rings, cells, counters, mine, sqe, main, history>>

\* Faulty variant: the return value of PopRequest is ignored.
PopRequestUnchecked(b) ==
  /\ pc[b] = "pop"
  /\ IF Ready(sq, sq_head, HeldInSq)
     THEN /\ sqe' = [sqe EXCEPT ![b] = Head(sq)]
          /\ sq' = Tail(sq)
          /\ sq_head' = Cell(sq_head, 1)
          /\ slot' = [slot EXCEPT ![b] = sq_head]
     ELSE UNCHANGED <<sqe, sq, sq_head, slot>>
  /\ Goto(b, "drain")
  /\ UNCHANGED <<cq, cq_head, counters, mine, main, history>>

PopRequest(b) ==
  /\ pc[b] = "pop"
  /\ IF Ready(sq, sq_head, HeldInSq)
     THEN /\ sqe' = [sqe EXCEPT ![b] = Head(sq)]
          /\ sq' = Tail(sq)
          /\ sq_head' = Cell(sq_head, 1)
          /\ slot' = [slot EXCEPT ![b] = sq_head]
          /\ Goto(b, "drain")
     ELSE Goto(b, "check") /\ UNCHANGED <<sqe, sq, sq_head, slot>>
  /\ UNCHANGED <<cq, cq_head, counters, mine, main, history>>

\* controller.Write succeeds or fails; nobody looks.
Execute(b) ==
  /\ pc[b] = "execute"
  /\ \E result \in {"ok", "failed"} :
       outcome' = [cid \in Cids |-> IF cid = sqe[b] THEN result ELSE outcome[cid]]
  /\ Goto(b, "complete")
  /\ UNCHANGED <<rings, cells, counters, mine, sqe, main, reaped>>

CompleteRequest(b) ==
  /\ pc[b] = "complete"
  /\ Room(cq, cq_head, HeldInCq)
  /\ cq' = Append(cq, [cid |-> sqe[b], status |-> 0])
  /\ slot' = [slot EXCEPT ![b] = Cell(cq_head, Len(cq))]
  /\ Goto(b, "publish")
  /\ UNCHANGED <<sq, sq_head, cq_head, counters, mine, sqe, main, history>>

\* The second half of PopRequest and of CompleteRequest.
PopRequestEnds(b) == Free(b, "drain", "execute")
CompleteRequestEnds(b) == Free(b, "publish", "check")

(***************************************************************************)
(* The main thread.                                                        *)
(***************************************************************************)

AllDone(threads) == \A t \in threads : pc[t] = "done"

\* Faulty variant: the backends are joined without being told to stop.
JoinClientsOnly ==
  /\ main = "clients"
  /\ AllDone(Clients)
  /\ main' = "backends"
  /\ UNCHANGED <<rings, cells, counters, pc, mine, sqe, history>>

JoinClients ==
  /\ main = "clients"
  /\ AllDone(Clients)
  /\ backend_active' = FALSE
  /\ main' = "backends"
  /\ UNCHANGED <<rings, cells, ops_submitted, ops_reaped, pc, mine, sqe, history>>

JoinBackends ==
  /\ main = "backends"
  /\ AllDone(Backends)
  /\ main' = "done"
  /\ UNCHANGED <<rings, cells, counters, pc, mine, sqe, history>>

\* The run is over; every other state without a step is a deadlock.
Over == main = "done" /\ UNCHANGED vars

Client(c) ==
  TakeCid(c) \/ Submit(c) \/ SubmitEnds(c) \/ Reap(c) \/ ReapEnds(c) \/ CountReaped(c)
Backend(b) ==
  \/ CheckActive(b) \/ CheckReaped(b) \/ PopRequest(b) \/ PopRequestEnds(b)
  \/ Execute(b) \/ CompleteRequest(b) \/ CompleteRequestEnds(b)
Main == JoinClients \/ JoinBackends

Next == (\E c \in Clients : Client(c)) \/ (\E b \in Backends : Backend(b)) \/ Main \/ Over

Spec == Init /\ [][Next]_vars

\* The scheduler runs every thread that can take a step.
Fairness ==
  /\ \A c \in Clients : WF_vars(Client(c))
  /\ \A b \in Backends : WF_vars(Backend(b))
  /\ WF_vars(Main)

FairSpec == Spec /\ Fairness

(***************************************************************************)
(* Properties.                                                             *)
(***************************************************************************)

ClientLabels == {"take", "submit", "publish", "reap", "drain", "count", "done"}
BackendLabels ==
  {"check", "check_reaped", "pop", "drain", "execute", "complete", "publish", "done"}

TypeOK ==
  /\ sq \in Seq(Cids) /\ Len(sq) <= Depth
  /\ cq \in Seq([cid : Cids, status : {0}]) /\ Len(cq) <= Depth
  /\ sq_head \in 0 .. Depth - 1 /\ cq_head \in 0 .. Depth - 1
  /\ slot \in [Clients \cup Backends -> 0 .. Depth - 1]
  /\ ops_submitted \in 0 .. TotalOps
  /\ ops_reaped \in 0 .. TotalOps
  /\ backend_active \in BOOLEAN
  /\ \A c \in Clients : pc[c] \in ClientLabels
  /\ \A b \in Backends : pc[b] \in BackendLabels
  /\ client_cid \in [Clients -> Cids \cup {NoCid}]
  /\ rounds \in [Clients -> 0 .. OpsPerClient]
  /\ sqe \in [Backends -> Cids \cup {NoCid}]
  /\ main \in {"clients", "backends", "done"}
  /\ outcome \in [Cids -> {"none", "ok", "failed"}]
  /\ reaped \in [Cids -> Nat]

Waiting == {c \in Clients : pc[c] \in {"publish", "reap"}}
Busy == {b \in Backends : pc[b] \in {"drain", "execute", "complete"}}

\* As many requests are in the submission ring, in the backends' hands and in
\* the completion ring as there are clients that have submitted one and not
\* reaped: since a client takes whichever completion comes, none of them is
\* left without one.
EveryWaiterHasAnAnswer ==
  /\ TypeOK
  /\ Cardinality(Waiting) = Len(sq) + Cardinality(Busy) + Len(cq)

\* No completion is reaped twice, by whichever clients, and when the benchmark
\* ends every operation has been executed and its completion reaped by some
\* client.
ReapedExactlyOnce ==
  /\ \A cid \in Cids : reaped[cid] <= 1
  /\ main = "done" => \A cid \in Cids : reaped[cid] = 1 /\ outcome[cid] # "none"

\* The benchmark ends: no client waits for ever, and the backends stop.
Ends == <>(main = "done")

(***************************************************************************)
(* What the properties rest on: where the cid of every operation is, and   *)
(* how many operations the clients have begun and finished.                *)
(***************************************************************************)

\* The cids a client is about to submit, and those each part of the pair has.
Held == {cid \in Cids : \E c \in Clients : pc[c] = "submit" /\ client_cid[c] = cid}
Queued == {cid \in Cids : \E i \in 1 .. Len(sq) : sq[i] = cid}
Executing == {cid \in Cids : \E b \in Busy : sqe[b] = cid}
Completed == {cid \in Cids : \E i \in 1 .. Len(cq) : cq[i].cid = cid}
Reaped == {cid \in Cids : reaped[cid] = 1}

\* Nobody holds a cid that somebody else holds too.
NoCidTwice ==
  /\ \A c, d \in Clients : pc[c] = "submit" /\ pc[d] = "submit" /\ client_cid[c] = client_cid[d]
                           => c = d
  /\ \A i, j \in 1 .. Len(sq) : sq[i] = sq[j] => i = j
  /\ \A a, b \in Busy : sqe[a] = sqe[b] => a = b
  /\ \A i, j \in 1 .. Len(cq) : cq[i].cid = cq[j].cid => i = j
  /\ \A cid \in Cids : reaped[cid] <= 1

\* Every cid taken so far is in one stage of its life, and no other is.
EveryCidInOneStage ==
  /\ 0 .. ops_submitted - 1 = Held \cup Queued \cup Executing \cup Completed \cup Reaped
  /\ Held \cap (Queued \cup Executing \cup Completed \cup Reaped) = {}
  /\ Queued \cap (Executing \cup Completed \cup Reaped) = {}
  /\ Executing \cap (Completed \cup Reaped) = {}
  /\ Completed \cap Reaped = {}

HoldersHaveCids ==
  /\ \A c \in Clients : pc[c] = "submit" => client_cid[c] \in Cids
  /\ \A b \in Busy : sqe[b] \in Cids

\* What is complete has been executed.
CompletedIsExecuted ==
  /\ \A b \in Backends : pc[b] = "complete" => outcome[sqe[b]] # "none"
  /\ \A cid \in Completed \cup Reaped : outcome[cid] # "none"

Operations == Clients \X (1 .. OpsPerClient)
Underway == {"submit", "publish", "reap", "drain", "count"}
Begun == {op \in Operations :
            op[2] <= rounds[op[1]] + (IF pc[op[1]] \in Underway THEN 1 ELSE 0)}
Finished == {op \in Operations : op[2] <= rounds[op[1]]}

OperationsCounted ==
  /\ ops_submitted = Cardinality(Begun)
  /\ ops_reaped = Cardinality(Finished)

\* Clients stop when their operations are done, and main waits for them.
ClientsFinish ==
  /\ \A c \in Clients : pc[c] \in Underway => rounds[c] < OpsPerClient
  /\ \A c \in Clients : pc[c] = "done" => rounds[c] = OpsPerClient
  /\ main # "clients" => AllDone(Clients)

ThreadsOK ==
  /\ pc \in [Clients \cup Backends -> ClientLabels \cup BackendLabels]
  /\ IsFiniteSet(Busy)

\* What every step preserves.
IInv ==
  /\ EveryWaiterHasAnAnswer
  /\ ThreadsOK
  /\ HoldersHaveCids
  /\ NoCidTwice
  /\ EveryCidInOneStage
  /\ CompletedIsExecuted
  /\ OperationsCounted
  /\ ClientsFinish
=============================================================================
