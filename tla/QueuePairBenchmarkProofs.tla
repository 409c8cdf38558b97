---------------------- MODULE QueuePairBenchmarkProofs ----------------------
(***************************************************************************)
(* Clients and backends around a queue pair, for every number of each, of  *)
(* operations and of entries: no client is left without a completion, and  *)
(* every completion is reaped once.                                        *)
(***************************************************************************)
EXTENDS QueuePairBenchmark, FiniteSetTheorems, SequenceTheorems, TLAPS

Completions == [cid : Cids, status : {0}]

Types == TypeOK /\ ThreadsOK /\ HoldersHaveCids

-----------------------------------------------------------------------------
(* Operations and their number. *)

LEMMA TotalFacts ==
  /\ TotalOps \in Nat
  /\ IsFiniteSet(Operations)
  /\ Cardinality(Operations) = TotalOps
<1>1. IsFiniteSet(1 .. OpsPerClient) /\ Cardinality(1 .. OpsPerClient) = OpsPerClient
  <2>1. OpsPerClient \in Nat
    BY SizesAssumption
  <2> QED BY <2>1, FS_Interval
<1>2. /\ IsFiniteSet(Operations)
      /\ Cardinality(Operations) = Cardinality(Clients) * Cardinality(1 .. OpsPerClient)
  BY <1>1, SizesAssumption, FS_Product DEF Operations
<1>3. Cardinality(Operations) \in Nat /\ Cardinality(Clients) \in Nat
  BY <1>2, SizesAssumption, FS_CardinalityType
<1>4. Cardinality(Operations) = TotalOps
  BY <1>1, <1>2, <1>3, SizesAssumption
<1> QED BY <1>2, <1>3, <1>4

LEMMA OperationSets ==
  /\ IsFiniteSet(Begun) /\ Cardinality(Begun) \in 0 .. TotalOps
  /\ IsFiniteSet(Finished) /\ Cardinality(Finished) \in 0 .. TotalOps
<1>1. Begun \in SUBSET Operations /\ Finished \in SUBSET Operations
  BY DEF Begun, Finished
<1> QED BY <1>1, TotalFacts, FS_Subset, FS_CardinalityType

LEMMA OneMore ==
  ASSUME NEW S \in SUBSET Operations, NEW op \in Operations \ S
  PROVE  /\ Cardinality(S \cup {op}) = Cardinality(S) + 1
         /\ Cardinality(S) < TotalOps
<1>1. IsFiniteSet(S) /\ Cardinality(S) \in Nat
  BY TotalFacts, FS_Subset, FS_CardinalityType
<1>2. Cardinality(S \cup {op}) = Cardinality(S) + 1
  BY <1>1, FS_AddElement
<1>3. Cardinality(S \cup {op}) <= TotalOps
  <2>1. S \cup {op} \in SUBSET Operations
    OBVIOUS
  <2> QED BY <2>1, TotalFacts, FS_Subset
<1> QED BY <1>1, <1>2, <1>3, TotalFacts

-----------------------------------------------------------------------------
(* A step that moves no cid. *)

LEMMA WaitingFacts == IsFiniteSet(Waiting) /\ Cardinality(Waiting) \in Nat
BY SizesAssumption, FS_Subset, FS_CardinalityType DEF Waiting

LEMMA CellType ==
  ASSUME NEW head \in Nat, NEW i \in Nat
  PROVE  Cell(head, i) \in 0 .. Depth - 1
BY SizesAssumption DEF Cell

\* What a call that claims a cell does to the cells.
LEMMA Claimed ==
  ASSUME TypeOK, NEW t \in Clients \cup Backends, NEW cell \in 0 .. Depth - 1,
         slot' = [slot EXCEPT ![t] = cell],
         \/ UNCHANGED <<sq_head, cq_head>>
         \/ sq_head' = Cell(sq_head, 1) /\ UNCHANGED cq_head
         \/ cq_head' = Cell(cq_head, 1) /\ UNCHANGED sq_head
  PROVE  /\ sq_head' \in 0 .. Depth - 1 /\ cq_head' \in 0 .. Depth - 1
         /\ slot' \in [Clients \cup Backends -> 0 .. Depth - 1]
<1>1. sq_head \in Nat /\ cq_head \in Nat /\ 1 \in Nat
  BY SizesAssumption DEF TypeOK
<1>2. Cell(sq_head, 1) \in 0 .. Depth - 1 /\ Cell(cq_head, 1) \in 0 .. Depth - 1
  BY <1>1, CellType
<1> QED BY <1>2 DEF TypeOK

LEMMA Moved ==
  ASSUME ThreadsOK, NEW t \in Clients \cup Backends,
         NEW label \in ClientLabels \cup BackendLabels, Goto(t, label)
  PROVE  /\ pc' \in [Clients \cup Backends -> ClientLabels \cup BackendLabels]
         /\ pc'[t] = label
         /\ \A u \in Clients \cup Backends : u # t => pc'[u] = pc[u]
BY DEF ThreadsOK, Goto

LEMMA InitEstablishes == Init => IInv
<1> SUFFICES ASSUME Init PROVE IInv
  OBVIOUS
<1>1. /\ \A c \in Clients : pc[c] = "take"
      /\ \A b \in Backends : pc[b] = "check"
  BY ThreadsAssumption DEF Init
<1>2. Busy = {} /\ Waiting = {} /\ Begun = {} /\ Finished = {}
  <2>1. \A op \in Operations : ~ (op[2] <= 0) /\ rounds[op[1]] = 0 /\ pc[op[1]] = "take"
    BY <1>1, SizesAssumption DEF Init, Operations
  <2> QED BY <1>1, <2>1 DEF Busy, Waiting, Begun, Finished, Underway
<1>3. TypeOK
  BY <1>1, TotalFacts, SizesAssumption, EmptySeq
     DEF Init, TypeOK, ClientLabels, BackendLabels, NoCid
<1>4. EveryWaiterHasAnAnswer
  BY <1>2, <1>3, FS_EmptySet DEF EveryWaiterHasAnAnswer, Init
<1>5. ThreadsOK /\ HoldersHaveCids /\ ClientsFinish
  BY <1>1, <1>2, FS_EmptySet DEF Init, ThreadsOK, HoldersHaveCids, ClientsFinish,
     ClientLabels, BackendLabels, Underway
<1>6. NoCidTwice /\ EveryCidInOneStage /\ CompletedIsExecuted
  BY <1>1, <1>2, TotalFacts DEF Init, NoCidTwice, EveryCidInOneStage, CompletedIsExecuted,
     Held, Queued, Executing, Completed, Reaped
<1>7. OperationsCounted
  BY <1>2, FS_EmptySet DEF Init, OperationsCounted
<1> QED BY <1>4, <1>5, <1>6, <1>7 DEF IInv

-----------------------------------------------------------------------------
(* Steps of a client. *)

LEMMA TakeCidStep ==
  ASSUME IInv, NEW c \in Clients, TakeCid(c)
  PROVE  IInv'
<1>1. TypeOK /\ ThreadsOK
  BY DEF IInv, EveryWaiterHasAnAnswer
<1>2. /\ pc[c] = "take" /\ rounds[c] \in 0 .. OpsPerClient /\ OpsPerClient \in Nat
      /\ UNCHANGED <<rings, cells, ops_reaped, backend_active, rounds, sqe, main, history>>
  BY <1>1, SizesAssumption DEF TakeCid, TypeOK
<1>3. CASE rounds[c] < OpsPerClient
  <2> DEFINE op == <<c, rounds[c] + 1>>
  <2>1. op \in Operations \ Begun
    BY <1>2, <1>3 DEF Operations, Begun, Underway
  <2>2. ops_submitted \in 0 .. TotalOps - 1 /\ Cardinality(Begun \cup {op}) = ops_submitted + 1
    <3>1. Begun \in SUBSET Operations /\ ops_submitted = Cardinality(Begun)
      BY DEF Begun, IInv, OperationsCounted
    <3> HIDE DEF op
    <3>2. Cardinality(Begun) < TotalOps /\ Cardinality(Begun \cup {op}) = Cardinality(Begun) + 1
      BY <2>1, <3>1, OneMore
    <3> QED BY <3>1, <3>2, <1>1, TotalFacts DEF TypeOK
  <2>3. /\ ops_submitted' = ops_submitted + 1
        /\ client_cid' = [client_cid EXCEPT ![c] = ops_submitted]
        /\ Goto(c, "submit")
    <3>1. ops_submitted < TotalOps
      BY <2>2, TotalFacts
    <3> QED BY <1>3, <3>1 DEF TakeCid
  <2>4. /\ pc' \in [Clients \cup Backends -> ClientLabels \cup BackendLabels]
        /\ pc'[c] = "submit"
        /\ \A t \in Clients \cup Backends : t # c => pc'[t] = pc[t]
    BY <1>1, <2>3, Moved DEF ClientLabels
  <2>5. Busy' = Busy /\ Waiting' = Waiting
    BY <1>2, <2>4, ThreadsAssumption DEF Busy, Waiting
  <2>6. TypeOK'
    <3>1. ops_submitted' \in 0 .. TotalOps /\ ops_submitted \in Cids
      BY <2>2, <2>3, TotalFacts DEF Cids
    <3>2. client_cid' \in [Clients -> Cids \cup {NoCid}]
      BY <3>1, <2>3, <1>1 DEF TypeOK
    <3> QED BY <3>1, <3>2, <1>1, <1>2, <2>4, ThreadsAssumption
            DEF TypeOK, rings, cells, history, ClientLabels
  <2>7. EveryWaiterHasAnAnswer' /\ ThreadsOK'
    BY <2>4, <2>5, <2>6, <1>2 DEF IInv, EveryWaiterHasAnAnswer, ThreadsOK, rings
  <2>8. HoldersHaveCids'
    BY <1>1, <1>2, <2>2, <2>3, <2>4, <2>5 DEF IInv, HoldersHaveCids, TypeOK, Cids
  <2>9. /\ ops_submitted \in Cids
        /\ Held' = Held \cup {ops_submitted}
        /\ UNCHANGED <<Queued, Executing, Completed, Reaped>>
    BY <1>1, <1>2, <2>2, <2>3, <2>4, <2>5
       DEF Held, Queued, Executing, Completed, Reaped, TypeOK, Cids, rings, history
  <2>10. 0 .. ops_submitted' - 1 = (0 .. ops_submitted - 1) \cup {ops_submitted}
    BY <2>2, <2>3
  <2>11. ops_submitted \notin 0 .. ops_submitted - 1
    BY <2>2
  <2>12. EveryCidInOneStage'
    BY <2>9, <2>10, <2>11 DEF IInv, EveryCidInOneStage
  <2>13. NoCidTwice'
    <3>1. ops_submitted \notin Held
      BY <2>11 DEF IInv, EveryCidInOneStage
    <3>2. \A d \in Clients : pc[d] = "submit" => client_cid[d] # ops_submitted
      BY <3>1, <2>9 DEF Held
    <3>3. \A d \in Clients : client_cid'[d] = IF d = c THEN ops_submitted ELSE client_cid[d]
      BY <2>3, <1>1 DEF TypeOK
    <3>4. \A d, e \in Clients : pc'[d] = "submit" /\ pc'[e] = "submit"
                                /\ client_cid'[d] = client_cid'[e] => d = e
      BY <3>2, <3>3, <2>4 DEF IInv, NoCidTwice
    <3> QED BY <3>4, <2>5, <1>2 DEF IInv, NoCidTwice, rings, history
  <2>14. CompletedIsExecuted'
    BY <1>2, <2>4, <2>9, ThreadsAssumption DEF IInv, CompletedIsExecuted, history
  <2>15. Begun' = Begun \cup {op} /\ Finished' = Finished
    <3>1. Finished' = Finished
      BY <1>2 DEF Finished
    <3>2. \A o \in Operations : o[1] \in Clients /\ o[2] \in Int /\ rounds[o[1]] \in Int
      BY <1>1 DEF Operations, TypeOK
    <3>3. \A o \in Operations : o[1] = c /\ o[2] = rounds[c] + 1 => o = op
      BY DEF Operations
    <3>4. \A o \in Operations : o[1] # c => (o \in Begun' <=> o \in Begun)
      BY <1>2, <2>4 DEF Begun, Operations
    <3>5. \A o \in Operations : o[1] = c =>
            /\ o \in Begun' <=> o[2] <= rounds[c] + 1
            /\ o \in Begun <=> o[2] <= rounds[c]
      BY <1>2, <2>4, <3>2 DEF Begun, Underway
    <3>6. \A o \in Operations : o[1] = c => (o \in Begun' <=> o \in Begun \/ o = op)
      <4>1. op[1] = c /\ op[2] = rounds[c] + 1
        OBVIOUS
      <4> HIDE DEF op
      <4> QED BY <3>2, <3>3, <3>5, <4>1
    <3>7. op \in Operations /\ op[1] = c
      BY <2>1
    <3>8. Begun \subseteq Operations /\ Begun' \subseteq Operations
      BY DEF Begun
    <3> HIDE DEF op
    <3> QED BY <3>1, <3>4, <3>6, <3>7, <3>8
  <2>16. OperationsCounted'
    BY <2>2, <2>3, <2>15, <1>2 DEF IInv, OperationsCounted
  <2>17. ClientsFinish'
    BY <1>2, <1>3, <2>4 DEF IInv, ClientsFinish, AllDone, Underway
  <2> QED BY <2>7, <2>8, <2>12, <2>13, <2>14, <2>16, <2>17 DEF IInv
<1>4. CASE ~ (rounds[c] < OpsPerClient)
  <2>1. /\ UNCHANGED <<ops_submitted, client_cid>>
        /\ Goto(c, "done")
        /\ rounds[c] = OpsPerClient
    BY <1>2, <1>4 DEF TakeCid
  <2>2. /\ pc' \in [Clients \cup Backends -> ClientLabels \cup BackendLabels]
        /\ pc'[c] = "done"
        /\ \A t \in Clients \cup Backends : t # c => pc'[t] = pc[t]
    BY <1>1, <2>1, Moved DEF ClientLabels
  <2>3. Busy' = Busy /\ Waiting' = Waiting
    BY <1>2, <2>2, ThreadsAssumption DEF Busy, Waiting
  <2>4. TypeOK'
    BY <1>1, <1>2, <2>1, <2>2, ThreadsAssumption
       DEF TypeOK, rings, cells, history, ClientLabels
  <2>5. EveryWaiterHasAnAnswer' /\ ThreadsOK'
    BY <2>2, <2>3, <2>4, <1>2 DEF IInv, EveryWaiterHasAnAnswer, ThreadsOK, rings
  <2>6. UNCHANGED <<Held, Queued, Executing, Completed, Reaped>>
    BY <1>2, <2>1, <2>2, <2>3 DEF Held, Queued, Executing, Completed, Reaped, rings, history
  <2>7. HoldersHaveCids' /\ NoCidTwice'
    BY <1>2, <2>1, <2>2, <2>3 DEF IInv, HoldersHaveCids, NoCidTwice, rings, history
  <2>8. EveryCidInOneStage'
    BY <2>1, <2>6 DEF IInv, EveryCidInOneStage
  <2>9. CompletedIsExecuted'
    BY <1>2, <2>2, <2>6, ThreadsAssumption DEF IInv, CompletedIsExecuted, history
  <2>10. Begun' = Begun /\ Finished' = Finished
    BY <1>2, <2>2 DEF Begun, Finished, Operations, Underway
  <2>11. OperationsCounted'
    BY <2>1, <2>10, <1>2 DEF IInv, OperationsCounted
  <2>12. ClientsFinish'
    BY <1>2, <2>1, <2>2 DEF IInv, ClientsFinish, AllDone, Underway
  <2> QED BY <2>5, <2>7, <2>8, <2>9, <2>11, <2>12 DEF IInv
<1> QED BY <1>3, <1>4

LEMMA SubmitStep ==
  ASSUME IInv, NEW c \in Clients, Submit(c)
  PROVE  IInv'
<1> DEFINE x == client_cid[c]
<1>1. TypeOK /\ ThreadsOK
  BY DEF IInv, EveryWaiterHasAnAnswer
<1>2. /\ pc[c] = "submit" /\ Len(sq) < Depth
      /\ sq' = Append(sq, x)
      /\ UNCHANGED <<cq, sq_head, cq_head, counters, mine, sqe, main, history>>
      /\ slot' = [slot EXCEPT ![c] = Cell(sq_head, Len(sq))]
      /\ Goto(c, "publish")
  BY DEF Submit, Room
<1>3. /\ pc' \in [Clients \cup Backends -> ClientLabels \cup BackendLabels]
      /\ pc'[c] = "publish"
      /\ \A t \in Clients \cup Backends : t # c => pc'[t] = pc[t]
  BY <1>1, <1>2, Moved DEF ClientLabels
<1>4. x \in Cids /\ sq \in Seq(Cids) /\ Len(sq) \in Nat
  BY <1>1, <1>2 DEF IInv, HoldersHaveCids, TypeOK
<1> HIDE DEF x
<1>5. /\ sq' \in Seq(Cids) /\ Len(sq') = Len(sq) + 1
      /\ sq'[Len(sq) + 1] = x
      /\ \A i \in 1 .. Len(sq) : sq'[i] = sq[i]
  BY <1>2, <1>4, AppendProperties
<1>6. Busy' = Busy
  BY <1>2, <1>3, ThreadsAssumption DEF Busy
<1>7. TypeOK'
  <2>1. Len(sq') <= Depth
    BY <1>2, <1>4, <1>5, SizesAssumption
  <2>2. \A d \in Clients : pc'[d] \in ClientLabels
    BY <1>1, <1>3 DEF TypeOK, ClientLabels
  <2>3. \A b \in Backends : pc'[b] \in BackendLabels
    BY <1>1, <1>3, ThreadsAssumption DEF TypeOK
  <2>4. Cell(sq_head, Len(sq)) \in 0 .. Depth - 1
    <3>1. sq_head \in Nat
      BY <1>1, SizesAssumption DEF TypeOK
    <3> QED BY <3>1, <1>4, CellType
  <2>5. /\ sq_head' \in 0 .. Depth - 1 /\ cq_head' \in 0 .. Depth - 1
        /\ slot' \in [Clients \cup Backends -> 0 .. Depth - 1]
    BY <2>4, <1>1, <1>2, Claimed
  <2> QED BY <2>1, <2>2, <2>3, <2>5, <1>1, <1>2, <1>5 DEF TypeOK, counters, mine, history
<1>8. ThreadsOK'
  BY <1>1, <1>3, <1>6 DEF ThreadsOK
<1>9. EveryWaiterHasAnAnswer'
  <2>1. Waiting' = Waiting \cup {c} /\ c \notin Waiting
    BY <1>2, <1>3 DEF Waiting
  <2>2. Cardinality(Waiting') = Cardinality(Waiting) + 1
    BY <2>1, WaitingFacts, FS_AddElement
  <2>3. Cardinality(Busy) \in Nat /\ Len(cq) \in Nat
    BY <1>1, FS_CardinalityType DEF ThreadsOK, TypeOK
  <2> QED BY <2>2, <2>3, <1>2, <1>4, <1>5, <1>6, <1>7 DEF IInv, EveryWaiterHasAnAnswer
<1>10. HoldersHaveCids'
  BY <1>2, <1>3, <1>6 DEF IInv, HoldersHaveCids, mine
<1>11. \A d \in Clients : pc[d] = "submit" /\ client_cid[d] = x => d = c
  BY <1>2 DEF IInv, NoCidTwice, x
<1>12. /\ x \in Held
       /\ Held' = Held \ {x}
       /\ Queued' = Queued \cup {x}
       /\ UNCHANGED <<Executing, Completed, Reaped>>
  <2>1. x \in Held /\ Held' = Held \ {x}
    BY <1>2, <1>3, <1>4, <1>11 DEF Held, mine, x
  <2>2. Queued' = Queued \cup {x}
    BY <1>4, <1>5 DEF Queued
  <2>3. UNCHANGED <<Executing, Completed, Reaped>>
    BY <1>2, <1>6 DEF Executing, Completed, Reaped, history
  <2> QED BY <2>1, <2>2, <2>3
<1>13. EveryCidInOneStage'
  BY <1>2, <1>12 DEF IInv, EveryCidInOneStage, counters
<1>14. NoCidTwice'
  <2>1. \A i \in 1 .. Len(sq) : sq[i] # x
    BY <1>4, <1>12 DEF IInv, EveryCidInOneStage, Queued
  <2>2. \A i, j \in 1 .. Len(sq') : sq'[i] = sq'[j] => i = j
    BY <2>1, <1>4, <1>5 DEF IInv, NoCidTwice
  <2>3. \A d, e \in Clients : pc'[d] = "submit" /\ pc'[e] = "submit"
                              /\ client_cid'[d] = client_cid'[e] => d = e
    BY <1>2, <1>3 DEF IInv, NoCidTwice, mine
  <2> QED BY <2>2, <2>3, <1>2, <1>6 DEF IInv, NoCidTwice, history
<1>15. CompletedIsExecuted'
  BY <1>2, <1>3, <1>12, ThreadsAssumption DEF IInv, CompletedIsExecuted, history
<1>16. Begun' = Begun /\ Finished' = Finished
  BY <1>2, <1>3 DEF Begun, Finished, Operations, Underway, mine
<1>17. OperationsCounted' /\ ClientsFinish'
  BY <1>2, <1>3, <1>16 DEF IInv, OperationsCounted, ClientsFinish, AllDone, Underway, counters, mine
<1> QED BY <1>8, <1>9, <1>10, <1>13, <1>14, <1>15, <1>17 DEF IInv

LEMMA ReapStep ==
  ASSUME IInv, NEW c \in Clients, Reap(c)
  PROVE  IInv'
<1> DEFINE x == Head(cq).cid
<1>1. TypeOK /\ ThreadsOK
  BY DEF IInv, EveryWaiterHasAnAnswer
<1>2. /\ pc[c] = "reap" /\ cq # << >>
      /\ cq' = Tail(cq)
      /\ reaped' = [reaped EXCEPT ![x] = @ + 1]
      /\ UNCHANGED <<sq, sq_head, counters, mine, sqe, main, outcome>>
      /\ cq_head' = Cell(cq_head, 1)
      /\ slot' = [slot EXCEPT ![c] = cq_head]
      /\ Goto(c, "drain")
  BY DEF Reap, Ready
<1>3. /\ pc' \in [Clients \cup Backends -> ClientLabels \cup BackendLabels]
      /\ pc'[c] = "drain"
      /\ \A t \in Clients \cup Backends : t # c => pc'[t] = pc[t]
  BY <1>1, <1>2, Moved DEF ClientLabels
<1>4. /\ cq \in Seq(Completions) /\ Len(cq) \in Nat \ {0} /\ Head(cq) = cq[1]
      /\ Len(cq) <= Depth
  BY <1>1, <1>2, EmptySeq DEF TypeOK, Completions
<1>5. /\ x \in Cids /\ x = cq[1].cid
      /\ cq' \in Seq(Completions) /\ Len(cq') = Len(cq) - 1
      /\ \A i \in 1 .. Len(cq') : cq'[i] = cq[i + 1]
  <2>1. Head(cq) \in Completions /\ Tail(cq) \in Seq(Completions)
        /\ Len(Tail(cq)) = Len(cq) - 1
        /\ \A i \in 1 .. Len(Tail(cq)) : Tail(cq)[i] = cq[i + 1]
    BY <1>2, <1>4, HeadTailProperties
  <2> QED BY <2>1, <1>2, <1>4 DEF Completions
<1>6. Busy' = Busy
  BY <1>2, <1>3, ThreadsAssumption DEF Busy
<1> HIDE DEF x
<1>7. TypeOK'
  <2>1. cq' \in Seq([cid : Cids, status : {0}]) /\ Len(cq') <= Depth
    BY <1>4, <1>5, SizesAssumption DEF Completions
  <2>2. \A d \in Clients : pc'[d] \in ClientLabels
    BY <1>1, <1>3 DEF TypeOK, ClientLabels
  <2>3. \A b \in Backends : pc'[b] \in BackendLabels
    BY <1>1, <1>3, ThreadsAssumption DEF TypeOK
  <2>4. reaped' \in [Cids -> Nat]
    BY <1>1, <1>2, <1>5 DEF TypeOK
  <2>5. /\ sq_head' \in 0 .. Depth - 1 /\ cq_head' \in 0 .. Depth - 1
        /\ slot' \in [Clients \cup Backends -> 0 .. Depth - 1]
    <3>1. cq_head \in 0 .. Depth - 1
      BY <1>1 DEF TypeOK
    <3> QED BY <3>1, <1>1, <1>2, Claimed
  <2> QED BY <2>1, <2>2, <2>3, <2>4, <2>5, <1>1, <1>2 DEF TypeOK, counters, mine
<1>8. ThreadsOK'
  BY <1>1, <1>3, <1>6 DEF ThreadsOK
<1>9. EveryWaiterHasAnAnswer'
  <2>1. Waiting' = Waiting \ {c} /\ c \in Waiting
    BY <1>2, <1>3 DEF Waiting
  <2>2. Cardinality(Waiting') = Cardinality(Waiting) - 1
    BY <2>1, WaitingFacts, FS_RemoveElement
  <2>3. Cardinality(Busy) \in Nat /\ Len(sq) \in Nat
    BY <1>1, FS_CardinalityType DEF ThreadsOK, TypeOK
  <2> QED BY <2>2, <2>3, <1>2, <1>4, <1>5, <1>6, <1>7, WaitingFacts DEF IInv, EveryWaiterHasAnAnswer
<1>10. HoldersHaveCids'
  BY <1>2, <1>3, <1>6 DEF IInv, HoldersHaveCids, mine
<1>11. /\ x \in Completed /\ x \notin Reaped /\ reaped[x] \in Nat /\ reaped[x] <= 1
  BY <1>1, <1>4, <1>5 DEF IInv, NoCidTwice, EveryCidInOneStage, Completed, TypeOK
<1>12. reaped[x] = 0
  BY <1>5, <1>11 DEF Reaped
<1>13. reaped' = [reaped EXCEPT ![x] = 1]
  BY <1>2, <1>12
<1>14. /\ Reaped' = Reaped \cup {x}
       /\ Completed' = Completed \ {x}
       /\ UNCHANGED <<Held, Queued, Executing>>
  <2>1. Reaped' = Reaped \cup {x}
    BY <1>1, <1>5, <1>13 DEF Reaped, TypeOK
  <2>2. \A cid \in Cids : cid \in Completed' <=> cid \in Completed /\ cid # x
    <3>1. ASSUME NEW cid \in Cids, cid \in Completed'
          PROVE  cid \in Completed /\ cid # x
      <4>1. PICK i \in 1 .. Len(cq') : cq'[i].cid = cid
        BY <3>1 DEF Completed
      <4>2. i + 1 \in 1 .. Len(cq) /\ cq[i + 1].cid = cid /\ i + 1 # 1
        BY <4>1, <1>4, <1>5
      <4>3. cid # x
        BY <4>2, <1>4, <1>5 DEF IInv, NoCidTwice
      <4> QED BY <4>2, <4>3 DEF Completed
    <3>2. ASSUME NEW cid \in Cids, cid \in Completed, cid # x
          PROVE  cid \in Completed'
      <4>1. PICK i \in 1 .. Len(cq) : cq[i].cid = cid
        BY <3>2 DEF Completed
      <4>2. i - 1 \in 1 .. Len(cq') /\ cq'[i - 1] = cq[i]
        BY <3>2, <4>1, <1>4, <1>5
      <4> QED BY <4>1, <4>2 DEF Completed
    <3> QED BY <3>1, <3>2
  <2>3. Completed' = Completed \ {x}
    BY <2>2 DEF Completed
  <2>4. UNCHANGED <<Held, Queued, Executing>>
    BY <1>2, <1>3, <1>6 DEF Held, Queued, Executing, mine
  <2> QED BY <2>1, <2>3, <2>4
<1>15. EveryCidInOneStage'
  BY <1>2, <1>11, <1>14 DEF IInv, EveryCidInOneStage, counters
<1>16. NoCidTwice'
  <2>1. \A i, j \in 1 .. Len(cq') : cq'[i].cid = cq'[j].cid => i = j
    <3> SUFFICES ASSUME NEW i \in 1 .. Len(cq'), NEW j \in 1 .. Len(cq'),
                        cq'[i].cid = cq'[j].cid
                 PROVE  i = j
      OBVIOUS
    <3>1. i + 1 \in 1 .. Len(cq) /\ j + 1 \in 1 .. Len(cq)
      BY <1>4, <1>5
    <3>2. i + 1 = j + 1
      BY <3>1, <1>5 DEF IInv, NoCidTwice
    <3> QED BY <3>2, <1>4, <1>5
  <2>2. \A cid \in Cids : reaped'[cid] <= 1
    BY <1>1, <1>13 DEF IInv, NoCidTwice, TypeOK
  <2>3. \A d, e \in Clients : pc'[d] = "submit" /\ pc'[e] = "submit"
                              /\ client_cid'[d] = client_cid'[e] => d = e
    BY <1>2, <1>3 DEF IInv, NoCidTwice, mine
  <2> QED BY <2>1, <2>2, <2>3, <1>2, <1>6 DEF IInv, NoCidTwice
<1>17. CompletedIsExecuted'
  BY <1>2, <1>3, <1>11, <1>14, ThreadsAssumption DEF IInv, CompletedIsExecuted
<1>18. Begun' = Begun /\ Finished' = Finished
  BY <1>2, <1>3 DEF Begun, Finished, Operations, Underway, mine
<1>19. OperationsCounted' /\ ClientsFinish'
  BY <1>2, <1>3, <1>18 DEF IInv, OperationsCounted, ClientsFinish, AllDone, Underway, counters, mine
<1> QED BY <1>8, <1>9, <1>10, <1>15, <1>16, <1>17, <1>19 DEF IInv

\* A client frees the cell it claimed.
LEMMA ClientFreesStep ==
  ASSUME IInv, NEW c \in Clients, SubmitEnds(c) \/ ReapEnds(c)
  PROVE  IInv'
<1>1. TypeOK /\ ThreadsOK
  BY DEF IInv, EveryWaiterHasAnAnswer
<1>2. PICK label \in ClientLabels :
        /\ Goto(c, label)
        /\ <<pc[c], label>> \in {<<"publish", "reap">>, <<"drain", "count">>}
        /\ UNCHANGED <<rings, cells, counters, mine, sqe, main, history>>
  BY DEF SubmitEnds, ReapEnds, Free, ClientLabels
<1>3. /\ pc' \in [Clients \cup Backends -> ClientLabels \cup BackendLabels]
      /\ pc'[c] = label
      /\ \A t \in Clients \cup Backends : t # c => pc'[t] = pc[t]
  BY <1>1, <1>2, Moved
<1>4. Busy' = Busy /\ Waiting' = Waiting
  BY <1>2, <1>3, ThreadsAssumption DEF Busy, Waiting
<1>5. TypeOK'
  <2>1. \A d \in Clients : pc'[d] \in ClientLabels
    BY <1>1, <1>2, <1>3 DEF TypeOK
  <2>2. \A b \in Backends : pc'[b] \in BackendLabels
    BY <1>1, <1>3, ThreadsAssumption DEF TypeOK
  <2> QED BY <2>1, <2>2, <1>1, <1>2 DEF TypeOK, rings, cells, counters, mine, history
<1>6. EveryWaiterHasAnAnswer' /\ ThreadsOK'
  BY <1>2, <1>3, <1>4, <1>5 DEF IInv, EveryWaiterHasAnAnswer, ThreadsOK, rings
<1>7. UNCHANGED <<Held, Queued, Executing, Completed, Reaped>>
  BY <1>2, <1>3, <1>4 DEF Held, Queued, Executing, Completed, Reaped, rings, mine, history
<1>8. HoldersHaveCids' /\ NoCidTwice'
  BY <1>2, <1>3, <1>4 DEF IInv, HoldersHaveCids, NoCidTwice, rings, mine, history
<1>9. EveryCidInOneStage' /\ CompletedIsExecuted'
  BY <1>2, <1>3, <1>7, ThreadsAssumption
     DEF IInv, EveryCidInOneStage, CompletedIsExecuted, counters, history
<1>10. Begun' = Begun /\ Finished' = Finished
  BY <1>2, <1>3 DEF Begun, Finished, Operations, Underway, mine
<1>11. OperationsCounted' /\ ClientsFinish'
  BY <1>2, <1>3, <1>10 DEF IInv, OperationsCounted, ClientsFinish, AllDone, Underway, counters, mine
<1> QED BY <1>6, <1>8, <1>9, <1>11 DEF IInv

LEMMA CountReapedStep ==
  ASSUME IInv, NEW c \in Clients, CountReaped(c)
  PROVE  IInv'
<1> DEFINE op == <<c, rounds[c] + 1>>
<1>1. TypeOK /\ ThreadsOK
  BY DEF IInv, EveryWaiterHasAnAnswer
<1>2. /\ pc[c] = "count"
      /\ ops_reaped' = ops_reaped + 1
      /\ rounds' = [rounds EXCEPT ![c] = @ + 1]
      /\ UNCHANGED <<rings, cells, ops_submitted, backend_active, client_cid, sqe, main, history>>
      /\ Goto(c, "take")
  BY DEF CountReaped
<1>3. /\ pc' \in [Clients \cup Backends -> ClientLabels \cup BackendLabels]
      /\ pc'[c] = "take"
      /\ \A t \in Clients \cup Backends : t # c => pc'[t] = pc[t]
  BY <1>1, <1>2, Moved DEF ClientLabels
<1>4. /\ rounds[c] \in 0 .. OpsPerClient - 1 /\ OpsPerClient \in Nat
      /\ rounds \in [Clients -> 0 .. OpsPerClient]
  BY <1>1, <1>2, SizesAssumption DEF IInv, ClientsFinish, Underway, TypeOK
<1>5. /\ op \in Operations \ Finished
      /\ Finished' = Finished \cup {op}
      /\ Begun' = Begun
  <2>1. op \in Operations \ Finished
    BY <1>4 DEF Operations, Finished
  <2>2. \A d \in Clients : rounds'[d] = IF d = c THEN rounds[c] + 1 ELSE rounds[d]
    BY <1>2, <1>4
  <2>3. Finished' = Finished \cup {op}
    <3>1. \A o \in Operations : o[2] <= rounds'[o[1]] <=> o[2] <= rounds[o[1]] \/ o = op
      BY <2>2, <1>4 DEF Operations
    <3> QED BY <3>1, <2>1 DEF Finished
  <2>4. \A d \in Clients : rounds'[d] + (IF pc'[d] \in Underway THEN 1 ELSE 0)
                           = rounds[d] + (IF pc[d] \in Underway THEN 1 ELSE 0)
    BY <2>2, <1>2, <1>3, <1>4 DEF Underway
  <2>5. Begun' = Begun
    BY <2>4 DEF Begun, Operations
  <2> QED BY <2>1, <2>3, <2>5
<1>6. /\ Cardinality(Finished) < TotalOps
      /\ Cardinality(Finished \cup {op}) = Cardinality(Finished) + 1
  <2>1. Finished \in SUBSET Operations
    BY DEF Finished
  <2> HIDE DEF op
  <2> QED BY <2>1, <1>5, OneMore
<1> HIDE DEF op
<1>7. Busy' = Busy /\ Waiting' = Waiting
  BY <1>2, <1>3, ThreadsAssumption DEF Busy, Waiting
<1>8. OperationsCounted' /\ ops_reaped' \in 0 .. TotalOps
  BY <1>1, <1>2, <1>5, <1>6, TotalFacts DEF IInv, OperationsCounted, TypeOK
<1>9. TypeOK'
  <2>1. rounds' \in [Clients -> 0 .. OpsPerClient]
    BY <1>2, <1>4
  <2> QED BY <2>1, <1>1, <1>2, <1>3, <1>8, ThreadsAssumption
          DEF TypeOK, rings, cells, history, ClientLabels
<1>10. EveryWaiterHasAnAnswer' /\ ThreadsOK'
  BY <1>2, <1>3, <1>7, <1>9 DEF IInv, EveryWaiterHasAnAnswer, ThreadsOK, rings
<1>11. UNCHANGED <<Held, Queued, Executing, Completed, Reaped>>
  BY <1>2, <1>3, <1>7 DEF Held, Queued, Executing, Completed, Reaped, rings, history
<1>12. HoldersHaveCids' /\ NoCidTwice'
  BY <1>2, <1>3, <1>7 DEF IInv, HoldersHaveCids, NoCidTwice, rings, history
<1>13. EveryCidInOneStage'
  BY <1>2, <1>11 DEF IInv, EveryCidInOneStage
<1>14. CompletedIsExecuted'
  BY <1>2, <1>3, <1>11, ThreadsAssumption DEF IInv, CompletedIsExecuted, history
<1>15. ClientsFinish'
  BY <1>2, <1>3, <1>4 DEF IInv, ClientsFinish, AllDone, Underway
<1> QED BY <1>8, <1>10, <1>12, <1>13, <1>14, <1>15 DEF IInv

-----------------------------------------------------------------------------
(* Steps of a backend and of main. *)

\* A step of a backend that only looks, at the flags or at a ring that refuses
\* it, or frees a cell: it keeps the request it has, or has none.
LEMMA LookingStep ==
  ASSUME IInv, NEW b \in Backends, NEW label \in BackendLabels,
         b \in Busy <=> label \in {"drain", "execute", "complete"}, Goto(b, label),
         label # "complete",
         UNCHANGED <<rings, cells, counters, mine, sqe, main, history>>
  PROVE  IInv'
<1>1. TypeOK /\ ThreadsOK
  BY DEF IInv, EveryWaiterHasAnAnswer
<1>2. label \in BackendLabels
  OBVIOUS
<1>3. /\ pc' \in [Clients \cup Backends -> ClientLabels \cup BackendLabels]
      /\ pc'[b] = label
      /\ \A t \in Clients \cup Backends : t # b => pc'[t] = pc[t]
  BY <1>1, <1>2, Moved
<1>4. \A c \in Clients : pc'[c] = pc[c]
  BY <1>3, ThreadsAssumption
<1>5. Busy' = Busy /\ Waiting' = Waiting
  BY <1>3, <1>4 DEF Busy, Waiting
<1>6. TypeOK'
  <2>1. \A d \in Backends : pc'[d] \in BackendLabels
    BY <1>1, <1>2, <1>3 DEF TypeOK
  <2> QED BY <2>1, <1>1, <1>4 DEF TypeOK, rings, cells, counters, mine, history
<1>7. EveryWaiterHasAnAnswer' /\ ThreadsOK'
  BY <1>3, <1>5, <1>6 DEF IInv, EveryWaiterHasAnAnswer, ThreadsOK, rings
<1>8. UNCHANGED <<Held, Queued, Executing, Completed, Reaped>>
  BY <1>4, <1>5 DEF Held, Queued, Executing, Completed, Reaped, rings, mine, history
<1>9. HoldersHaveCids' /\ NoCidTwice'
  BY <1>4, <1>5 DEF IInv, HoldersHaveCids, NoCidTwice, rings, mine, history
<1>10. EveryCidInOneStage' /\ CompletedIsExecuted'
  BY <1>3, <1>8 DEF IInv, EveryCidInOneStage, CompletedIsExecuted, counters, history
<1>11. Begun' = Begun /\ Finished' = Finished
  BY <1>4 DEF Begun, Finished, Operations, mine
<1>12. OperationsCounted' /\ ClientsFinish'
  BY <1>4, <1>11 DEF IInv, OperationsCounted, ClientsFinish, AllDone, counters, mine
<1> QED BY <1>7, <1>9, <1>10, <1>12 DEF IInv

LEMMA PopRequestStep ==
  ASSUME IInv, NEW b \in Backends, PopRequest(b), Ready(sq, sq_head, HeldInSq)
  PROVE  IInv'
<1> DEFINE x == Head(sq)
<1>1. TypeOK /\ ThreadsOK
  BY DEF IInv, EveryWaiterHasAnAnswer
<1>2. /\ pc[b] = "pop"
      /\ sqe' = [sqe EXCEPT ![b] = x]
      /\ sq' = Tail(sq)
      /\ UNCHANGED <<cq, cq_head, counters, mine, main, history>>
      /\ sq_head' = Cell(sq_head, 1)
      /\ slot' = [slot EXCEPT ![b] = sq_head]
      /\ Goto(b, "drain")
  BY DEF PopRequest
<1>3. /\ pc' \in [Clients \cup Backends -> ClientLabels \cup BackendLabels]
      /\ pc'[b] = "drain"
      /\ \A t \in Clients \cup Backends : t # b => pc'[t] = pc[t]
  BY <1>1, <1>2, Moved DEF BackendLabels
<1>4. \A c \in Clients : pc'[c] = pc[c]
  BY <1>3, ThreadsAssumption
<1>5. /\ sq \in Seq(Cids) /\ Len(sq) \in Nat \ {0} /\ Len(sq) <= Depth
      /\ x \in Cids /\ x = sq[1]
      /\ sq' \in Seq(Cids) /\ Len(sq') = Len(sq) - 1
      /\ \A i \in 1 .. Len(sq') : sq'[i] = sq[i + 1]
  BY <1>1, <1>2, EmptySeq, HeadTailProperties DEF TypeOK, Ready
<1> HIDE DEF x
<1>6. Busy' = Busy \cup {b} /\ b \notin Busy
  BY <1>2, <1>3 DEF Busy
<1>7. \A a \in Busy' : sqe'[a] = IF a = b THEN x ELSE sqe[a]
  BY <1>1, <1>2 DEF TypeOK, Busy
<1>8. TypeOK'
  <2>1. \A d \in Backends : pc'[d] \in BackendLabels
    BY <1>1, <1>3 DEF TypeOK, BackendLabels
  <2>2. Len(sq') <= Depth
    BY <1>5, SizesAssumption
  <2>3. sqe' \in [Backends -> Cids \cup {NoCid}]
    BY <1>1, <1>2, <1>5 DEF TypeOK
  <2>4. /\ sq_head' \in 0 .. Depth - 1 /\ cq_head' \in 0 .. Depth - 1
        /\ slot' \in [Clients \cup Backends -> 0 .. Depth - 1]
    <3>1. sq_head \in 0 .. Depth - 1
      BY <1>1 DEF TypeOK
    <3> QED BY <3>1, <1>1, <1>2, Claimed
  <2> QED BY <2>1, <2>2, <2>3, <2>4, <1>1, <1>2, <1>4, <1>5 DEF TypeOK, counters, mine, history
<1>9. ThreadsOK' /\ Cardinality(Busy') = Cardinality(Busy) + 1 /\ Cardinality(Busy) \in Nat
  BY <1>1, <1>3, <1>6, FS_AddElement, FS_CardinalityType DEF ThreadsOK
<1>10. EveryWaiterHasAnAnswer'
  <2>1. Waiting' = Waiting /\ Len(cq) \in Nat
    BY <1>1, <1>4 DEF Waiting, TypeOK
  <2> QED BY <2>1, <1>2, <1>5, <1>8, <1>9 DEF IInv, EveryWaiterHasAnAnswer
<1>11. HoldersHaveCids'
  BY <1>2, <1>4, <1>5, <1>6, <1>7 DEF IInv, HoldersHaveCids, mine
<1>12. /\ x \in Queued
       /\ Queued' = Queued \ {x}
       /\ Executing' = Executing \cup {x}
       /\ UNCHANGED <<Held, Completed, Reaped>>
  <2>1. x \in Queued
    BY <1>5 DEF Queued
  <2>2. \A cid \in Cids : cid \in Queued' <=> cid \in Queued /\ cid # x
    <3>1. ASSUME NEW cid \in Cids, cid \in Queued'
          PROVE  cid \in Queued /\ cid # x
      <4>1. PICK i \in 1 .. Len(sq') : sq'[i] = cid
        BY <3>1 DEF Queued
      <4>2. i + 1 \in 1 .. Len(sq) /\ sq[i + 1] = cid /\ i + 1 # 1
        BY <4>1, <1>5
      <4>3. cid # x
        BY <4>2, <1>5 DEF IInv, NoCidTwice
      <4> QED BY <4>2, <4>3 DEF Queued
    <3>2. ASSUME NEW cid \in Cids, cid \in Queued, cid # x
          PROVE  cid \in Queued'
      <4>1. PICK i \in 1 .. Len(sq) : sq[i] = cid
        BY <3>2 DEF Queued
      <4>2. i - 1 \in 1 .. Len(sq') /\ sq'[i - 1] = sq[i]
        BY <3>2, <4>1, <1>5
      <4> QED BY <4>1, <4>2 DEF Queued
    <3> QED BY <3>1, <3>2
  <2>3. Queued' = Queued \ {x}
    BY <2>2 DEF Queued
  <2>4. Executing' = Executing \cup {x}
    BY <1>5, <1>6, <1>7 DEF Executing
  <2>5. UNCHANGED <<Held, Completed, Reaped>>
    BY <1>2, <1>4 DEF Held, Completed, Reaped, mine, history
  <2> QED BY <2>1, <2>3, <2>4, <2>5
<1>13. EveryCidInOneStage'
  BY <1>2, <1>12 DEF IInv, EveryCidInOneStage, counters
<1>14. NoCidTwice'
  <2>1. \A i, j \in 1 .. Len(sq') : sq'[i] = sq'[j] => i = j
    <3> SUFFICES ASSUME NEW i \in 1 .. Len(sq'), NEW j \in 1 .. Len(sq'), sq'[i] = sq'[j]
                 PROVE  i = j
      OBVIOUS
    <3>1. i + 1 \in 1 .. Len(sq) /\ j + 1 \in 1 .. Len(sq)
      BY <1>5
    <3>2. i + 1 = j + 1
      BY <3>1, <1>5 DEF IInv, NoCidTwice
    <3> QED BY <3>2, <1>5
  <2>2. \A a \in Busy : sqe[a] # x
    BY <1>12, <1>5 DEF IInv, EveryCidInOneStage, Executing
  <2>3. \A a, d \in Busy' : sqe'[a] = sqe'[d] => a = d
    BY <2>2, <1>6, <1>7 DEF IInv, NoCidTwice
  <2>4. \A d, e \in Clients : pc'[d] = "submit" /\ pc'[e] = "submit"
                              /\ client_cid'[d] = client_cid'[e] => d = e
    BY <1>2, <1>4 DEF IInv, NoCidTwice, mine
  <2> QED BY <2>1, <2>3, <2>4, <1>2 DEF IInv, NoCidTwice, history
<1>15. CompletedIsExecuted'
  <2>1. \A d \in Backends : pc'[d] = "complete" => pc[d] = "complete" /\ sqe'[d] = sqe[d]
    BY <1>2, <1>3, <1>1 DEF TypeOK
  <2> QED BY <2>1, <1>2, <1>12 DEF IInv, CompletedIsExecuted, history
<1>16. Begun' = Begun /\ Finished' = Finished
  BY <1>2, <1>4 DEF Begun, Finished, Operations, mine
<1>17. OperationsCounted' /\ ClientsFinish'
  BY <1>2, <1>4, <1>16 DEF IInv, OperationsCounted, ClientsFinish, AllDone, counters, mine
<1> QED BY <1>9, <1>10, <1>11, <1>13, <1>14, <1>15, <1>17 DEF IInv

LEMMA ExecuteStep ==
  ASSUME IInv, NEW b \in Backends, Execute(b)
  PROVE  IInv'
<1>1. TypeOK /\ ThreadsOK
  BY DEF IInv, EveryWaiterHasAnAnswer
<1>2. /\ pc[b] = "execute"
      /\ UNCHANGED <<rings, cells, counters, mine, sqe, main, reaped>>
      /\ Goto(b, "complete")
  BY DEF Execute
<1>3. PICK result \in {"ok", "failed"} :
        outcome' = [cid \in Cids |-> IF cid = sqe[b] THEN result ELSE outcome[cid]]
  BY DEF Execute
<1>4. /\ pc' \in [Clients \cup Backends -> ClientLabels \cup BackendLabels]
      /\ pc'[b] = "complete"
      /\ \A t \in Clients \cup Backends : t # b => pc'[t] = pc[t]
  BY <1>1, <1>2, Moved DEF BackendLabels
<1>5. \A c \in Clients : pc'[c] = pc[c]
  BY <1>4, ThreadsAssumption
<1>6. Busy' = Busy /\ Waiting' = Waiting /\ b \in Busy
  BY <1>2, <1>4, <1>5 DEF Busy, Waiting
<1>7. TypeOK'
  <2>1. \A d \in Backends : pc'[d] \in BackendLabels
    BY <1>1, <1>4 DEF TypeOK, BackendLabels
  <2>2. outcome' \in [Cids -> {"none", "ok", "failed"}]
    BY <1>1, <1>3 DEF TypeOK
  <2> QED BY <2>1, <2>2, <1>1, <1>2, <1>5 DEF TypeOK, rings, cells, counters, mine
<1>8. EveryWaiterHasAnAnswer' /\ ThreadsOK'
  BY <1>2, <1>4, <1>6, <1>7 DEF IInv, EveryWaiterHasAnAnswer, ThreadsOK, rings
<1>9. UNCHANGED <<Held, Queued, Executing, Completed, Reaped>>
  BY <1>2, <1>5, <1>6 DEF Held, Queued, Executing, Completed, Reaped, rings, mine
<1>10. HoldersHaveCids' /\ NoCidTwice'
  BY <1>2, <1>5, <1>6 DEF IInv, HoldersHaveCids, NoCidTwice, rings, mine
<1>11. EveryCidInOneStage'
  BY <1>2, <1>9 DEF IInv, EveryCidInOneStage, counters
<1>12. CompletedIsExecuted'
  <2>1. \A cid \in Cids : outcome[cid] # "none" \/ cid = sqe[b] => outcome'[cid] # "none"
    BY <1>3
  <2>2. \A d \in Backends : pc'[d] = "complete" => sqe[d] \in Cids
    BY <1>4, <1>6 DEF IInv, HoldersHaveCids, Busy
  <2>3. \A d \in Backends : pc'[d] = "complete" => d = b \/ outcome[sqe[d]] # "none"
    BY <1>4 DEF IInv, CompletedIsExecuted
  <2>4. Completed \cup Reaped \subseteq Cids
    BY DEF Completed, Reaped
  <2> QED BY <2>1, <2>2, <2>3, <2>4, <1>2, <1>9 DEF IInv, CompletedIsExecuted
<1>13. Begun' = Begun /\ Finished' = Finished
  BY <1>2, <1>5 DEF Begun, Finished, Operations, mine
<1>14. OperationsCounted' /\ ClientsFinish'
  BY <1>2, <1>5, <1>13 DEF IInv, OperationsCounted, ClientsFinish, AllDone, counters, mine
<1> QED BY <1>8, <1>10, <1>11, <1>12, <1>14 DEF IInv

LEMMA CompleteRequestStep ==
  ASSUME IInv, NEW b \in Backends, CompleteRequest(b)
  PROVE  IInv'
<1> DEFINE x == sqe[b]
           e == [cid |-> x, status |-> 0]
<1>1. TypeOK /\ ThreadsOK
  BY DEF IInv, EveryWaiterHasAnAnswer
<1>2. /\ pc[b] = "complete" /\ Len(cq) < Depth
      /\ cq' = Append(cq, e)
      /\ UNCHANGED <<sq, sq_head, cq_head, counters, mine, sqe, main, history>>
      /\ slot' = [slot EXCEPT ![b] = Cell(cq_head, Len(cq))]
      /\ Goto(b, "publish")
  BY DEF CompleteRequest, Room
<1>3. /\ pc' \in [Clients \cup Backends -> ClientLabels \cup BackendLabels]
      /\ pc'[b] = "publish"
      /\ \A t \in Clients \cup Backends : t # b => pc'[t] = pc[t]
  BY <1>1, <1>2, Moved DEF BackendLabels
<1>4. \A c \in Clients : pc'[c] = pc[c]
  BY <1>3, ThreadsAssumption
<1>5. Busy' = Busy \ {b} /\ b \in Busy
  BY <1>2, <1>3 DEF Busy
<1>6. x \in Cids /\ e \in Completions /\ e.cid = x
  BY <1>5 DEF IInv, HoldersHaveCids, Completions
<1>7. cq \in Seq(Completions) /\ Len(cq) \in Nat
  BY <1>1 DEF TypeOK, Completions
<1> HIDE DEF e
<1>8. /\ cq' \in Seq(Completions) /\ Len(cq') = Len(cq) + 1
      /\ cq'[Len(cq) + 1] = e
      /\ \A i \in 1 .. Len(cq) : cq'[i] = cq[i]
  BY <1>2, <1>6, <1>7, AppendProperties
<1>9. TypeOK'
  <2>1. \A d \in Backends : pc'[d] \in BackendLabels
    BY <1>1, <1>3 DEF TypeOK, BackendLabels
  <2>2. Len(cq') <= Depth
    BY <1>2, <1>7, <1>8, SizesAssumption
  <2>3. cq' \in Seq([cid : Cids, status : {0}])
    BY <1>8 DEF Completions
  <2>4. Cell(cq_head, Len(cq)) \in 0 .. Depth - 1
    <3>1. cq_head \in Nat
      BY <1>1, SizesAssumption DEF TypeOK
    <3> QED BY <3>1, <1>7, CellType
  <2>5. /\ sq_head' \in 0 .. Depth - 1 /\ cq_head' \in 0 .. Depth - 1
        /\ slot' \in [Clients \cup Backends -> 0 .. Depth - 1]
    BY <2>4, <1>1, <1>2, Claimed
  <2> QED BY <2>1, <2>2, <2>3, <2>5, <1>1, <1>2, <1>4 DEF TypeOK, counters, mine, history
<1>10. ThreadsOK' /\ Cardinality(Busy') = Cardinality(Busy) - 1 /\ Cardinality(Busy) \in Nat
  BY <1>1, <1>3, <1>5, FS_RemoveElement, FS_CardinalityType DEF ThreadsOK
<1>11. EveryWaiterHasAnAnswer'
  <2>1. Waiting' = Waiting /\ Len(sq) \in Nat
    BY <1>1, <1>4 DEF Waiting, TypeOK
  <2>2. Cardinality(Waiting) = Len(sq) + Cardinality(Busy) + Len(cq)
    BY DEF IInv, EveryWaiterHasAnAnswer
  <2>3. sq' = sq
    BY <1>2
  <2>4. Cardinality(Waiting') = Len(sq') + Cardinality(Busy') + Len(cq')
    BY <2>1, <2>2, <2>3, <1>7, <1>8, <1>10
  <2> QED BY <2>4, <1>9 DEF EveryWaiterHasAnAnswer
<1>12. HoldersHaveCids'
  BY <1>2, <1>4, <1>5 DEF IInv, HoldersHaveCids, mine
<1>13. \A d \in Busy : sqe[d] = x => d = b
  BY <1>5 DEF IInv, NoCidTwice
<1>14. /\ x \in Executing
       /\ Executing' = Executing \ {x}
       /\ Completed' = Completed \cup {x}
       /\ UNCHANGED <<Held, Queued, Reaped>>
  <2>1. x \in Executing /\ Executing' = Executing \ {x}
    BY <1>2, <1>5, <1>6, <1>13 DEF Executing
  <2>2. Completed' = Completed \cup {x}
    BY <1>6, <1>7, <1>8 DEF Completed
  <2>3. UNCHANGED <<Held, Queued, Reaped>>
    BY <1>2, <1>4 DEF Held, Queued, Reaped, mine, history
  <2> QED BY <2>1, <2>2, <2>3
<1>15. EveryCidInOneStage'
  BY <1>2, <1>14 DEF IInv, EveryCidInOneStage, counters
<1>16. NoCidTwice'
  <2>1. \A i \in 1 .. Len(cq) : cq[i].cid # x
    BY <1>6, <1>14 DEF IInv, EveryCidInOneStage, Completed
  <2>2. \A i, j \in 1 .. Len(cq') : cq'[i].cid = cq'[j].cid => i = j
    BY <2>1, <1>6, <1>7, <1>8 DEF IInv, NoCidTwice
  <2>3. \A c, d \in Clients : pc'[c] = "submit" /\ pc'[d] = "submit"
                              /\ client_cid'[c] = client_cid'[d] => c = d
    BY <1>2, <1>4 DEF IInv, NoCidTwice, mine
  <2> QED BY <2>2, <2>3, <1>2, <1>5 DEF IInv, NoCidTwice, history
<1>17. CompletedIsExecuted'
  <2>1. outcome[x] # "none"
    BY <1>2 DEF IInv, CompletedIsExecuted
  <2> QED BY <2>1, <1>2, <1>3, <1>14 DEF IInv, CompletedIsExecuted, history
<1>18. Begun' = Begun /\ Finished' = Finished
  BY <1>2, <1>4 DEF Begun, Finished, Operations, mine
<1>19. OperationsCounted' /\ ClientsFinish'
  BY <1>2, <1>4, <1>18 DEF IInv, OperationsCounted, ClientsFinish, AllDone, counters, mine
<1> QED BY <1>10, <1>11, <1>12, <1>15, <1>16, <1>17, <1>19 DEF IInv

LEMMA BackendStep ==
  ASSUME IInv, NEW b \in Backends, Backend(b)
  PROVE  IInv'
<1> USE DEF Busy, BackendLabels
<1>1. CASE CheckActive(b)
  BY <1>1, LookingStep DEF CheckActive
<1>2. CASE CheckReaped(b)
  BY <1>2, LookingStep DEF CheckReaped
<1>3. CASE PopRequest(b)
  <2>1. CASE ~ Ready(sq, sq_head, HeldInSq)
    BY <1>3, <2>1, LookingStep DEF PopRequest, rings, cells
  <2> QED BY <1>3, <2>1, PopRequestStep
<1>4. CASE PopRequestEnds(b)
  BY <1>4, LookingStep DEF PopRequestEnds, Free
<1>5. CASE CompleteRequestEnds(b)
  BY <1>5, LookingStep DEF CompleteRequestEnds, Free
<1> QED BY <1>1, <1>2, <1>3, <1>4, <1>5, ExecuteStep, CompleteRequestStep DEF Backend

LEMMA MainStep ==
  ASSUME IInv, Main \/ UNCHANGED vars
  PROVE  IInv'
<1>1. UNCHANGED <<rings, cells, ops_submitted, ops_reaped, pc, mine, sqe, history>>
  BY DEF Main, JoinClients, JoinBackends, vars, counters
<1>2. /\ backend_active' \in BOOLEAN
      /\ main' \in {"clients", "backends", "done"}
      /\ main' # "clients" => AllDone(Clients)
  BY DEF IInv, EveryWaiterHasAnAnswer, TypeOK, ClientsFinish, Main, JoinClients, JoinBackends,
         vars, counters
<1>3. TypeOK'
  BY <1>1, <1>2 DEF IInv, EveryWaiterHasAnAnswer, TypeOK, rings, cells, mine, history
<1>4. Busy' = Busy /\ Waiting' = Waiting
  BY <1>1 DEF Busy, Waiting
<1>5. EveryWaiterHasAnAnswer' /\ ThreadsOK'
  BY <1>1, <1>3, <1>4 DEF IInv, EveryWaiterHasAnAnswer, ThreadsOK, rings
<1>6. UNCHANGED <<Held, Queued, Executing, Completed, Reaped>>
  BY <1>1, <1>4 DEF Held, Queued, Executing, Completed, Reaped, rings, mine, history
<1>7. HoldersHaveCids' /\ NoCidTwice'
  BY <1>1, <1>4 DEF IInv, HoldersHaveCids, NoCidTwice, rings, mine, history
<1>8. EveryCidInOneStage' /\ CompletedIsExecuted'
  BY <1>1, <1>6 DEF IInv, EveryCidInOneStage, CompletedIsExecuted, history
<1>9. Begun' = Begun /\ Finished' = Finished
  BY <1>1 DEF Begun, Finished, Operations, mine
<1>10. OperationsCounted' /\ ClientsFinish'
  BY <1>1, <1>2, <1>9 DEF IInv, OperationsCounted, ClientsFinish, AllDone, mine
<1> QED BY <1>5, <1>7, <1>8, <1>10 DEF IInv

-----------------------------------------------------------------------------
(* Theorems. *)

\* No step of any thread breaks the invariant.
THEOREM Invariance == Spec => []IInv
<1>1. Init => IInv
  BY InitEstablishes
<1>2. IInv /\ [Next]_vars => IInv'
  <2> SUFFICES ASSUME IInv, [Next]_vars PROVE IInv'
    OBVIOUS
  <2>1. CASE \E c \in Clients : Client(c)
    BY <2>1, TakeCidStep, SubmitStep, ReapStep, CountReapedStep, ClientFreesStep DEF Client
  <2>2. CASE \E b \in Backends : Backend(b)
    BY <2>2, BackendStep
  <2>3. CASE Main \/ Over \/ UNCHANGED vars
    BY <2>3, MainStep DEF Over
  <2> QED BY <2>1, <2>2, <2>3 DEF Next
<1> QED BY <1>1, <1>2, PTL DEF Spec

\* However many clients and backends share the pair, whatever they take from
\* each other, as many requests are queued, in a backend's hands or completed
\* as there are clients that have submitted one and reaped nothing yet.
THEOREM NoWaiterForgotten == Spec => []EveryWaiterHasAnAnswer
<1>1. IInv => EveryWaiterHasAnAnswer
  BY DEF IInv
<1> QED BY <1>1, Invariance, PTL

\* Each command id is reaped at most once, by whichever client, and main
\* returns only when each has been executed and reaped by some client: the
\* benchmark divides by the operations it really did.
THEOREM EveryCompletionOnce == Spec => []ReapedExactlyOnce
<1>1. IInv => ReapedExactlyOnce
  <2> SUFFICES ASSUME IInv PROVE ReapedExactlyOnce
    OBVIOUS
  <2>1. \A cid \in Cids : reaped[cid] <= 1
    BY DEF IInv, NoCidTwice
  <2>2. ASSUME main = "done", NEW cid \in Cids
        PROVE  reaped[cid] = 1 /\ outcome[cid] # "none"
    <3>1. \A c \in Clients : pc[c] = "done" /\ rounds[c] = OpsPerClient
      BY <2>2 DEF IInv, ClientsFinish, AllDone
    <3>2. Waiting = {} /\ Held = {}
      BY <3>1 DEF Waiting, Held
    <3>3. /\ Cardinality(Waiting) = 0
          /\ Len(sq) \in Nat /\ Len(cq) \in Nat /\ Cardinality(Busy) \in Nat
      BY <3>2, FS_EmptySet, FS_CardinalityType DEF IInv, EveryWaiterHasAnAnswer, TypeOK, ThreadsOK
    <3>4. Len(sq) = 0 /\ Len(cq) = 0 /\ Cardinality(Busy) = 0
      BY <3>3 DEF IInv, EveryWaiterHasAnAnswer
    <3>5. Busy = {}
      BY <3>4, FS_EmptySet DEF IInv, ThreadsOK
    <3>6. Queued = {} /\ Executing = {} /\ Completed = {}
      BY <3>4, <3>5 DEF Queued, Executing, Completed
    <3>7. Begun = Operations
      BY <3>1, SizesAssumption DEF Begun, Operations, Underway
    <3>8. ops_submitted = TotalOps
      BY <3>7, TotalFacts DEF IInv, OperationsCounted
    <3>9. cid \in Reaped
      BY <3>2, <3>6, <3>8 DEF IInv, EveryCidInOneStage, Cids
    <3> QED BY <3>9 DEF Reaped, IInv, CompletedIsExecuted
  <2> QED BY <2>1, <2>2 DEF ReapedExactlyOnce
<1> QED BY <1>1, Invariance, PTL
=============================================================================
