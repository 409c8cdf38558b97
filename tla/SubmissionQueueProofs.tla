----------------------- MODULE SubmissionQueueProofs -----------------------
(***************************************************************************)
(* The hardware submission queue is a FIFO for every depth and every set   *)
(* of requests.                                                            *)
(***************************************************************************)
EXTENDS SubmissionQueue, TLAPS

LEMMA SuccType == \A s \in Slots : Succ(s) \in Slots
  BY DepthAssumption DEF Succ, Slots

LEMMA InvInit == Init => IInv
<1>1. 0 \in Slots
  BY DepthAssumption DEF Slots
<1> QED BY <1>1, ZeroAssumption DEF Init, IInv, TypeOK, Inputs, FlagShape

LEMMA InvClock ==
  ASSUME IInv, Clock, Drive
  PROVE  IInv'
<1> USE DEF IInv, Clock
<1>1. TypeOK'
  BY SuccType DEF TypeOK, Inputs, Drive, Write, Read, FullFlag, full, empty
<1>2. FlagShape'
  BY DepthAssumption DEF TypeOK, Inputs, FlagShape, Write, Read, FullFlag, full, empty, Succ, Slots
<1> QED BY <1>1, <1>2

LEMMA InvStep ==
  ASSUME IInv, [Next]_vars
  PROVE  IInv'
<1>1. CASE UNCHANGED vars
  BY <1>1 DEF vars, inputs, IInv, TypeOK, Inputs, FlagShape
<1>2. CASE Reset /\ Drive
  <2>1. 0 \in Slots
    BY DepthAssumption DEF Slots
  <2> QED BY <1>2, <2>1, ZeroAssumption DEF Reset, Drive, IInv, TypeOK, Inputs, FlagShape
<1>3. CASE Clock /\ Drive
  BY <1>3, InvClock
<1> QED BY <1>1, <1>2, <1>3 DEF Next

\* Pointers and flag keep their ranges and the flag its shape.
THEOREM Invariance == Spec => []IInv
<1>1. IInv /\ [Next]_vars => IInv'
  BY InvStep
<1> QED BY <1>1, InvInit, PTL DEF Spec

\* Every register of the queue keeps its width.
THEOREM TypeCorrect == Spec => []TypeOK
<1>1. IInv => TypeOK
  BY DEF IInv
<1> QED BY <1>1, Invariance, PTL

\* The host is refused only when at most one slot is free.
THEOREM FullFlagIsTight == Spec => []FullIsNearlyFull
<1>1. IInv => FullIsNearlyFull
  BY DepthAssumption DEF IInv, TypeOK, FlagShape, FullIsNearlyFull, Held, Succ, Slots
<1> QED BY <1>1, Invariance, PTL

(***************************************************************************)
(* Refinement.                                                             *)
(***************************************************************************)

LEMMA HeldFacts ==
  ASSUME IInv
  PROVE  /\ Held \in 0 .. Depth
         /\ empty <=> Held = 0
         /\ is_full => Held >= Depth - 1 /\ Held > 0
         /\ ~ is_full => Held < Depth
         /\ Held < Depth => wr_ptr = SlotOf(Held + 1)
         /\ \A i \in 1 .. Depth : SlotOf(i) \in Slots
         /\ \A i, j \in 1 .. Depth : SlotOf(i) = SlotOf(j) => i = j
         /\ SlotOf(1) = rd_ptr
  BY DepthAssumption DEF IInv, TypeOK, FlagShape, Held, SlotOf, Succ, Slots, empty

LEMMA RequestsFacts ==
  ASSUME IInv
  PROVE  /\ Requests \in Seq(Data)
         /\ Len(Requests) = Held
         /\ \A i \in 1 .. Held : Requests[i] = queue_mem[SlotOf(i)]
<1>1. Held \in Nat /\ \A i \in 1 .. Held : queue_mem[SlotOf(i)] \in Data
  BY HeldFacts, DepthAssumption DEF IInv, TypeOK
<1>2. Requests \in [1 .. Held -> Data]
  BY <1>1 DEF Requests
<1>3. Requests \in Seq(Data)
  BY <1>1, <1>2
<1> QED BY <1>1, <1>2, <1>3 DEF Requests

LEMMA HeldStep ==
  ASSUME IInv, Clock, Drive
  PROVE  Held' = Held + (IF wr_en /\ ~ full THEN 1 ELSE 0)
                      - (IF rd_en /\ ~ empty THEN 1 ELSE 0)
  BY DepthAssumption DEF IInv, TypeOK, Inputs, FlagShape, Clock, Write, Read, FullFlag,
                         Held, Succ, Slots, full, empty

LEMMA SlotStep ==
  ASSUME IInv, Clock, Drive, NEW i \in 1 .. Depth - 1
  PROVE  SlotOf(i)' = IF rd_en /\ ~ empty THEN SlotOf(i + 1) ELSE SlotOf(i)
  BY DepthAssumption DEF IInv, TypeOK, Clock, Read, SlotOf, Succ, Slots

LEMMA MemoryStep ==
  ASSUME IInv, Clock, Drive
  PROVE  /\ \A i \in 1 .. Held : queue_mem'[SlotOf(i)] = queue_mem[SlotOf(i)]
         /\ wr_en /\ ~ full => queue_mem'[SlotOf(Held + 1)] = data_in
<1>1. CASE ~ (wr_en /\ ~ full)
  BY <1>1 DEF Clock, Write
<1>2. CASE wr_en /\ ~ full
  <2>1. /\ Held + 1 \in 1 .. Depth /\ wr_ptr = SlotOf(Held + 1) /\ wr_ptr \in Slots
        /\ \A i \in 1 .. Held : i \in 1 .. Depth /\ i # Held + 1
    BY <1>2, HeldFacts, DepthAssumption DEF full
  <2>2. \A i \in 1 .. Held : SlotOf(i) # wr_ptr /\ SlotOf(i) \in Slots
    BY <2>1, HeldFacts
  <2> QED BY <1>2, <2>1, <2>2 DEF Clock, Write, IInv, TypeOK
<1> QED BY <1>1, <1>2

\* The ports tell what the queue holds.
LEMMA FlagsHold ==
  ASSUME IInv
  PROVE  Fifo!Flags /\ Fifo!Inputs
<1>1. Requests \in Seq(Data) /\ Len(Requests) = Held
  BY RequestsFacts
<1>2. (Requests = << >>) <=> empty
  BY <1>1, HeldFacts
<1>3. empty \in BOOLEAN /\ full \in BOOLEAN
  BY DEF empty, full, IInv, TypeOK
<1> QED BY <1>1, <1>2, <1>3, HeldFacts, DepthAssumption
        DEF Fifo!Flags, Fifo!Inputs, full, IInv, TypeOK, Inputs

LEMMA ClockImplementsTick ==
  ASSUME IInv, Clock, Drive
  PROVE  Fifo!Tick /\ Fifo!Flags' /\ Fifo!Inputs'
<1> DEFINE take == wr_en /\ ~ full
           give == rd_en /\ ~ empty
           n == Held
           rest == IF give THEN Tail(Requests) ELSE Requests
<1>1. /\ n \in Nat /\ n <= Depth /\ Depth \in Nat
      /\ take => n < Depth
      /\ give => n > 0
      /\ n = 0 <=> empty
      /\ (wr_en /\ ~ take) => n >= Depth - 1
  BY HeldFacts, DepthAssumption DEF full
<1>2. /\ Requests \in Seq(Data) /\ Len(Requests) = n
      /\ \A i \in 1 .. n : Requests[i] = queue_mem[SlotOf(i)]
  BY RequestsFacts
<1>3. Requests # << >> <=> ~ empty
  BY <1>1, <1>2
<1>4. IInv'
  BY InvClock
<1>5. n' = n + (IF take THEN 1 ELSE 0) - (IF give THEN 1 ELSE 0)
  BY HeldStep
<1>6. /\ Requests' \in Seq(Data) /\ Len(Requests') = n'
      /\ \A i \in 1 .. n' : Requests'[i] = queue_mem'[SlotOf(i)']
  <2>1. (/\ Requests \in Seq(Data) /\ Len(Requests) = Held
         /\ \A i \in 1 .. Held : Requests[i] = queue_mem[SlotOf(i)])'
    BY <1>4, RequestsFacts, PTL
  <2> QED BY <2>1
<1>7. /\ rest \in Seq(Data)
      /\ Len(rest) = n - (IF give THEN 1 ELSE 0)
      /\ \A i \in 1 .. Len(rest) : rest[i] = Requests[IF give THEN i + 1 ELSE i]
  BY <1>1, <1>2, <1>3
<1> DEFINE new == IF take THEN Append(rest, data_in) ELSE rest
<1>8. /\ new \in Seq(Data) /\ Len(new) = n'
      /\ \A i \in 1 .. Len(rest) : new[i] = rest[i]
      /\ take => new[Len(rest) + 1] = data_in
  <2> HIDE DEF rest, n, take, give
  <2>1. CASE take
    <3>1. data_in \in Data
      BY DEF IInv, TypeOK, Inputs
    <3> QED BY <2>1, <3>1, <1>1, <1>5, <1>7
  <2>2. CASE ~ take
    BY <2>2, <1>1, <1>5, <1>7
  <2> QED BY <2>1, <2>2
<1>9. ASSUME NEW i \in 1 .. n'
      PROVE  Requests'[i] = new[i]
  <2> DEFINE j == IF give THEN i + 1 ELSE i
  <2>1. Requests'[i] = queue_mem'[SlotOf(i)']
    BY <1>6
  <2>2. j \in 1 .. n \/ (take /\ j = n + 1 /\ i = Len(rest) + 1)
    <3> HIDE DEF rest, n, take, give
    <3> QED BY <1>1, <1>5, <1>7
  <2>3. SlotOf(i)' = SlotOf(j)
    <3>1. CASE i \in 1 .. Depth - 1
      BY <3>1, SlotStep
    <3>2. CASE i = Depth /\ ~ give
      BY <3>2 DEF SlotOf, Clock, Read
    <3>3. i \in 1 .. Depth - 1 \/ (i = Depth /\ ~ give)
      <4> HIDE DEF n, take, give
      <4> QED BY <1>1, <1>5
    <3> QED BY <3>1, <3>2, <3>3
  <2>4. CASE j \in 1 .. n
    <3>1. queue_mem'[SlotOf(j)] = Requests[j]
      BY <2>4, <1>2, MemoryStep
    <3>2. i \in 1 .. Len(rest) /\ rest[i] = Requests[j]
      <4>1. i \in 1 .. Len(rest)
        <5> HIDE DEF rest, n, take
        <5> QED BY <2>4, <1>1, <1>7
      <4> QED BY <4>1, <1>7
    <3> QED BY <2>1, <2>3, <3>1, <3>2, <1>8
  <2>5. CASE take /\ j = n + 1 /\ i = Len(rest) + 1
    <3>1. queue_mem'[SlotOf(j)] = data_in
      BY <2>5, MemoryStep
    <3> QED BY <2>1, <2>3, <2>5, <3>1, <1>8
  <2> QED BY <2>2, <2>4, <2>5
<1>10. Requests' = new
  <2> HIDE DEF new, n
  <2> QED BY <1>6, <1>8, <1>9
<1>11. data_out' = IF give THEN Head(Requests) ELSE data_out
  <2>1. give => Head(Requests) = queue_mem[rd_ptr]
    BY <1>1, <1>2, HeldFacts
  <2> QED BY <2>1 DEF Clock, Read
<1>12. Fifo!Tick
  BY <1>10, <1>11 DEF Fifo!Tick, Fifo!Rest
<1>13. Fifo!Flags' /\ Fifo!Inputs'
  BY <1>4, FlagsHold, PTL
<1> QED BY <1>12, <1>13

LEMMA FifoInit == Init => Fifo!Init
<1> SUFFICES ASSUME Init PROVE Fifo!Init
  OBVIOUS
<1>1. IInv
  BY InvInit
<1>2. Requests \in Seq(Data) /\ Len(Requests) = Held /\ Held = 0
  BY <1>1, RequestsFacts DEF Init, Held
<1>3. Fifo!Flags /\ Fifo!Inputs
  BY <1>1, FlagsHold
<1> QED BY <1>2, <1>3 DEF Init, Fifo!Init

\* Port by port and for every depth, the queue is the bounded FIFO: what is
\* on data_in in a cycle with wr_en and without full, and nothing else, is
\* given on data_out, in order, in the cycles with rd_en and without empty.
THEOREM Refinement == Spec => ImplementsFifo
<1>1. ASSUME IInv, [Next]_vars
      PROVE  [Fifo!Next]_(Fifo!fvars)
  <2>1. CASE UNCHANGED vars
    BY <2>1 DEF vars, inputs, full, empty, Fifo!fvars, Requests, Held, SlotOf
  <2>2. CASE Reset /\ Drive
    <3>1. IInv'
      BY <1>1, InvStep
    <3>2. (Requests \in Seq(Data) /\ Len(Requests) = Held)' /\ (Fifo!Flags /\ Fifo!Inputs)'
      BY <3>1, RequestsFacts, FlagsHold, PTL
    <3>3. Requests' = << >>
      BY <2>2, <3>2 DEF Reset, Held
    <3> QED BY <2>2, <3>2, <3>3 DEF Reset, Fifo!Next, Fifo!Reset
  <2>3. CASE Clock /\ Drive
    BY <1>1, <2>3, ClockImplementsTick DEF Fifo!Next
  <2> QED BY <1>1, <2>1, <2>2, <2>3 DEF Next
<1> QED BY <1>1, FifoInit, Invariance, PTL DEF Spec, ImplementsFifo, Fifo!Spec
=============================================================================
