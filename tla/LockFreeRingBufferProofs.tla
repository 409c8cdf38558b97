---------------------- MODULE LockFreeRingBufferProofs ----------------------
(***************************************************************************)
(* LockFreeRingBuffer is safe for every number of threads and every size   *)
(* of at least 2.                                                          *)
(***************************************************************************)
EXTENDS LockFreeRingBuffer, TLAPS

(***************************************************************************)
(* Arithmetic of cells: positions less than Size apart share no cell, and  *)
(* the position one lap later shares it.                                   *)
(***************************************************************************)

LEMMA CellType == \A x \in Int : Cell(x) \in Cells
  BY SizeAssumption DEF Cell, Cells

\* Two positions of the same cell are a multiple of Size apart.
LEMMA CellApart ==
  ASSUME NEW x \in Int, NEW y \in Int, Cell(x) = Cell(y), x < y
  PROVE  y - x >= Size
<1> DEFINE q == x \div Size
           r == y \div Size
<1>1. q \in Int /\ r \in Int /\ x % Size \in Int
  BY SizeAssumption
<1>2. x = Size * q + (x % Size) /\ y = Size * r + (y % Size)
  BY SizeAssumption
<1>3. y - x = Size * (r - q)
  <2> HIDE DEF q, r
  <2> QED BY <1>1, <1>2, SizeAssumption DEF Cell
<1>4. r - q >= 1
  <2> HIDE DEF q, r
  <2>1. CASE r - q <= 0
    <3>1. Size * (r - q) <= 0
      BY <2>1, <1>1, SizeAssumption
    <3> QED BY <3>1, <1>3
  <2> QED BY <2>1, <1>1
<1>5. Size * (r - q) >= Size
  <2> HIDE DEF q, r
  <2> QED BY <1>1, <1>4, SizeAssumption
<1> QED BY <1>3, <1>5

LEMMA CellLap ==
  ASSUME NEW x \in Int
  PROVE  Cell(x + Size) = Cell(x)
<1> DEFINE q == x \div Size
           r == (x + Size) \div Size
           a == x % Size
           b == (x + Size) % Size
<1>1. /\ q \in Int /\ r \in Int
      /\ a \in 0 .. Size - 1 /\ b \in 0 .. Size - 1
  BY SizeAssumption
<1>2. x = Size * q + a /\ x + Size = Size * r + b
  BY SizeAssumption
<1> HIDE DEF q, r, a, b
<1>3. b - a = Size * (q + 1 - r)
  BY <1>1, <1>2, SizeAssumption
<1>4. CASE q + 1 - r >= 1
  <2>1. Size * (q + 1 - r) >= Size
    BY <1>1, <1>4, SizeAssumption
  <2> QED BY <2>1, <1>1, <1>3, SizeAssumption
<1>5. CASE q + 1 - r <= -1
  <2>1. Size * (q + 1 - r) <= -Size
    BY <1>1, <1>5, SizeAssumption
  <2> QED BY <2>1, <1>1, <1>3, SizeAssumption
<1>6. CASE q + 1 - r = 0
  BY <1>6, <1>1, <1>3, SizeAssumption DEF Cell, a, b
<1> QED BY <1>1, <1>4, <1>5, <1>6

LEMMA CellInjective ==
  \A x, y \in Int : Cell(x) = Cell(y) /\ x - y < Size /\ y - x < Size => x = y
<1> SUFFICES ASSUME NEW x \in Int, NEW y \in Int, Cell(x) = Cell(y),
                    x - y < Size, y - x < Size
             PROVE  x = y
  OBVIOUS
<1>1. CASE x < y
  BY <1>1, CellApart, SizeAssumption
<1>2. CASE y < x
  BY <1>2, CellApart, SizeAssumption
<1> QED BY <1>1, <1>2

(***************************************************************************)
(* Type correctness.                                                       *)
(***************************************************************************)

LEMMA TypeInit == Init => TypeOK
  BY SizeAssumption DEF Init, TypeOK, Cells, Entries

LEMMA PushType ==
  ASSUME TypeOK, NEW p \in Producers, Push(p)
  PROVE  TypeOK'
<1>1. p \in Threads /\ pos[p] \in Nat /\ Cell(pos[p]) \in Cells
  BY CellType DEF TypeOK, Threads
<1>2. Entry(p) \in Entries
  BY DEF TypeOK, Entry, Entries
<1> USE <1>1, <1>2 DEF TypeOK, Goto
<1>3. CASE PushLoad(p)
  BY <1>3 DEF PushLoad
<1>4. CASE PushTurn(p)
  BY <1>4 DEF PushTurn
<1>5. CASE PushFull(p)
  BY <1>5 DEF PushFull
<1>6. CASE PushBehind(p)
  BY <1>6 DEF PushBehind
<1>7. CASE PushClaim(p)
  BY <1>7 DEF PushClaim
<1>8. CASE PushClaimFails(p)
  BY <1>8 DEF PushClaimFails
<1>9. CASE PushWrite(p)
  BY <1>9 DEF PushWrite
<1>10. CASE PushPublish(p)
  BY <1>10 DEF PushPublish
<1> QED BY <1>3, <1>4, <1>5, <1>6, <1>7, <1>8, <1>9, <1>10 DEF Push

LEMMA PopType ==
  ASSUME TypeOK, NEW c \in Consumers, Pop(c)
  PROVE  TypeOK'
<1>1. c \in Threads /\ pos[c] \in Nat /\ Cell(pos[c]) \in Cells
  BY CellType DEF TypeOK, Threads
<1> USE <1>1, SizeAssumption DEF TypeOK, Goto
<1>2. CASE PopLoad(c)
  BY <1>2 DEF PopLoad
<1>3. CASE PopTurn(c)
  BY <1>3 DEF PopTurn
<1>4. CASE PopEmpty(c)
  BY <1>4 DEF PopEmpty
<1>5. CASE PopBehind(c)
  BY <1>5 DEF PopBehind
<1>6. CASE PopClaim(c)
  BY <1>6 DEF PopClaim
<1>7. CASE PopClaimFails(c)
  BY <1>7 DEF PopClaimFails
<1>8. CASE PopRead(c)
  BY <1>8 DEF PopRead
<1>9. CASE PopRelease(c)
  BY <1>9 DEF PopRelease
<1> QED BY <1>2, <1>3, <1>4, <1>5, <1>6, <1>7, <1>8, <1>9 DEF Pop

\* Every variable keeps its type, for buffers of every size.
THEOREM TypeCorrect == Spec => []TypeOK
<1>1. TypeOK /\ [Next]_vars => TypeOK'
  <2> SUFFICES ASSUME TypeOK, [Next]_vars
               PROVE  TypeOK'
    OBVIOUS
  <2>1. CASE UNCHANGED vars
    BY <2>1 DEF vars, TypeOK
  <2> QED BY <2>1, PushType, PopType DEF Next
<1> QED BY <1>1, TypeInit, PTL DEF Spec

(***************************************************************************)
(* The inductive invariant holds initially.                                *)
(***************************************************************************)

LEMMA InvInit == Init => IInv
<1> SUFFICES ASSUME Init PROVE IInv
  OBVIOUS
<1> USE SizeAssumption
<1>1. TypeOK
  BY TypeInit
<1>2. Bounds /\ Labels
  BY DEF Init, Bounds, Labels, Threads
<1>3. Turns
  <2>1. ASSUME NEW x \in Window
        PROVE  /\ x < dequeue_pos
               /\ sequence[Cell(x)] = x + Size
               /\ ~ \E c \in Consumers : Draining(c, x)
    <3>1. x \in Int /\ x < 0 /\ x + Size \in Cells
      BY DEF Window, Init, Cells
    <3>2. Cell(x + Size) = x + Size
      BY <3>1 DEF Cell, Cells
    <3>3. Cell(x) = x + Size
      BY <3>1, <3>2, CellLap
    <3> QED BY <3>1, <3>3 DEF Init, Draining, Threads
  <2>2. Window \subseteq Int /\ dequeue_pos \in Int
    BY DEF Window, Init
  <2> QED BY <2>1, <2>2 DEF Turns
<1>4. Claims /\ Contents
  BY DEF Init, Claims, Contents, Threads, Window
<1>5. Stale
  BY DEF Init, Stale, Threads
<1> QED BY <1>1, <1>2, <1>3, <1>4, <1>5 DEF IInv

(***************************************************************************)
(* Every step preserves it.  First the steps that claim or free no cell:   *)
(* they only move one thread between the labels of its search for a turn.  *)
(***************************************************************************)

Searching == {"idle", "check", "reload", "cas"}

LEMMA SearchStep ==
  ASSUME IInv, TypeOK', NEW t \in Threads, NEW l \in Searching, NEW u \in Nat,
         pc[t] \in Searching, Goto(t, l), pos' = [pos EXCEPT ![t] = u],
         t \in Producers => /\ u <= enqueue_pos
                            /\ u < enqueue_pos => sequence[Cell(u)] >= u
                            /\ l = "cas" => sequence[Cell(u)] >= u,
         t \in Consumers => /\ u <= dequeue_pos
                            /\ u < dequeue_pos => sequence[Cell(u)] >= u + 1
                            /\ l = "cas" => sequence[Cell(u)] >= u + 1,
         UNCHANGED <<enqueue_pos, dequeue_pos, sequence, data, got, pushes, log>>
  PROVE  IInv'
<1> USE DEF IInv
<1>1. /\ \A s \in Threads : s # t => pc'[s] = pc[s] /\ pos'[s] = pos[s]
      /\ pc'[t] = l /\ pos'[t] = u
  BY DEF TypeOK, Goto
<1>2. /\ \A p \in Producers : p \in Threads
      /\ \A c \in Consumers : c \in Threads
  BY DEF Threads
<1>3. /\ l \notin {"write", "publish", "read", "release"}
      /\ pc[t] \notin {"write", "publish", "read", "release"}
  BY DEF Searching
<1>4. /\ \A p \in Producers : (pc[p] \in {"write", "publish"})' <=> pc[p] \in {"write", "publish"}
      /\ \A c \in Consumers : (pc[c] \in {"read", "release"})' <=> pc[c] \in {"read", "release"}
  BY <1>1, <1>2, <1>3
<1>5. /\ \A p \in Producers, x \in Int : Filling(p, x)' <=> Filling(p, x)
      /\ \A c \in Consumers, x \in Int : Draining(c, x)' <=> Draining(c, x)
  BY <1>1, <1>2, <1>3 DEF Filling, Draining
<1>6. Window' = Window /\ Window \subseteq Int
  BY SizeAssumption DEF Window, TypeOK
<1>7. Bounds' /\ Labels'
  BY <1>1, <1>2 DEF Bounds, Labels, Searching
<1>8. Turns'
  BY <1>5, <1>6 DEF Turns
<1>9. Claims'
  <2>1. ASSUME NEW p \in Producers, (pc[p] \in {"write", "publish"})'
        PROVE  p # t /\ pos'[p] = pos[p] /\ pc[p] \in {"write", "publish"} /\ pos[p] \in Int
    BY <2>1, <1>1, <1>2, <1>3 DEF TypeOK
  <2>2. ASSUME NEW c \in Consumers, (pc[c] \in {"read", "release"})'
        PROVE  c # t /\ pos'[c] = pos[c] /\ pc[c] \in {"read", "release"} /\ pos[c] \in Int
    BY <2>2, <1>1, <1>2, <1>3 DEF TypeOK
  <2> QED BY <2>1, <2>2, <1>5 DEF Claims
<1>10. Stale'
  BY <1>1, <1>2 DEF Stale
<1>11. Contents'
  <2>1. (\A x \in Window : x >= dequeue_pos =>
          (\E p \in Producers : Filling(p, x)) \/ data[Cell(x)] = log[x + 1])'
    BY <1>5, <1>6 DEF Contents
  <2>2. ASSUME NEW p \in Producers
        PROVE  (/\ pc[p] \in {"write", "publish"} => log[pos[p] + 1] = Entry(p)
                /\ pc[p] = "publish" => data[Cell(pos[p])] = Entry(p))'
    BY <1>1, <1>2, <1>3 DEF Contents, Entry
  <2>3. ASSUME NEW c \in Consumers
        PROVE  (/\ pc[c] = "read" => data[Cell(pos[c])] = log[pos[c] + 1]
                /\ pc[c] = "release" => got[c] = log[pos[c] + 1])'
    BY <1>1, <1>2, <1>3 DEF Contents
  <2> QED BY <2>1, <2>2, <2>3 DEF Contents
<1> QED BY <1>7, <1>8, <1>9, <1>10, <1>11

LEMMA PushSearches ==
  ASSUME IInv, NEW p \in Producers,
         PushLoad(p) \/ PushTurn(p) \/ PushFull(p) \/ PushBehind(p) \/ PushClaimFails(p)
  PROVE  IInv'
<1>1. TypeOK'
  BY PushType DEF Push, IInv
<1>2. p \in Threads /\ p \notin Consumers /\ pos[p] \in Nat /\ enqueue_pos \in Nat
  BY ThreadsAssumption DEF IInv, TypeOK, Threads
<1>3. pos = [pos EXCEPT ![p] = pos[p]]
  BY DEF IInv, TypeOK
<1>4. /\ pos[p] <= enqueue_pos
      /\ pos[p] < enqueue_pos => sequence[Cell(pos[p])] >= pos[p]
  BY DEF IInv, Stale
<1>5. CASE PushLoad(p) \/ PushClaimFails(p)
  BY <1>1, <1>2, <1>5, SearchStep DEF PushLoad, PushClaimFails, Searching
<1>6. CASE PushTurn(p)
  BY <1>1, <1>2, <1>3, <1>4, <1>6, SearchStep DEF PushTurn, Searching
<1>7. CASE PushFull(p) \/ PushBehind(p)
  BY <1>1, <1>2, <1>3, <1>4, <1>7, SearchStep DEF PushFull, PushBehind, Searching
<1> QED BY <1>5, <1>6, <1>7

LEMMA PopSearches ==
  ASSUME IInv, NEW c \in Consumers,
         PopLoad(c) \/ PopTurn(c) \/ PopEmpty(c) \/ PopBehind(c) \/ PopClaimFails(c)
  PROVE  IInv'
<1>1. TypeOK'
  BY PopType DEF Pop, IInv
<1>2. c \in Threads /\ c \notin Producers /\ pos[c] \in Nat /\ dequeue_pos \in Nat
  BY ThreadsAssumption DEF IInv, TypeOK, Threads
<1>3. pos = [pos EXCEPT ![c] = pos[c]]
  BY DEF IInv, TypeOK
<1>4. /\ pos[c] <= dequeue_pos
      /\ pos[c] < dequeue_pos => sequence[Cell(pos[c])] >= pos[c] + 1
  BY DEF IInv, Stale
<1>5. CASE PopLoad(c) \/ PopClaimFails(c)
  BY <1>1, <1>2, <1>5, SearchStep DEF PopLoad, PopClaimFails, Searching
<1>6. CASE PopTurn(c)
  BY <1>1, <1>2, <1>3, <1>4, <1>6, SearchStep DEF PopTurn, Searching
<1>7. CASE PopEmpty(c) \/ PopBehind(c)
  BY <1>1, <1>2, <1>3, <1>4, <1>7, SearchStep DEF PopEmpty, PopBehind, Searching
<1> QED BY <1>5, <1>6, <1>7

(***************************************************************************)
(* Claiming a position.  A thread whose compare_exchange succeeds has the  *)
(* turn of the cell: what it read before is still true.                    *)
(***************************************************************************)

LEMMA ClaimedTurn ==
  ASSUME Size > 1, IInv, sequence[Cell(enqueue_pos)] >= enqueue_pos
  PROVE  /\ sequence[Cell(enqueue_pos)] = enqueue_pos
         /\ enqueue_pos - Size < dequeue_pos
         /\ ~ \E c \in Consumers : Draining(c, enqueue_pos - Size)
<1> DEFINE x == enqueue_pos - Size
<1>1. x \in Window /\ x \in Int /\ enqueue_pos = x + Size /\ dequeue_pos \in Int
  BY SizeAssumption DEF IInv, TypeOK, Window
<1>2. Cell(enqueue_pos) = Cell(x)
  BY <1>1, CellLap
<1> HIDE DEF x
<1>3. sequence[Cell(x)] =
        IF x >= dequeue_pos
        THEN IF \E p \in Producers : Filling(p, x) THEN x ELSE x + 1
        ELSE IF \E c \in Consumers : Draining(c, x) THEN x + 1 ELSE x + Size
  BY <1>1 DEF IInv, Turns
<1>4. sequence[Cell(x)] >= x + Size
  BY <1>1, <1>2
<1>5. x < dequeue_pos /\ ~ (\E c \in Consumers : Draining(c, x))
  BY <1>1, <1>3, <1>4, SizeAssumption
<1>6. sequence[Cell(x)] = x + Size
  BY <1>1, <1>3, <1>5
<1> QED BY <1>1, <1>2, <1>5, <1>6 DEF x

LEMMA PublishedTurn ==
  ASSUME IInv, sequence[Cell(dequeue_pos)] >= dequeue_pos + 1
  PROVE  /\ dequeue_pos < enqueue_pos
         /\ ~ \E p \in Producers : Filling(p, dequeue_pos)
<1> DEFINE x == enqueue_pos - Size
           d == dequeue_pos
<1>1. /\ enqueue_pos \in Nat /\ d \in Nat
      /\ d <= enqueue_pos /\ enqueue_pos <= d + Size
  BY DEF IInv, TypeOK, Bounds
<1>2. ASSUME d = enqueue_pos
      PROVE  FALSE
  <2>1. x \in Window /\ x \in Int /\ d = x + Size /\ x < d
    BY <1>1, <1>2, SizeAssumption DEF Window
  <2>2. sequence[Cell(x)] >= x + Size + 1
    BY <2>1, CellLap
  <2>3. sequence[Cell(x)] = x + 1 \/ sequence[Cell(x)] = x + Size
    BY <2>1, <1>1 DEF IInv, Turns
  <2> HIDE DEF x
  <2> QED BY <2>1, <2>2, <2>3, SizeAssumption
<1>3. d \in Window /\ d < enqueue_pos
  BY <1>1, <1>2, SizeAssumption DEF Window
<1>4. (\E p \in Producers : Filling(p, d)) => sequence[Cell(d)] = d
  BY <1>1, <1>3 DEF IInv, Turns
<1> QED BY <1>1, <1>3, <1>4

LEMMA PushClaimStep ==
  ASSUME Size > 1, IInv, NEW p \in Producers, PushClaim(p)
  PROVE  IInv'
<1> USE DEF IInv
<1>1. TypeOK'
  BY PushType DEF Push
<1> DEFINE e == enqueue_pos
           d == dequeue_pos
<1>2. /\ p \in Threads /\ \A q \in Producers : q \in Threads
      /\ \A c \in Consumers : c \in Threads /\ c # p
      /\ \A t \in Threads : pos[t] \in Nat
      /\ e \in Nat /\ d \in Nat /\ Size \in Nat
  BY ThreadsAssumption, SizeAssumption DEF TypeOK, Threads
<1>3. pos[p] = e /\ pc[p] = "cas" /\ e' = e + 1
  BY DEF PushClaim
<1>4. /\ sequence[Cell(e)] = e
      /\ e - Size < d
      /\ ~ \E c \in Consumers : Draining(c, e - Size)
  BY <1>3, ClaimedTurn DEF Stale
<1>5. /\ \A t \in Threads : t # p => pc'[t] = pc[t]
      /\ pc'[p] = "write"
      /\ UNCHANGED <<dequeue_pos, sequence, data, pos, got, pushes>>
  BY <1>2 DEF PushClaim, Goto, TypeOK
<1>6. /\ \A q \in Producers, x \in Int : Filling(q, x)' <=> (Filling(q, x) \/ (q = p /\ x = e))
      /\ \A c \in Consumers, x \in Int : Draining(c, x)' <=> Draining(c, x)
  BY <1>2, <1>3, <1>5 DEF Filling, Draining
<1>7. /\ Len(log) = e
      /\ \A i \in 1 .. e : log'[i] = log[i]
      /\ log'[e + 1] = Entry(p)
      /\ Len(log') = e + 1
  <2>1. Entry(p) \in Entries
    BY DEF Entry, Entries, TypeOK
  <2> QED BY <2>1 DEF Bounds, TypeOK, PushClaim
<1>8. \A x \in Window' : x \in Int /\ (x = e \/ (x \in Window /\ x < e))
  BY <1>2, <1>3 DEF Window
<1>9. Bounds' /\ Labels'
  <2>1. Bounds'
    BY <1>2, <1>3, <1>4, <1>5, <1>7 DEF Bounds
  <2>2. Labels'
    BY <1>2, <1>5 DEF Labels
  <2> QED BY <2>1, <2>2
<1>10. Turns'
  <2> SUFFICES ASSUME NEW x \in Window'
               PROVE  (sequence[Cell(x)] =
                         IF x >= dequeue_pos
                         THEN IF \E q \in Producers : Filling(q, x) THEN x ELSE x + 1
                         ELSE IF \E c \in Consumers : Draining(c, x) THEN x + 1 ELSE x + Size)'
    BY DEF Turns
  <2>1. CASE x = e
    BY <2>1, <1>2, <1>4, <1>5, <1>6 DEF Bounds
  <2>2. CASE x \in Window /\ x < e
    <3>1. x \in Int /\ x # e
      BY <2>2, <1>2, <1>8
    <3>2. /\ (\E q \in Producers : Filling(q, x))' <=> \E q \in Producers : Filling(q, x)
          /\ (\E c \in Consumers : Draining(c, x))' <=> \E c \in Consumers : Draining(c, x)
      BY <3>1, <1>6
    <3> QED BY <2>2, <3>1, <3>2, <1>5 DEF Turns
  <2> QED BY <2>1, <2>2, <1>8
<1>11. Claims'
  <2>1. ASSUME NEW q \in Producers, (pc[q] \in {"write", "publish"})'
        PROVE  (/\ dequeue_pos <= pos[q] /\ pos[q] < enqueue_pos
                /\ \A r \in Producers : Filling(r, pos[q]) => r = q)'
    <3>1. CASE q = p
      BY <3>1, <1>2, <1>3, <1>5, <1>6 DEF Claims, Bounds, Filling
    <3>2. CASE q # p
      <4>1. pc[q] \in {"write", "publish"} /\ d <= pos[q] /\ pos[q] < e
        BY <2>1, <3>2, <1>2, <1>5 DEF Claims
      <4> QED BY <4>1, <1>2, <1>3, <1>5, <1>6 DEF Claims
    <3> QED BY <3>1, <3>2
  <2>2. ASSUME NEW c \in Consumers, (pc[c] \in {"read", "release"})'
        PROVE  (/\ enqueue_pos - Size <= pos[c] /\ pos[c] < dequeue_pos
                /\ \A b \in Consumers : Draining(b, pos[c]) => b = c)'
    <3>1. pc[c] \in {"read", "release"} /\ Draining(c, pos[c])
      BY <2>2, <1>2, <1>5 DEF Draining
    <3>2. pos[c] # e - Size
      BY <3>1, <1>4
    <3> QED BY <3>1, <3>2, <1>2, <1>3, <1>5, <1>6 DEF Claims
  <2> QED BY <2>1, <2>2 DEF Claims
<1>12. Stale'
  <2>1. ASSUME NEW q \in Producers
        PROVE  (/\ pos[q] <= enqueue_pos
                /\ pos[q] < enqueue_pos => sequence[Cell(pos[q])] >= pos[q]
                /\ pc[q] = "cas" => sequence[Cell(pos[q])] >= pos[q])'
    <3>1. pos[q] <= e /\ (pos[q] < e => sequence[Cell(pos[q])] >= pos[q])
      BY DEF Stale
    <3>2. CASE pos[q] = e
      BY <3>2, <1>2, <1>3, <1>4, <1>5
    <3>3. CASE pos[q] < e
      BY <3>1, <3>3, <1>2, <1>3, <1>5
    <3> QED BY <3>1, <3>2, <3>3, <1>2
  <2> QED BY <2>1, <1>2, <1>5 DEF Stale
<1>13. Contents'
  <2>1. ASSUME NEW x \in Window', x >= d
        PROVE  (\E q \in Producers : Filling(q, x))' \/ data'[Cell(x)] = log'[x + 1]
    <3>1. CASE x = e
      BY <3>1, <1>2, <1>6
    <3>2. CASE x \in Window /\ x < e
      BY <2>1, <3>2, <1>2, <1>5, <1>6, <1>7, <1>8 DEF Contents
    <3> QED BY <3>1, <3>2, <1>8
  <2>2. ASSUME NEW q \in Producers
        PROVE  (/\ pc[q] \in {"write", "publish"} => log[pos[q] + 1] = Entry(q)
                /\ pc[q] = "publish" => data[Cell(pos[q])] = Entry(q))'
    <3>1. CASE q = p
      BY <3>1, <1>3, <1>5, <1>7 DEF Entry
    <3>2. CASE q # p
      <4>1. pc'[q] = pc[q] /\ Entry(q)' = Entry(q)
        BY <3>2, <1>2, <1>5 DEF Entry
      <4>2. pc[q] \in {"write", "publish"} => pos[q] + 1 \in 1 .. e
        BY <1>2 DEF Claims
      <4> QED BY <4>1, <4>2, <1>5, <1>7 DEF Contents
    <3> QED BY <3>1, <3>2
  <2>3. ASSUME NEW c \in Consumers
        PROVE  (/\ pc[c] = "read" => data[Cell(pos[c])] = log[pos[c] + 1]
                /\ pc[c] = "release" => got[c] = log[pos[c] + 1])'
    <3>1. pc[c] \in {"read", "release"} => pos[c] < e
      BY <1>2 DEF Claims, Bounds
    <3> QED BY <3>1, <1>2, <1>5, <1>7 DEF Contents
  <2> QED BY <2>1, <2>2, <2>3, <1>5 DEF Contents
<1> QED BY <1>1, <1>9, <1>10, <1>11, <1>12, <1>13

LEMMA PopClaimStep ==
  ASSUME IInv, NEW c \in Consumers, PopClaim(c)
  PROVE  IInv'
<1> USE DEF IInv
<1>1. TypeOK'
  BY PopType DEF Pop
<1> DEFINE e == enqueue_pos
           d == dequeue_pos
<1>2. /\ c \in Threads /\ \A b \in Consumers : b \in Threads
      /\ \A p \in Producers : p \in Threads /\ p # c
      /\ \A t \in Threads : pos[t] \in Nat
      /\ e \in Nat /\ d \in Nat /\ Size \in Nat /\ e <= d + Size
  BY ThreadsAssumption, SizeAssumption DEF TypeOK, Threads, Bounds
<1>3. pos[c] = d /\ pc[c] = "cas" /\ d' = d + 1
  BY DEF PopClaim
<1>4. d < e /\ sequence[Cell(d)] >= d + 1 /\ ~ \E p \in Producers : Filling(p, d)
  BY <1>3, PublishedTurn DEF Stale
<1>5. /\ \A t \in Threads : t # c => pc'[t] = pc[t]
      /\ pc'[c] = "read"
      /\ UNCHANGED <<enqueue_pos, sequence, data, pos, got, pushes, log>>
  BY <1>2 DEF PopClaim, Goto, TypeOK
<1>6. /\ \A p \in Producers, x \in Int : Filling(p, x)' <=> Filling(p, x)
      /\ \A b \in Consumers, x \in Int : Draining(b, x)' <=> (Draining(b, x) \/ (b = c /\ x = d))
  BY <1>2, <1>3, <1>5 DEF Filling, Draining
<1>7. Window' = Window /\ d \in Window /\ Window \subseteq Int
  BY <1>2, <1>4, <1>5 DEF Window
<1>8. Bounds' /\ Labels'
  <2>1. Bounds'
    BY <1>2, <1>3, <1>4, <1>5 DEF Bounds
  <2>2. Labels'
    BY <1>2, <1>5 DEF Labels
  <2> QED BY <2>1, <2>2
<1>9. Turns'
  <2> SUFFICES ASSUME NEW x \in Window
               PROVE  (sequence[Cell(x)] =
                         IF x >= dequeue_pos
                         THEN IF \E p \in Producers : Filling(p, x) THEN x ELSE x + 1
                         ELSE IF \E b \in Consumers : Draining(b, x) THEN x + 1 ELSE x + Size)'
    BY <1>7 DEF Turns
  <2>1. CASE x = d
    <3>1. sequence[Cell(d)] = d + 1
      BY <1>2, <1>4, <1>7 DEF Turns
    <3>2. (\E b \in Consumers : Draining(b, x))'
      BY <2>1, <1>6, <1>7
    <3> QED BY <2>1, <3>1, <3>2, <1>2, <1>3, <1>5
  <2>2. CASE x # d
    <3>1. /\ (\E p \in Producers : Filling(p, x))' <=> \E p \in Producers : Filling(p, x)
          /\ (\E b \in Consumers : Draining(b, x))' <=> \E b \in Consumers : Draining(b, x)
      BY <2>2, <1>6, <1>7
    <3>2. x \in Int /\ (x >= d <=> x >= d + 1)
      BY <2>2, <1>2, <1>7
    <3> QED BY <3>1, <3>2, <1>3, <1>5 DEF Turns
  <2> QED BY <2>1, <2>2
<1>10. Claims'
  <2>1. ASSUME NEW p \in Producers, (pc[p] \in {"write", "publish"})'
        PROVE  (/\ dequeue_pos <= pos[p] /\ pos[p] < enqueue_pos
                /\ \A q \in Producers : Filling(q, pos[p]) => q = p)'
    <3>1. pc[p] \in {"write", "publish"} /\ Filling(p, pos[p])
      BY <2>1, <1>2, <1>5 DEF Filling
    <3>2. pos[p] # d
      BY <3>1, <1>4
    <3> QED BY <3>1, <3>2, <1>2, <1>3, <1>5, <1>6 DEF Claims
  <2>2. ASSUME NEW b \in Consumers, (pc[b] \in {"read", "release"})'
        PROVE  (/\ enqueue_pos - Size <= pos[b] /\ pos[b] < dequeue_pos
                /\ \A a \in Consumers : Draining(a, pos[b]) => a = b)'
    <3>1. CASE b = c
      BY <3>1, <1>2, <1>3, <1>5, <1>6 DEF Claims, Draining
    <3>2. CASE b # c
      <4>1. pc[b] \in {"read", "release"} /\ e - Size <= pos[b] /\ pos[b] < d
        BY <2>2, <3>2, <1>2, <1>5 DEF Claims
      <4> QED BY <4>1, <1>2, <1>3, <1>5, <1>6 DEF Claims
    <3> QED BY <3>1, <3>2
  <2> QED BY <2>1, <2>2 DEF Claims
<1>11. Stale'
  <2>1. ASSUME NEW b \in Consumers
        PROVE  (/\ pos[b] <= dequeue_pos
                /\ pos[b] < dequeue_pos => sequence[Cell(pos[b])] >= pos[b] + 1
                /\ pc[b] = "cas" => sequence[Cell(pos[b])] >= pos[b] + 1)'
    <3>1. pos[b] <= d /\ (pos[b] < d => sequence[Cell(pos[b])] >= pos[b] + 1)
      BY DEF Stale
    <3>2. CASE pos[b] = d
      BY <3>2, <1>2, <1>3, <1>4, <1>5
    <3>3. CASE pos[b] < d
      BY <3>1, <3>3, <1>2, <1>3, <1>5
    <3> QED BY <3>1, <3>2, <3>3, <1>2
  <2> QED BY <2>1, <1>2, <1>5 DEF Stale
<1>12. Contents'
  <2>1. data[Cell(d)] = log[d + 1]
    BY <1>2, <1>4, <1>7 DEF Contents
  <2>2. ASSUME NEW x \in Window, x >= d + 1
        PROVE  (\E p \in Producers : Filling(p, x))' \/ data'[Cell(x)] = log'[x + 1]
    BY <2>2, <1>2, <1>5, <1>6, <1>7 DEF Contents
  <2>3. ASSUME NEW p \in Producers
        PROVE  (/\ pc[p] \in {"write", "publish"} => log[pos[p] + 1] = Entry(p)
                /\ pc[p] = "publish" => data[Cell(pos[p])] = Entry(p))'
    BY <1>2, <1>5 DEF Contents, Entry
  <2>4. ASSUME NEW b \in Consumers
        PROVE  (/\ pc[b] = "read" => data[Cell(pos[b])] = log[pos[b] + 1]
                /\ pc[b] = "release" => got[b] = log[pos[b] + 1])'
    BY <2>1, <1>2, <1>3, <1>5 DEF Contents
  <2> QED BY <2>2, <2>3, <2>4, <1>3, <1>7 DEF Contents
<1> QED BY <1>1, <1>8, <1>9, <1>10, <1>11, <1>12

(***************************************************************************)
(* Owning a cell.  The owner of a position touches no other cell of the    *)
(* window.                                                                 *)
(***************************************************************************)

LEMMA WindowCells ==
  ASSUME IInv
  PROVE  /\ Window \subseteq Int
         /\ \A x, y \in Window : Cell(x) = Cell(y) => x = y
<1>1. enqueue_pos \in Int /\ Size \in Int
  BY SizeAssumption DEF IInv, TypeOK
<1>2. \A x, y \in Window : x \in Int /\ y \in Int /\ x - y < Size /\ y - x < Size
  BY <1>1 DEF Window
<1> QED BY <1>2, CellInjective

LEMMA OwnersInWindow ==
  ASSUME IInv
  PROVE  /\ \A p \in Producers : pc[p] \in {"write", "publish"} =>
              pos[p] \in Window /\ pos[p] >= dequeue_pos
         /\ \A c \in Consumers : pc[c] \in {"read", "release"} =>
              pos[c] \in Window /\ pos[c] < dequeue_pos
<1>1. /\ enqueue_pos \in Int /\ dequeue_pos \in Int /\ Size \in Int
      /\ \A p \in Producers : pos[p] \in Int
      /\ \A c \in Consumers : pos[c] \in Int
      /\ dequeue_pos <= enqueue_pos /\ enqueue_pos <= dequeue_pos + Size
  BY SizeAssumption DEF IInv, TypeOK, Bounds, Threads
<1> QED BY <1>1 DEF IInv, Claims, Window

LEMMA ThreadFacts ==
  ASSUME TypeOK
  PROVE  /\ \A p \in Producers : p \in Threads /\ p \notin Consumers
         /\ \A c \in Consumers : c \in Threads /\ c \notin Producers
         /\ \A t \in Threads : pos[t] \in Nat /\ Cell(pos[t]) \in Cells
         /\ enqueue_pos \in Nat /\ dequeue_pos \in Nat /\ Size \in Nat /\ Size > 0
         /\ \A i \in Cells : sequence[i] \in Nat
<1>1. \A t \in Threads : pos[t] \in Nat
  BY DEF TypeOK
<1>2. \A t \in Threads : Cell(pos[t]) \in Cells
  BY <1>1, CellType
<1> QED BY <1>1, <1>2, ThreadsAssumption, SizeAssumption DEF TypeOK, Threads

LEMMA PushWriteStep ==
  ASSUME IInv, NEW p \in Producers, PushWrite(p)
  PROVE  IInv'
<1> USE DEF IInv
<1>1. TypeOK'
  BY PushType DEF Push
<1> DEFINE k == Cell(pos[p])
<1>2. /\ p \in Threads /\ \A q \in Producers : q \in Threads
      /\ \A c \in Consumers : c \in Threads /\ c # p
      /\ pos[p] \in Window /\ pos[p] >= dequeue_pos /\ k \in Cells
      /\ \A t \in Threads : pos[t] \in Int
      /\ dequeue_pos \in Int
  BY ThreadFacts, OwnersInWindow DEF PushWrite
<1>3. /\ \A t \in Threads : t # p => pc'[t] = pc[t]
      /\ pc[p] = "write" /\ pc'[p] = "publish"
      /\ \A i \in Cells : i # k => data'[i] = data[i]
      /\ data'[k] = Entry(p)
      /\ UNCHANGED <<enqueue_pos, dequeue_pos, sequence, pos, got, pushes, log>>
  BY <1>2 DEF PushWrite, Goto, TypeOK
<1>4. /\ \A q \in Producers, x \in Int : Filling(q, x)' <=> Filling(q, x)
      /\ \A c \in Consumers, x \in Int : Draining(c, x)' <=> Draining(c, x)
  BY <1>2, <1>3 DEF Filling, Draining
<1>5. Window' = Window /\ Window \subseteq Int
  BY <1>3, WindowCells DEF Window
<1>6. Bounds' /\ Labels'
  BY <1>2, <1>3 DEF Bounds, Labels
<1>7. Turns'
  BY <1>3, <1>4, <1>5 DEF Turns
<1>8. Claims'
  BY <1>2, <1>3, <1>4 DEF Claims
<1>9. Stale'
  BY <1>2, <1>3 DEF Stale
<1>10. Contents'
  <2>1. ASSUME NEW x \in Window, x # pos[p]
        PROVE  data'[Cell(x)] = data[Cell(x)]
    BY <2>1, <1>2, <1>3, WindowCells, CellType
  <2>2. ASSUME NEW x \in Window, x >= dequeue_pos
        PROVE  (\E q \in Producers : Filling(q, x))' \/ data'[Cell(x)] = log'[x + 1]
    <3>1. CASE x = pos[p]
      BY <3>1, <1>2, <1>3 DEF Filling
    <3>2. CASE x # pos[p]
      BY <2>1, <2>2, <3>2, <1>3, <1>4, <1>5 DEF Contents
    <3> QED BY <3>1, <3>2
  <2>3. ASSUME NEW q \in Producers
        PROVE  (/\ pc[q] \in {"write", "publish"} => log[pos[q] + 1] = Entry(q)
                /\ pc[q] = "publish" => data[Cell(pos[q])] = Entry(q))'
    <3>1. Entry(q)' = Entry(q)
      BY <1>3 DEF Entry
    <3>2. CASE q = p
      BY <3>1, <3>2, <1>3 DEF Contents
    <3>3. CASE q # p
      <4>1. pc'[q] = pc[q] /\ pos'[q] = pos[q]
        BY <3>3, <1>2, <1>3
      <4>2. pc[q] = "publish" => pos[q] \in Window /\ pos[q] # pos[p]
        BY <3>3, <1>3, OwnersInWindow DEF Claims, Filling
      <4> QED BY <2>1, <3>1, <4>1, <4>2, <1>3 DEF Contents
    <3> QED BY <3>2, <3>3
  <2>4. ASSUME NEW c \in Consumers
        PROVE  (/\ pc[c] = "read" => data[Cell(pos[c])] = log[pos[c] + 1]
                /\ pc[c] = "release" => got[c] = log[pos[c] + 1])'
    <3>1. pc[c] = "read" => pos[c] \in Window /\ pos[c] # pos[p]
      BY <1>2, OwnersInWindow
    <3> QED BY <2>1, <3>1, <1>2, <1>3 DEF Contents
  <2> QED BY <2>2, <2>3, <2>4, <1>3, <1>5 DEF Contents
<1> QED BY <1>1, <1>6, <1>7, <1>8, <1>9, <1>10

LEMMA PushPublishStep ==
  ASSUME IInv, NEW p \in Producers, PushPublish(p)
  PROVE  IInv'
<1> USE DEF IInv
<1>1. TypeOK'
  BY PushType DEF Push
<1> DEFINE x0 == pos[p]
<1>2. /\ p \in Threads /\ \A q \in Producers : q \in Threads
      /\ \A c \in Consumers : c \in Threads /\ c # p
      /\ x0 \in Window /\ x0 >= dequeue_pos /\ Cell(x0) \in Cells
      /\ \A t \in Threads : pos[t] \in Int /\ Cell(pos[t]) \in Cells
      /\ dequeue_pos \in Int /\ x0 \in Int
      /\ \A i \in Cells : sequence[i] \in Int
  BY ThreadFacts, OwnersInWindow DEF PushPublish
<1>3. /\ \A t \in Threads : t # p => pc'[t] = pc[t]
      /\ pc[p] = "publish" /\ pc'[p] = "idle"
      /\ \A i \in Cells : i # Cell(x0) => sequence'[i] = sequence[i]
      /\ sequence'[Cell(x0)] = x0 + 1
      /\ \A q \in Producers : q # p => pushes'[q] = pushes[q]
      /\ UNCHANGED <<enqueue_pos, dequeue_pos, data, pos, got, log>>
  BY <1>2 DEF PushPublish, Goto, TypeOK
<1>4. /\ \A q \in Producers, x \in Int : Filling(q, x)' <=> (Filling(q, x) /\ q # p)
      /\ \A c \in Consumers, x \in Int : Draining(c, x)' <=> Draining(c, x)
      /\ Filling(p, x0)
      /\ \A q \in Producers : Filling(q, x0) => q = p
  BY <1>2, <1>3 DEF Filling, Draining, Claims
<1>5. Window' = Window /\ Window \subseteq Int
  BY <1>3, WindowCells DEF Window
<1>6. sequence[Cell(x0)] = x0
  BY <1>2, <1>4 DEF Turns
<1>7. \A i \in Cells : sequence'[i] \in Int /\ sequence'[i] >= sequence[i]
  BY <1>2, <1>3, <1>6
<1>8. Bounds' /\ Labels'
  BY <1>2, <1>3 DEF Bounds, Labels
<1>9. Turns'
  <2> SUFFICES ASSUME NEW x \in Window
               PROVE  (sequence[Cell(x)] =
                         IF x >= dequeue_pos
                         THEN IF \E q \in Producers : Filling(q, x) THEN x ELSE x + 1
                         ELSE IF \E c \in Consumers : Draining(c, x) THEN x + 1 ELSE x + Size)'
    BY <1>5 DEF Turns
  <2>1. CASE x = x0
    <3>1. ~ (\E q \in Producers : Filling(q, x))'
      BY <2>1, <1>2, <1>4
    <3> QED BY <2>1, <3>1, <1>2, <1>3
  <2>2. CASE x # x0
    <3>1. sequence'[Cell(x)] = sequence[Cell(x)]
      BY <2>2, <1>2, <1>3, <1>5, WindowCells, CellType
    <3>2. ~ Filling(p, x)
      BY <2>2 DEF Filling
    <3>3. /\ (\E q \in Producers : Filling(q, x))' <=> \E q \in Producers : Filling(q, x)
          /\ (\E c \in Consumers : Draining(c, x))' <=> \E c \in Consumers : Draining(c, x)
      BY <3>2, <1>4, <1>5
    <3> QED BY <3>1, <3>3, <1>3 DEF Turns
  <2> QED BY <2>1, <2>2
<1>10. Claims'
  BY <1>2, <1>3, <1>4 DEF Claims
<1>11. Stale'
  <2>1. ASSUME NEW q \in Producers
        PROVE  (/\ pos[q] <= enqueue_pos
                /\ pos[q] < enqueue_pos => sequence[Cell(pos[q])] >= pos[q]
                /\ pc[q] = "cas" => sequence[Cell(pos[q])] >= pos[q])'
    <3>1. pc'[q] = "cas" => pc[q] = "cas"
      BY <1>2, <1>3
    <3> QED BY <3>1, <1>2, <1>3, <1>7 DEF Stale
  <2>2. ASSUME NEW c \in Consumers
        PROVE  (/\ pos[c] <= dequeue_pos
                /\ pos[c] < dequeue_pos => sequence[Cell(pos[c])] >= pos[c] + 1
                /\ pc[c] = "cas" => sequence[Cell(pos[c])] >= pos[c] + 1)'
    <3>1. pc'[c] = pc[c]
      BY <1>2, <1>3
    <3> QED BY <3>1, <1>2, <1>3, <1>7 DEF Stale
  <2> QED BY <2>1, <2>2 DEF Stale
<1>12. Contents'
  <2>1. ASSUME NEW x \in Window, x >= dequeue_pos
        PROVE  (\E q \in Producers : Filling(q, x))' \/ data'[Cell(x)] = log'[x + 1]
    <3>1. CASE x = x0
      BY <3>1, <1>3 DEF Contents
    <3>2. CASE x # x0
      <4>1. ~ Filling(p, x)
        BY <3>2 DEF Filling
      <4> QED BY <2>1, <4>1, <1>3, <1>4, <1>5 DEF Contents
    <3> QED BY <3>1, <3>2
  <2>2. ASSUME NEW q \in Producers
        PROVE  (/\ pc[q] \in {"write", "publish"} => log[pos[q] + 1] = Entry(q)
                /\ pc[q] = "publish" => data[Cell(pos[q])] = Entry(q))'
    <3>1. CASE q = p
      BY <3>1, <1>3
    <3>2. CASE q # p
      BY <3>2, <1>2, <1>3 DEF Contents, Entry
    <3> QED BY <3>1, <3>2
  <2>3. ASSUME NEW c \in Consumers
        PROVE  (/\ pc[c] = "read" => data[Cell(pos[c])] = log[pos[c] + 1]
                /\ pc[c] = "release" => got[c] = log[pos[c] + 1])'
    BY <1>2, <1>3 DEF Contents
  <2> QED BY <2>1, <2>2, <2>3, <1>3, <1>5 DEF Contents
<1> QED BY <1>1, <1>8, <1>9, <1>10, <1>11, <1>12

LEMMA PopReadStep ==
  ASSUME IInv, NEW c \in Consumers, PopRead(c)
  PROVE  IInv'
<1> USE DEF IInv
<1>1. TypeOK'
  BY PopType DEF Pop
<1>2. /\ c \in Threads /\ \A b \in Consumers : b \in Threads
      /\ \A p \in Producers : p \in Threads /\ p # c
      /\ \A t \in Threads : pos[t] \in Int
  BY ThreadFacts
<1>3. /\ \A t \in Threads : t # c => pc'[t] = pc[t]
      /\ pc[c] = "read" /\ pc'[c] = "release"
      /\ \A b \in Consumers : b # c => got'[b] = got[b]
      /\ got'[c] = data[Cell(pos[c])]
      /\ UNCHANGED <<enqueue_pos, dequeue_pos, sequence, data, pos, pushes, log>>
  BY <1>2 DEF PopRead, Goto, TypeOK
<1>4. /\ \A p \in Producers, x \in Int : Filling(p, x)' <=> Filling(p, x)
      /\ \A b \in Consumers, x \in Int : Draining(b, x)' <=> Draining(b, x)
  BY <1>2, <1>3 DEF Filling, Draining
<1>5. Window' = Window /\ Window \subseteq Int
  BY <1>3, WindowCells DEF Window
<1>6. Bounds' /\ Labels'
  BY <1>2, <1>3 DEF Bounds, Labels
<1>7. Turns'
  BY <1>3, <1>4, <1>5 DEF Turns
<1>8. Claims'
  BY <1>2, <1>3, <1>4 DEF Claims
<1>9. Stale'
  BY <1>2, <1>3 DEF Stale
<1>10. Contents'
  <2>1. (\A x \in Window : x >= dequeue_pos =>
          (\E p \in Producers : Filling(p, x)) \/ data[Cell(x)] = log[x + 1])'
    BY <1>3, <1>4, <1>5 DEF Contents
  <2>2. ASSUME NEW p \in Producers
        PROVE  (/\ pc[p] \in {"write", "publish"} => log[pos[p] + 1] = Entry(p)
                /\ pc[p] = "publish" => data[Cell(pos[p])] = Entry(p))'
    BY <1>2, <1>3 DEF Contents, Entry
  <2>3. ASSUME NEW b \in Consumers
        PROVE  (/\ pc[b] = "read" => data[Cell(pos[b])] = log[pos[b] + 1]
                /\ pc[b] = "release" => got[b] = log[pos[b] + 1])'
    BY <1>2, <1>3 DEF Contents
  <2> QED BY <2>1, <2>2, <2>3 DEF Contents
<1> QED BY <1>1, <1>6, <1>7, <1>8, <1>9, <1>10

LEMMA PopReleaseStep ==
  ASSUME IInv, NEW c \in Consumers, PopRelease(c)
  PROVE  IInv'
<1> USE DEF IInv
<1>1. TypeOK'
  BY PopType DEF Pop
<1> DEFINE x0 == pos[c]
<1>2. /\ c \in Threads /\ \A b \in Consumers : b \in Threads
      /\ \A p \in Producers : p \in Threads /\ p # c
      /\ x0 \in Window /\ x0 < dequeue_pos /\ Cell(x0) \in Cells
      /\ \A t \in Threads : pos[t] \in Int /\ Cell(pos[t]) \in Cells
      /\ dequeue_pos \in Int /\ x0 \in Int /\ Size \in Int /\ Size > 0
      /\ \A i \in Cells : sequence[i] \in Int
  BY ThreadFacts, OwnersInWindow DEF PopRelease
<1>3. /\ \A t \in Threads : t # c => pc'[t] = pc[t]
      /\ pc[c] = "release" /\ pc'[c] = "idle"
      /\ \A i \in Cells : i # Cell(x0) => sequence'[i] = sequence[i]
      /\ sequence'[Cell(x0)] = x0 + Size
      /\ UNCHANGED <<enqueue_pos, dequeue_pos, data, pos, got, pushes, log>>
  BY <1>2 DEF PopRelease, Goto, TypeOK
<1>4. /\ \A p \in Producers, x \in Int : Filling(p, x)' <=> Filling(p, x)
      /\ \A b \in Consumers, x \in Int : Draining(b, x)' <=> (Draining(b, x) /\ b # c)
      /\ Draining(c, x0)
      /\ \A b \in Consumers : Draining(b, x0) => b = c
  BY <1>2, <1>3 DEF Filling, Draining, Claims
<1>5. Window' = Window /\ Window \subseteq Int
  BY <1>3, WindowCells DEF Window
<1>6. sequence[Cell(x0)] = x0 + 1
  BY <1>2, <1>4 DEF Turns
<1>7. \A i \in Cells : sequence'[i] \in Int /\ sequence'[i] >= sequence[i]
  BY <1>2, <1>3, <1>6
<1>8. Bounds' /\ Labels'
  BY <1>2, <1>3 DEF Bounds, Labels
<1>9. Turns'
  <2> SUFFICES ASSUME NEW x \in Window
               PROVE  (sequence[Cell(x)] =
                         IF x >= dequeue_pos
                         THEN IF \E p \in Producers : Filling(p, x) THEN x ELSE x + 1
                         ELSE IF \E b \in Consumers : Draining(b, x) THEN x + 1 ELSE x + Size)'
    BY <1>5 DEF Turns
  <2>1. CASE x = x0
    <3>1. ~ (\E b \in Consumers : Draining(b, x))'
      BY <2>1, <1>2, <1>4
    <3> QED BY <2>1, <3>1, <1>2, <1>3
  <2>2. CASE x # x0
    <3>1. sequence'[Cell(x)] = sequence[Cell(x)]
      BY <2>2, <1>2, <1>3, <1>5, WindowCells, CellType
    <3>2. ~ Draining(c, x)
      BY <2>2 DEF Draining
    <3>3. /\ (\E p \in Producers : Filling(p, x))' <=> \E p \in Producers : Filling(p, x)
          /\ (\E b \in Consumers : Draining(b, x))' <=> \E b \in Consumers : Draining(b, x)
      BY <3>2, <1>4, <1>5
    <3> QED BY <3>1, <3>3, <1>3 DEF Turns
  <2> QED BY <2>1, <2>2
<1>10. Claims'
  BY <1>2, <1>3, <1>4 DEF Claims
<1>11. Stale'
  <2>1. ASSUME NEW p \in Producers
        PROVE  (/\ pos[p] <= enqueue_pos
                /\ pos[p] < enqueue_pos => sequence[Cell(pos[p])] >= pos[p]
                /\ pc[p] = "cas" => sequence[Cell(pos[p])] >= pos[p])'
    <3>1. pc'[p] = pc[p]
      BY <1>2, <1>3
    <3> QED BY <3>1, <1>2, <1>3, <1>7 DEF Stale
  <2>2. ASSUME NEW b \in Consumers
        PROVE  (/\ pos[b] <= dequeue_pos
                /\ pos[b] < dequeue_pos => sequence[Cell(pos[b])] >= pos[b] + 1
                /\ pc[b] = "cas" => sequence[Cell(pos[b])] >= pos[b] + 1)'
    <3>1. pc'[b] = "cas" => pc[b] = "cas"
      BY <1>2, <1>3
    <3> QED BY <3>1, <1>2, <1>3, <1>7 DEF Stale
  <2> QED BY <2>1, <2>2 DEF Stale
<1>12. Contents'
  <2>1. (\A x \in Window : x >= dequeue_pos =>
          (\E p \in Producers : Filling(p, x)) \/ data[Cell(x)] = log[x + 1])'
    BY <1>3, <1>4, <1>5 DEF Contents
  <2>2. ASSUME NEW p \in Producers
        PROVE  (/\ pc[p] \in {"write", "publish"} => log[pos[p] + 1] = Entry(p)
                /\ pc[p] = "publish" => data[Cell(pos[p])] = Entry(p))'
    BY <1>2, <1>3 DEF Contents, Entry
  <2>3. ASSUME NEW b \in Consumers
        PROVE  (/\ pc[b] = "read" => data[Cell(pos[b])] = log[pos[b] + 1]
                /\ pc[b] = "release" => got[b] = log[pos[b] + 1])'
    BY <1>2, <1>3 DEF Contents
  <2> QED BY <2>1, <2>2, <2>3 DEF Contents
<1> QED BY <1>1, <1>8, <1>9, <1>10, <1>11, <1>12

LEMMA InvStep ==
  ASSUME Size > 1, IInv, [Next]_vars
  PROVE  IInv'
<1>1. CASE UNCHANGED vars
  <2> USE <1>1 DEF vars
  <2>1. TypeOK' /\ Bounds' /\ Labels' /\ Stale'
    BY DEF IInv, TypeOK, Bounds, Labels, Stale
  <2>2. Turns'
    BY DEF IInv, Turns, Window, Filling, Draining
  <2>3. Claims'
    BY DEF IInv, Claims, Filling, Draining
  <2>4. Contents'
    BY DEF IInv, Contents, Window, Filling, Entry
  <2> QED BY <2>1, <2>2, <2>3, <2>4 DEF IInv
<1>2. ASSUME NEW p \in Producers, Push(p)
      PROVE  IInv'
  BY <1>2, PushSearches, PushClaimStep, PushWriteStep, PushPublishStep DEF Push
<1>3. ASSUME NEW c \in Consumers, Pop(c)
      PROVE  IInv'
  BY <1>3, PopSearches, PopClaimStep, PopReadStep, PopReleaseStep DEF Pop
<1> QED BY <1>1, <1>2, <1>3 DEF Next

(***************************************************************************)
(* The results.                                                            *)
(***************************************************************************)

\* The inductive invariant holds in every behaviour of a buffer of size_ >= 2.
THEOREM Invariance ==
  ASSUME Size > 1
  PROVE  Spec => []IInv
<1>1. IInv /\ [Next]_vars => IInv'
  BY InvStep
<1> QED BY <1>1, InvInit, PTL DEF Spec

\* No two threads ever copy into or out of the same cell of the buffer.
THEOREM CellsHaveOneOwner ==
  ASSUME Size > 1
  PROVE  Spec => []OneOwnerPerCell
<1>1. IInv => OneOwnerPerCell
  <2> SUFFICES ASSUME IInv, NEW s \in Threads, NEW t \in Threads, s # t,
                      pc[s] \in {"write", "publish", "read", "release"},
                      pc[t] \in {"write", "publish", "read", "release"},
                      Cell(pos[s]) = Cell(pos[t])
               PROVE  FALSE
    BY DEF OneOwnerPerCell
  <2> DEFINE Fills(u) == u \in Producers /\ pc[u] \in {"write", "publish"}
             Drains(u) == u \in Consumers /\ pc[u] \in {"read", "release"}
  <2>1. (Fills(s) \/ Drains(s)) /\ (Fills(t) \/ Drains(t))
    BY DEF IInv, Labels, Threads
  <2>2. pos[s] \in Window /\ pos[t] \in Window
    BY <2>1, OwnersInWindow
  <2>3. pos[s] = pos[t]
    BY <2>2, WindowCells
  <2>4. ~ (Fills(s) /\ Drains(t)) /\ ~ (Drains(s) /\ Fills(t))
    BY <2>2, <2>3, OwnersInWindow, ThreadFacts DEF IInv
  <2>5. ~ (Fills(s) /\ Fills(t)) /\ ~ (Drains(s) /\ Drains(t))
    BY <2>3 DEF IInv, Claims, Filling, Draining
  <2> QED BY <2>1, <2>4, <2>5
<1> QED BY <1>1, Invariance, PTL

\* A buffer of size_ >= 2 never accepts more entries than it has cells.
THEOREM CapacityRespected ==
  ASSUME Size > 1
  PROVE  Spec => []NeverOverfull
<1>1. IInv => NeverOverfull
  BY ThreadFacts DEF IInv, Bounds, NeverOverfull
<1> QED BY <1>1, Invariance, PTL

\* Every Pop returns the entry that was pushed at the position it claimed.
THEOREM PopsAreCorrect ==
  ASSUME Size > 1
  PROVE  Spec => []PopReturnsItsEntry
<1>1. IInv => PopReturnsItsEntry
  BY DEF IInv, Contents, PopReturnsItsEntry
<1> QED BY <1>1, Invariance, PTL

\* A call is refused only when the buffer is full (or empty), or when the
\* thread that owns the cell has not finished with it.
THEOREM RefusalsHaveCause ==
  ASSUME Size > 1
  PROVE  Spec => RefusedForCause
<1> DEFINE e == enqueue_pos
           d == dequeue_pos
<1>1. ASSUME IInv, NEW p \in Producers, PushFull(p)
      PROVE  /\ pos[p] = e
             /\ e - d = Size \/ \E c \in Consumers : Draining(c, e - Size)
  <2>1. /\ pos[p] \in Nat /\ Cell(pos[p]) \in Cells /\ sequence[Cell(pos[p])] \in Nat
        /\ e \in Nat /\ d \in Nat /\ Size \in Nat
    BY <1>1, ThreadFacts DEF IInv
  <2>2. pos[p] = e /\ sequence[Cell(e)] < e
    BY <1>1, <2>1 DEF PushFull, IInv, Stale
  <2> DEFINE x == e - Size
  <2>3. x \in Window /\ x \in Int /\ e = x + Size /\ Cell(x) = Cell(e)
    BY <2>1, SizeAssumption, CellLap DEF Window
  <2> HIDE DEF x
  <2>4. CASE x >= d
    BY <1>1, <2>1, <2>2, <2>3, <2>4 DEF IInv, Bounds, x
  <2>5. CASE x < d
    <3>1. \E c \in Consumers : Draining(c, x)
      BY <1>1, <2>1, <2>2, <2>3, <2>5 DEF IInv, Turns
    <3> QED BY <3>1, <2>2 DEF x
  <2> QED BY <2>1, <2>3, <2>4, <2>5
<1>2. ASSUME IInv, NEW c \in Consumers, PopEmpty(c)
      PROVE  /\ pos[c] = d
             /\ e = d \/ \E p \in Producers : Filling(p, d)
  <2>1. /\ pos[c] \in Nat /\ Cell(pos[c]) \in Cells /\ sequence[Cell(pos[c])] \in Nat
        /\ e \in Nat /\ d \in Nat /\ Size \in Nat /\ d <= e /\ e <= d + Size
    BY <1>2, ThreadFacts DEF IInv, Bounds
  <2>2. pos[c] = d /\ sequence[Cell(d)] < d + 1
    BY <1>2, <2>1 DEF PopEmpty, IInv, Stale
  <2>3. CASE d < e
    <3>1. d \in Window
      BY <2>1, <2>3 DEF Window
    <3> QED BY <1>2, <2>1, <2>2, <3>1 DEF IInv, Turns
  <2> QED BY <2>1, <2>2, <2>3
<1>3. IInv /\ [Next]_vars =>
        [/\ \A p \in Producers : PushFull(p) =>
              /\ pos[p] = enqueue_pos
              /\ \/ enqueue_pos - dequeue_pos = Size
                 \/ \E c \in Consumers : Draining(c, enqueue_pos - Size)
         /\ \A c \in Consumers : PopEmpty(c) =>
              /\ pos[c] = dequeue_pos
              /\ \/ enqueue_pos = dequeue_pos
                 \/ \E p \in Producers : Filling(p, dequeue_pos)]_vars
  BY <1>1, <1>2
<1> QED BY <1>3, Invariance, PTL DEF Spec, RefusedForCause

(***************************************************************************)
(* Refinement: the buffer implements the atomic queue of BoundedQueue.     *)
(***************************************************************************)

LEMMA QueueInit == Init => Queue!Init
  BY DEF Init, Queue!Init, Accepted, Delivered, Threads, NoEntry, Queue!NoEntry

LEMMA QueueStep ==
  ASSUME Size > 1, IInv, [Next]_vars
  PROVE  [Queue!Next]_(Queue!qvars)
<1> USE DEF Queue!qvars
<1>1. /\ \A p \in Producers : p \in Threads /\ p \notin Consumers
      /\ \A c \in Consumers : c \in Threads /\ c \notin Producers
      /\ enqueue_pos \in Nat /\ dequeue_pos \in Nat /\ Size \in Nat
      /\ \A t \in Threads : pos[t] \in Nat
      /\ Len(log) = enqueue_pos
      /\ \A p \in Producers : pushes[p] \in Nat
  BY ThreadFacts DEF IInv, Bounds, TypeOK
<1>2. CASE UNCHANGED vars
  BY <1>2 DEF vars, Accepted, Delivered
<1>3. ASSUME NEW t \in Threads, NEW l \in Searching, Goto(t, l), pc[t] \in Searching,
             \A u \in Threads : u # t => pos'[u] = pos[u],
             UNCHANGED <<dequeue_pos, got, pushes, log>>
      PROVE  UNCHANGED Queue!qvars
  <2>1. /\ \A u \in Threads : u # t => pc'[u] = pc[u]
        /\ pc'[t] = l
        /\ l \notin {"write", "publish", "read"}
        /\ pc[t] \notin {"write", "publish", "read"}
    BY <1>3 DEF Goto, IInv, TypeOK, Searching
  <2>2. Accepted' = Accepted
    BY <1>1, <1>3, <2>1 DEF Accepted
  <2>3. Delivered' = Delivered
    BY <1>1, <1>3, <2>1 DEF Delivered
  <2> QED BY <1>3, <2>2, <2>3
<1>4. ASSUME NEW p \in Producers,
             PushLoad(p) \/ PushTurn(p) \/ PushFull(p) \/ PushBehind(p) \/ PushClaimFails(p)
      PROVE  UNCHANGED Queue!qvars
  <2>1. \A u \in Threads : u # p => pos'[u] = pos[u]
    BY <1>4 DEF PushLoad, PushTurn, PushFull, PushBehind, PushClaimFails, IInv, TypeOK
  <2> QED BY <2>1, <1>1, <1>3, <1>4
        DEF PushLoad, PushTurn, PushFull, PushBehind, PushClaimFails, Searching
<1>5. ASSUME NEW c \in Consumers,
             PopLoad(c) \/ PopTurn(c) \/ PopEmpty(c) \/ PopBehind(c) \/ PopClaimFails(c)
      PROVE  UNCHANGED Queue!qvars
  <2>1. \A u \in Threads : u # c => pos'[u] = pos[u]
    BY <1>5 DEF PopLoad, PopTurn, PopEmpty, PopBehind, PopClaimFails, IInv, TypeOK
  <2> QED BY <2>1, <1>1, <1>3, <1>5
        DEF PopLoad, PopTurn, PopEmpty, PopBehind, PopClaimFails, Searching
<1>6. ASSUME NEW p \in Producers, PushClaim(p)
      PROVE  Queue!Enqueue(p)
  <2>1. /\ \A u \in Threads : u # p => pc'[u] = pc[u]
        /\ pc[p] = "cas" /\ pc'[p] = "write"
        /\ UNCHANGED <<dequeue_pos, pos, got, pushes>>
        /\ log' = Append(log, Entry(p))
    BY <1>1, <1>6 DEF PushClaim, Goto, IInv, TypeOK
  <2>2. Len(log) - dequeue_pos < Size
    BY <1>1, <1>6, ClaimedTurn DEF PushClaim, IInv, Stale
  <2>3. Entry(p) = <<p, Accepted[p]>>
    BY <2>1 DEF Entry, Accepted
  <2>4. Accepted' = [Accepted EXCEPT ![p] = @ + 1]
    BY <1>1, <2>1 DEF Accepted
  <2>5. Delivered' = Delivered
    <3>1. ASSUME NEW c \in Consumers
          PROVE  Delivered'[c] = Delivered[c]
      <4>1. pc'[c] = pc[c]
        BY <1>1, <2>1
      <4>2. pc[c] = "read" => pos[c] + 1 \in 1 .. Len(log)
        BY <1>1 DEF IInv, Claims, Bounds
      <4>3. \A i \in 1 .. Len(log) : log'[i] = log[i]
        BY <2>1 DEF IInv, TypeOK
      <4> QED BY <4>1, <4>2, <4>3, <2>1 DEF Delivered
    <3> QED BY <3>1 DEF Delivered
  <2> QED BY <2>1, <2>2, <2>3, <2>4, <2>5 DEF Queue!Enqueue
<1>7. ASSUME NEW p \in Producers, PushWrite(p) \/ PushPublish(p)
      PROVE  UNCHANGED Queue!qvars
  <2>1. /\ \A u \in Threads : u # p => pc'[u] = pc[u]
        /\ UNCHANGED <<dequeue_pos, pos, got, log>>
        /\ \A q \in Producers : q # p => pushes'[q] = pushes[q]
    BY <1>1, <1>7 DEF PushWrite, PushPublish, Goto, IInv, TypeOK
  <2>2. Accepted' = Accepted
    <3>1. Accepted'[p] = Accepted[p]
      BY <1>1, <1>7 DEF PushWrite, PushPublish, Goto, Accepted, IInv, TypeOK
    <3> QED BY <1>1, <2>1, <3>1 DEF Accepted
  <2>3. Delivered' = Delivered
    BY <1>1, <2>1 DEF Delivered
  <2> QED BY <2>1, <2>2, <2>3
<1>8. ASSUME NEW c \in Consumers, PopClaim(c)
      PROVE  Queue!Dequeue(c)
  <2>1. /\ \A u \in Threads : u # c => pc'[u] = pc[u]
        /\ pc[c] = "cas" /\ pc'[c] = "read" /\ pos[c] = dequeue_pos
        /\ dequeue_pos' = dequeue_pos + 1
        /\ UNCHANGED <<pos, got, pushes, log>>
    BY <1>1, <1>8 DEF PopClaim, Goto, IInv, TypeOK
  <2>2. dequeue_pos < Len(log)
    BY <1>1, <1>8, <2>1, PublishedTurn DEF IInv, Stale
  <2>3. Delivered' = [Delivered EXCEPT ![c] = log[dequeue_pos + 1]]
    BY <1>1, <2>1 DEF Delivered
  <2>4. Accepted' = Accepted
    BY <1>1, <2>1 DEF Accepted
  <2> QED BY <2>1, <2>2, <2>3, <2>4 DEF Queue!Dequeue
<1>9. ASSUME NEW c \in Consumers, PopRead(c) \/ PopRelease(c)
      PROVE  UNCHANGED Queue!qvars
  <2>1. /\ \A u \in Threads : u # c => pc'[u] = pc[u]
        /\ UNCHANGED <<dequeue_pos, pos, pushes, log>>
        /\ \A b \in Consumers : b # c => got'[b] = got[b]
    BY <1>1, <1>9 DEF PopRead, PopRelease, Goto, IInv, TypeOK
  <2>2. Delivered' = Delivered
    <3>1. Delivered'[c] = Delivered[c]
      BY <1>1, <1>9 DEF PopRead, PopRelease, Goto, Delivered, IInv, TypeOK, Contents
    <3> QED BY <1>1, <2>1, <3>1 DEF Delivered
  <2>3. Accepted' = Accepted
    BY <1>1, <2>1 DEF Accepted
  <2> QED BY <2>1, <2>2, <2>3
<1> QED BY <1>2, <1>4, <1>5, <1>6, <1>7, <1>8, <1>9 DEF Next, Push, Pop, Queue!Next

\* Whatever the interleaving, the buffer's callers see an atomic bounded
\* FIFO: entries leave once, in the order in which they were accepted.
THEOREM Refinement ==
  ASSUME Size > 1
  PROVE  Spec => ImplementsQueue
<1>1. IInv /\ [Next]_vars => [Queue!Next]_(Queue!qvars)
  BY QueueStep
<1> QED BY <1>1, QueueInit, Invariance, PTL DEF Spec, ImplementsQueue, Queue!Spec
=============================================================================
