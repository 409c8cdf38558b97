-------------------------- MODULE MemFsFileProofs ---------------------------
(***************************************************************************)
(* The data of a file of the virtual disk, for every allocation unit, size *)
(* limit, capacity, offset and length: a file made by a host is a flat     *)
(* sequence of bytes in a buffer that has room for it.                     *)
(***************************************************************************)
EXTENDS MemFsFile, SequenceTheorems, TLAPS

Files == [size : Nat, alloc : Nat, data : Seq(Bytes)]

-----------------------------------------------------------------------------
(* Arithmetic. *)

LEMMA RoundUpFacts ==
  ASSUME NEW n \in Nat
  PROVE  RoundUp(n) \in Nat /\ n <= RoundUp(n)
<1> DEFINE m == n + Unit - 1
           q == m \div Unit
           r == m % Unit
<1>1. Unit \in Nat \ {0} /\ m \in Nat
  BY MemFsFileAssumption
<1>2. RoundUp(n) = q * Unit
  BY DEF RoundUp
<1> HIDE DEF m
<1>3. q \in Int /\ r \in 0 .. Unit - 1 /\ m = q * Unit + r
  BY <1>1
<1> HIDE DEF q, r
<1>4. q * Unit \in Int
  BY <1>1, <1>3
<1>5. m = n + Unit - 1
  BY DEF m
<1> QED BY <1>1, <1>2, <1>3, <1>4, <1>5

\* The length of a write, as 32 bits, never leads beyond its end, or the
\* controller refuses it.
LEMMA LengthFacts ==
  ASSUME NEW from \in Nat, NEW to \in Nat,
         ControllerTakes(from, (to - from) % Wrap)
  PROVE  (to - from) % Wrap \in Nat /\ from + ((to - from) % Wrap) <= to
<1> DEFINE d == to - from
           q == d \div Wrap
           r == d % Wrap
<1>1. Wrap \in Nat \ {0} /\ d \in Int /\ Capacity \in Nat /\ Capacity < Wrap
  BY MemFsFileAssumption
<1>2. q \in Int /\ r \in 0 .. Wrap - 1 /\ d = q * Wrap + r
  BY <1>1
<1>3. from + r <= Capacity
  BY <1>1, <1>2 DEF ControllerTakes
<1>4. SUFFICES from + r <= to
  BY <1>2
<1> HIDE DEF q, r
<1> DEFINE p == q * Wrap
<1>0. p \in Int /\ d = p + r
  BY <1>1, <1>2
<1>5. CASE d >= 0
  <2>1. q >= 0
    <3>1. SUFFICES ASSUME q <= -1 PROVE FALSE
      BY <1>2
    <3>2. p <= (-1) * Wrap
      BY <3>1, <1>0, <1>1, <1>2
    <3> QED BY <3>2, <1>0, <1>1, <1>2, <1>5
  <2>2. p >= 0
    BY <2>1, <1>0, <1>1, <1>2
  <2> QED BY <2>2, <1>0, <1>1, <1>2
<1>6. CASE d < 0
  <2>1. p >= (-1) * Wrap
    <3>1. SUFFICES ASSUME q <= -2 PROVE FALSE
      BY <1>0, <1>1, <1>2
    <3>2. p <= (-2) * Wrap
      BY <3>1, <1>0, <1>1, <1>2
    <3> QED BY <3>2, <1>0, <1>1, <1>2, <1>3
  <2>2. q <= -1
    <3>1. SUFFICES ASSUME q >= 0 PROVE FALSE
      BY <1>2
    <3>2. p >= 0
      BY <3>1, <1>0, <1>1, <1>2
    <3> QED BY <3>2, <1>0, <1>2, <1>6
  <2>3. p <= (-1) * Wrap
    BY <2>2, <1>0, <1>1, <1>2
  <2>4. from + r = to + Wrap
    BY <2>1, <2>3, <1>0, <1>1, <1>2
  <2> QED BY <2>4, <1>1, <1>2, <1>3
<1> QED BY <1>1, <1>5, <1>6

-----------------------------------------------------------------------------
(* Buffers. *)

LEMMA ReallocatedFacts ==
  ASSUME NEW b \in Seq(Bytes), NEW n \in Nat
  PROVE  /\ Reallocated(b, n) \in Seq(Bytes)
         /\ Len(Reallocated(b, n)) = n
         /\ \A i \in 1 .. n : i <= Len(b) => Reallocated(b, n)[i] = b[i]
<1>1. \A i \in 1 .. n : (IF i <= Len(b) THEN b[i] ELSE Junk) \in Bytes
  BY ElementOfSeq, LenProperties DEF Bytes
<1> QED BY <1>1 DEF Reallocated

LEMMA FilledFacts ==
  ASSUME NEW b \in Seq(Bytes), NEW from \in Nat, NEW to \in Nat, NEW v \in Bytes
  PROVE  /\ Filled(b, from, to, v) \in Seq(Bytes)
         /\ Len(Filled(b, from, to, v)) = Len(b)
<1>1. DOMAIN b = 1 .. Len(b) /\ Len(b) \in Nat
  BY LenProperties
<1>2. \A i \in 1 .. Len(b) : (IF i \in from + 1 .. to THEN v ELSE b[i]) \in Bytes
  BY <1>1, ElementOfSeq
<1> QED BY <1>1, <1>2 DEF Filled

\* Byte i of a sequence after a run of it was filled.
FillsAt(b, from, to, v, i) ==
  Filled(b, from, to, v)[i] = IF from < i /\ i <= to THEN v ELSE b[i]

LEMMA FilledAt ==
  ASSUME NEW b \in Seq(Bytes), NEW from \in Nat, NEW to \in Nat, NEW v \in Bytes,
         NEW i \in 1 .. Len(b)
  PROVE  FillsAt(b, from, to, v, i)
<1>1. DOMAIN b = 1 .. Len(b) /\ Len(b) \in Nat
  BY LenProperties
<1> QED BY <1>1 DEF Filled, FillsAt

LEMMA AllocatedFacts ==
  ASSUME NEW f \in Files, NEW n \in Nat, NEW g \in Allocated(f, n), MaxFileSize \in Nat
  PROVE  /\ g \in Files
         /\ g.alloc = n
         /\ Fits(f) => /\ Fits(g)
                       /\ g.size = Smaller(f.size, n)
                       /\ \A i \in 1 .. g.size : g.data[i] = f.data[i]
<1> USE DEF Files
<1>1. CASE f.alloc = n
  BY <1>1 DEF Allocated, Fits, Smaller
<1>2. CASE f.alloc # n
  <2>1. /\ g = [size |-> Smaller(f.size, n), alloc |-> n, data |-> Reallocated(f.data, n)]
        /\ n <= MaxFileSize
    BY <1>2 DEF Allocated, SizeInAllocation
  <2>2. /\ Reallocated(f.data, n) \in Seq(Bytes)
        /\ Len(Reallocated(f.data, n)) = n
        /\ \A i \in 1 .. n : i <= Len(f.data) => Reallocated(f.data, n)[i] = f.data[i]
    BY ReallocatedFacts
  <2> QED BY <2>1, <2>2 DEF Fits, Smaller
<1> QED BY <1>1, <1>2

LEMMA SizedFacts ==
  ASSUME NEW f \in Files, NEW n \in Nat, NEW g \in Sized(f, n), MaxFileSize \in Nat
  PROVE  /\ g \in Files
         /\ g.size = n
         /\ Fits(f) => /\ Fits(g)
                       /\ \A i \in 1 .. n :
                            g.data[i] = IF i <= f.size THEN f.data[i] ELSE Zero
<1>1. CASE f.size = n
  BY <1>1 DEF Sized, Files
<1>2. CASE f.size # n
  <2>1. PICK h \in (IF f.alloc < n THEN Allocated(f, RoundUp(n)) ELSE {f}) :
           g = [h EXCEPT !.size = n, !.data = Zeroed(h, n)]
    BY <1>2 DEF Sized
  <2>2. /\ h \in Files
        /\ Fits(f) => /\ Fits(h) /\ n <= h.alloc /\ h.size = f.size
                      /\ \A i \in 1 .. f.size : h.data[i] = f.data[i]
    <3>1. CASE f.alloc < n
      BY <3>1, <2>1, RoundUpFacts, AllocatedFacts DEF Fits, Smaller, Files
    <3>2. CASE ~(f.alloc < n)
      BY <3>2, <2>1 DEF Fits, Files
    <3> QED BY <3>1, <3>2
  <2>3. h.data \in Seq(Bytes) /\ h.size \in Nat /\ Zero \in Bytes
    BY <2>2 DEF Files, Bytes
  <2>4. /\ Zeroed(h, n) \in Seq(Bytes)
        /\ Len(Zeroed(h, n)) = Len(h.data)
        /\ \A i \in 1 .. Len(h.data) :
             Zeroed(h, n)[i] = IF h.size < i /\ i <= n THEN Zero ELSE h.data[i]
    <3>1. /\ Zeroed(h, n) \in Seq(Bytes)
          /\ Len(Zeroed(h, n)) = Len(h.data)
      BY <2>3, FilledFacts DEF Zeroed
    <3>2. ASSUME NEW i \in 1 .. Len(h.data)
          PROVE  Zeroed(h, n)[i] = IF h.size < i /\ i <= n THEN Zero ELSE h.data[i]
      BY <2>3, FilledAt DEF Zeroed, FillsAt
    <3> QED BY <3>1, <3>2
  <2>5. /\ g.size = n /\ g.alloc = h.alloc /\ g.data = Zeroed(h, n)
        /\ g \in Files
    BY <2>1, <2>2, <2>4 DEF Files
  <2> QED BY <2>2, <2>4, <2>5 DEF Fits, Files
<1> QED BY <1>1, <1>2

-----------------------------------------------------------------------------
(* The invariant. *)

LEMMA LimitsAreNat == \A n \in Limits : n \in Nat
  BY MemFsFileAssumption

LEMMA BytesAreBytes == Zero \in Bytes /\ Junk \in Bytes /\ Values \subseteq Bytes
  BY DEF Bytes

LEMMA InvInit == Init => IInv
<1> SUFFICES ASSUME Init PROVE IInv
  OBVIOUS
<1> USE DEF Init
<1>1. MaxFileSize \in Limits /\ MaxFileSize \in Nat /\ Capacity \in Nat
  BY MemFsFileAssumption
<1>2. << >> \in Seq(Bytes) /\ Len(<< >>) = 0
  BY EmptySeq
<1>3. file \in Files /\ (~born => Fits(file)) /\ (born => special)
  <2>1. CASE born
    <3>1. /\ file = [size |-> Capacity, alloc |-> Capacity, data |-> << >>]
          /\ special
      BY <2>1
    <3> DEFINE e == << >>
    <3>2. e \in Seq(Bytes)
      BY <1>2
    <3> HIDE DEF e
    <3>3. [size |-> Capacity, alloc |-> Capacity, data |-> e] \in Files
      BY <3>2, <1>1 DEF Files
    <3> QED BY <3>1, <3>3, <2>1 DEF e
  <2>2. CASE ~born
    <3>1. PICK n \in 0 .. MaxFileSize :
             file = [size |-> 0, alloc |-> n, data |-> Reallocated(<< >>, n)]
      BY <2>2
    <3> DEFINE e == << >>
    <3>0. e \in Seq(Bytes) /\ n \in Nat
      BY <1>1, <1>2
    <3> HIDE DEF e
    <3>2. /\ Reallocated(e, n) \in Seq(Bytes)
          /\ Len(Reallocated(e, n)) = n
      BY <3>0, ReallocatedFacts
    <3> QED BY <3>1, <3>2, <1>1, <2>2 DEF Files, Fits, e
  <2> QED BY <2>1, <2>2
<1>4. flash \in [1 .. Capacity -> Bytes]
  BY BytesAreBytes
<1> QED BY <1>1, <1>3, <1>4
        DEF Files, IInv, BufferHoldsFile, TypeOK, OnlyTheDiskCrashes

\* What the steps start from.
LEMMA InvFacts ==
  ASSUME IInv
  PROVE  /\ file \in Files /\ MaxFileSize \in Nat /\ Capacity \in Nat
         /\ file.size \in Nat /\ file.alloc \in Nat
         /\ file.data \in Seq(Bytes) /\ Len(file.data) \in Nat
         /\ flash \in [1 .. Capacity -> Bytes]
         /\ ~born => Fits(file)
  BY LimitsAreNat, MemFsFileAssumption
     DEF IInv, BufferHoldsFile, TypeOK, Files

\* A step that leaves the disk alone and keeps the file in order.
LEMMA FileStep ==
  ASSUME IInv, UNCHANGED <<fixed, flash>>, file' \in Files,
         special' \in BOOLEAN, special => special',
         crashed' \in BOOLEAN, crashed' => born,
         reply' \in Seq(Bytes) \cup {NoReply},
         ~born => Fits(file)'
  PROVE  IInv'
  BY DEF IInv, BufferHoldsFile, TypeOK, OnlyTheDiskCrashes, fixed, Files

LEMMA SizesAreNat ==
  ASSUME MaxFileSize \in Nat, NEW n \in Sizes
  PROVE  n \in Nat
  BY MemFsFileAssumption DEF Sizes

LEMMA InvSetFileSize ==
  ASSUME IInv, NEW n \in Nat, SetFileSize(n)
  PROVE  IInv'
<1>1. /\ file' \in Files /\ Zero \in Bytes
      /\ ~born => Fits(file') /\ n <= Len(file'.data)
  BY InvFacts, SizedFacts, BytesAreBytes DEF SetFileSize, Fits
<1>2. n > Len(file'.data) => born
  <2>1. Len(file'.data) \in Nat
    BY <1>1, LenProperties DEF Files
  <2> QED BY <1>1, <2>1
<1>3. MaxFileSize' = MaxFileSize /\ born' = born
  BY DEF SetFileSize, fixed
<1> QED BY <1>1, <1>2, <1>3, FileStep DEF SetFileSize, fixed, Fits, IInv, BufferHoldsFile, TypeOK

LEMMA InvAllocate ==
  ASSUME IInv, NEW n \in Nat, SetAllocationSize(n) \/ Overwrite(n)
  PROVE  IInv'
<1>1. PICK f \in Allocated(file, n) : file' = f \/ file' = [f EXCEPT !.size = 0]
  BY DEF SetAllocationSize, Overwrite
<1>2. f \in Files /\ (~born => Fits(f))
  BY InvFacts, AllocatedFacts
<1>3. file' \in Files /\ (~born => Fits(file'))
  BY <1>1, <1>2 DEF Files, Fits
<1> QED BY <1>3, FileStep
        DEF SetAllocationSize, Overwrite, fixed, Fits, IInv, BufferHoldsFile, TypeOK,
            OnlyTheDiskCrashes

LEMMA InvTrim ==
  ASSUME IInv, Trim
  PROVE  IInv'
<1>1. RoundUp(file.size) \in Nat
  BY InvFacts, RoundUpFacts
<1>2. SetAllocationSize(RoundUp(file.size))
  BY DEF Trim, SetAllocationSize
<1> QED BY <1>1, <1>2, InvAllocate

LEMMA InvBecomeDisk ==
  ASSUME IInv, BecomeDisk
  PROVE  IInv'
  BY InvFacts, FileStep
     DEF BecomeDisk, fixed, Fits, IInv, BufferHoldsFile, TypeOK, OnlyTheDiskCrashes

\* The range of a write.
LEMMA RangeFacts ==
  ASSUME IInv, NEW offset \in Nat, NEW length \in Nat \ {0},
         NEW toEnd \in BOOLEAN, NEW constrained \in BOOLEAN
  PROVE  /\ From(offset, toEnd, constrained) \in Nat
         /\ To(From(offset, toEnd, constrained), length, constrained) \in Nat
         /\ special => To(From(offset, toEnd, constrained), length, constrained) <= file.size
         /\ constrained => To(From(offset, toEnd, constrained), length, constrained) <= file.size
  BY InvFacts DEF From, To, Smaller

LEMMA InvWriteToBuffer ==
  ASSUME IInv, ~special, NEW from \in Nat, NEW to \in Nat, NEW v \in Values,
         WriteToBuffer(from, to, v), reply' = NoReply, UNCHANGED <<fixed, special>>
  PROVE  IInv'
<1>1. ~born /\ Fits(file)
  BY InvFacts DEF IInv
<1>2. PICK f \in IF to > file.size THEN Sized(file, to) ELSE {file} :
         /\ file' = [f EXCEPT !.data = Filled(f.data, from, to, v)]
         /\ crashed' = (to > Len(f.data))
  BY DEF WriteToBuffer
<1>3. f \in Files /\ Fits(f) /\ to <= f.size
  BY <1>1, InvFacts, SizedFacts
<1>4. f.data \in Seq(Bytes) /\ f.size \in Nat /\ f.alloc \in Nat /\ v \in Bytes
  BY <1>3, BytesAreBytes DEF Files
<1>5. /\ Filled(f.data, from, to, v) \in Seq(Bytes)
      /\ Len(Filled(f.data, from, to, v)) = Len(f.data)
  BY <1>4, FilledFacts
<1>6. file' \in Files /\ Fits(file')
  BY <1>2, <1>3, <1>5 DEF Files, Fits
<1>7. ~(to > Len(f.data))
  BY <1>3, <1>4 DEF Fits
<1>8. crashed' = FALSE
  <2>1. (to > Len(f.data)) = FALSE
    BY <1>7
  <2> QED BY <1>2, <2>1, Zenon
<1>9. Fits(file)' /\ flash' = flash /\ special' \in BOOLEAN
  BY <1>6 DEF Fits, fixed, WriteToBuffer, IInv, BufferHoldsFile, TypeOK
<1> QED BY <1>6, <1>8, <1>9, FileStep

LEMMA InvWriteToFlash ==
  ASSUME IInv, NEW from \in Nat, NEW to \in Nat, NEW v \in Values,
         WriteToFlash(from, to, v), reply' = NoReply, UNCHANGED <<fixed, special>>
  PROVE  IInv'
<1>1. PICK m : flash' = Filled(flash, from, m, v)
  BY DEF WriteToFlash
<1>2. flash' \in [1 .. Capacity -> Bytes]
  BY <1>1, InvFacts, BytesAreBytes DEF Filled
<1> QED BY <1>2
        DEF WriteToFlash, fixed, Fits, IInv, BufferHoldsFile, TypeOK, OnlyTheDiskCrashes

LEMMA InvWrite ==
  ASSUME IInv, NEW offset \in Nat, NEW length \in Nat \ {0}, NEW v \in Values,
         NEW toEnd \in BOOLEAN, NEW constrained \in BOOLEAN,
         Write(offset, length, v, toEnd, constrained)
  PROVE  IInv'
  BY RangeFacts, InvWriteToBuffer, InvWriteToFlash DEF Write

LEMMA InvRead ==
  ASSUME IInv, NEW offset \in Nat, NEW length \in Nat \ {0}, Read(offset, length)
  PROVE  IInv'
<1> DEFINE to == Smaller(offset + length, file.size)
           memory == IF special THEN flash ELSE file.data
<1>1. /\ to \in Nat /\ to <= file.size
      /\ special => to <= Capacity
  BY InvFacts DEF Read, Smaller, ControllerTakes
<1>2. memory \in Seq(Bytes) /\ Len(memory) \in Nat
  BY InvFacts
<1>3. crashed' \in BOOLEAN /\ (crashed' => born)
  <2>1. CASE ~born
    <3>1. ~(to > Len(memory))
      BY <2>1, <1>1, InvFacts DEF Fits
    <3>2. (to > Len(memory)) = FALSE
      BY <3>1
    <3>3. crashed' = (to > Len(memory))
      BY DEF Read
    <3> QED BY <3>2, <3>3, Zenon
  <2> QED BY <2>1 DEF Read
<1>4. reply' \in Seq(Bytes)
  BY <1>1, <1>2 DEF Read, Smaller
<1> QED BY <1>3, <1>4, InvFacts, FileStep
        DEF Read, fixed, Fits, IInv, BufferHoldsFile, TypeOK

LEMMA InvStep ==
  ASSUME IInv, [Next]_vars
  PROVE  IInv'
<1>1. CASE UNCHANGED vars
  BY <1>1 DEF vars, fixed, Fits, IInv, BufferHoldsFile, TypeOK, OnlyTheDiskCrashes
<1>2. ASSUME NEW n \in Sizes, SetFileSize(n)
      PROVE  IInv'
  BY <1>2, SizesAreNat, InvFacts, InvSetFileSize
<1>3. ASSUME NEW n \in Sizes, SetAllocationSize(n) \/ Overwrite(n)
      PROVE  IInv'
  BY <1>3, SizesAreNat, InvFacts, InvAllocate
<1>4. ASSUME NEW offset \in Offsets, NEW length \in Lengths, Read(offset, length)
      PROVE  IInv'
  BY <1>4, InvRead, MemFsFileAssumption
<1>5. ASSUME NEW offset \in Offsets, NEW length \in Lengths, NEW v \in Values,
             NEW toEnd \in BOOLEAN, NEW constrained \in BOOLEAN,
             Write(offset, length, v, toEnd, constrained)
      PROVE  IInv'
  BY <1>5, InvWrite, MemFsFileAssumption
<1> QED BY <1>1, <1>2, <1>3, <1>4, <1>5, InvTrim, InvBecomeDisk DEF Next

\* The node made as the disk file stays it, and every other file has its buffer.
THEOREM Invariance == Spec => []IInv
<1>1. IInv /\ [Next]_vars => IInv'
  BY InvStep
<1> QED BY <1>1, InvInit, PTL DEF Spec

\* Sizes, contents and replies have their types for every unit and limit.
THEOREM TypeCorrect == Spec => []TypeOK
<1>1. IInv => TypeOK
  BY DEF IInv, BufferHoldsFile
<1> QED BY <1>1, Invariance, PTL

\* SetFileSizeInternal keeps the buffer of a file large enough for it.
THEOREM BufferIsLargeEnough == Spec => []BufferHoldsFile
<1>1. IInv => BufferHoldsFile
  BY DEF IInv
<1> QED BY <1>1, Invariance, PTL

\* Only the node without a buffer is accessed outside of its buffer.
THEOREM OthersNeverCrash == Spec => []OnlyTheDiskCrashes
<1>1. IInv => OnlyTheDiskCrashes
  BY DEF IInv
<1> QED BY <1>1, Invariance, PTL

-----------------------------------------------------------------------------
(* What a step may not do. *)

LEMMA TrimStep ==
  ASSUME IInv, Trim
  PROVE  file'.size = file.size
<1>1. RoundUp(file.size) \in Nat /\ file.size <= RoundUp(file.size)
  BY InvFacts, RoundUpFacts
<1>2. CASE file.alloc = RoundUp(file.size)
  BY <1>2 DEF Trim, Allocated
<1>3. CASE file.alloc # RoundUp(file.size)
  <2>1. file'.size = Smaller(file.size, RoundUp(file.size))
    BY <1>3 DEF Trim, Allocated, SizeInAllocation
  <2> QED BY <2>1, <1>1, InvFacts DEF Smaller
<1> QED BY <1>2, <1>3

\* Rounding the allocation up at a cleanup keeps the size, for every unit.
THEOREM TrimsKeepTheSize == Spec => TrimKeepsContent
<1>1. IInv /\ [Next]_vars => [Trim => file'.size = file.size]_vars
  BY TrimStep
<1> QED BY <1>1, Invariance, PTL DEF Spec, TrimKeepsContent

LEMMA FlashStep ==
  ASSUME IInv, NEW offset \in Nat, NEW length \in Nat \ {0}, NEW v \in Values,
         NEW toEnd \in BOOLEAN, NEW constrained \in BOOLEAN,
         Write(offset, length, v, toEnd, constrained),
         NEW i \in 1 .. Capacity, flash'[i] # flash[i]
  PROVE  special /\ i <= file.size
<1> DEFINE from == From(offset, toEnd, constrained)
           to == To(from, length, constrained)
<1>1. special
  BY DEF Write, WriteToBuffer
<1>2. from \in Nat /\ to \in Nat /\ to <= file.size
  BY <1>1, RangeFacts
<1>3. WriteToFlash(from, to, v)
  BY <1>1 DEF Write
<1> HIDE DEF from, to
<1>4. PICK done \in 0 .. (to - from) % Wrap :
         /\ ControllerTakes(from, (to - from) % Wrap)
         /\ flash' = Filled(flash, from, from + done, v)
  BY <1>3 DEF WriteToFlash
<1>5. (to - from) % Wrap \in Nat /\ from + ((to - from) % Wrap) <= to
  BY <1>2, <1>4, LengthFacts
<1>6. i \in from + 1 .. from + done
  BY <1>4, InvFacts DEF Filled
<1> QED BY <1>1, <1>2, <1>4, <1>5, <1>6, InvFacts

\* A write to the disk file, also one whose length wraps around, changes no
\* byte of the flash beyond the file.
THEOREM FlashWritesStayInside == Spec => WritesStayInside
<1>1. ASSUME IInv, [Next]_vars, NEW i \in 1 .. Capacity, flash'[i] # flash[i]
      PROVE  special /\ i <= file.size
  <2>1. flash' # flash
    BY <1>1
  <2>2. PICK offset \in Offsets, length \in Lengths, v \in Values,
             toEnd \in BOOLEAN, constrained \in BOOLEAN :
           Write(offset, length, v, toEnd, constrained)
    BY <1>1, <2>1
       DEF Next, vars, SetFileSize, SetAllocationSize, Overwrite, Trim, Read, BecomeDisk
  <2> QED BY <1>1, <2>2, FlashStep, MemFsFileAssumption
<1>2. IInv /\ [Next]_vars =>
        [\A i \in 1 .. Capacity : flash'[i] # flash[i] => special /\ i <= file.size]_vars
  BY <1>1
<1> QED BY <1>2, Invariance, PTL DEF Spec, WritesStayInside

-----------------------------------------------------------------------------
(* Refinement. *)

LEMMA LargestFacts == Largest \in Nat /\ \A n \in Limits : n <= Largest
<1>1. PICK n \in Limits : \A m \in Limits : m <= n
  BY MemFsFileAssumption
<1>2. Largest \in Limits /\ \A m \in Limits : m <= Largest
  BY <1>1 DEF Largest
<1> QED BY <1>2, LimitsAreNat

\* A file that is not the disk has its content in its buffer.
LEMMA ContentFacts ==
  ASSUME IInv, ~special
  PROVE  /\ Fits(file) /\ file.size \in 0 .. Largest
         /\ Content \in Seq(Bytes) /\ Len(Content) = file.size
<1>1. ~born /\ Fits(file) /\ MaxFileSize \in Limits
  BY InvFacts DEF IInv, BufferHoldsFile, TypeOK
<1>2. file.size \in 0 .. Largest
  BY <1>1, InvFacts, LargestFacts DEF Fits
<1>3. \A i \in 1 .. file.size : file.data[i] \in Bytes
  BY <1>1, InvFacts, ElementOfSeq DEF Fits
<1> QED BY <1>1, <1>2, <1>3 DEF Content

LEMMA ResizeStep ==
  ASSUME IInv, ~special, NEW n \in Nat, reply' = NoReply, special' = FALSE,
         file'.size = n,
         \A i \in 1 .. n : file'.data[i] = IF i <= file.size THEN file.data[i] ELSE Zero
  PROVE  Flat!Resize(n)
<1>1. Content' = [i \in 1 .. n |-> IF i <= Len(Content) THEN Content[i] ELSE Zero]
  BY ContentFacts DEF Content
<1> QED BY <1>1 DEF Flat!Resize

\* The size of a file stays within the limits of the flat file.
LEMMA SizeInLimits ==
  ASSUME IInv', special' = FALSE
  PROVE  file'.size \in 0 .. Largest
<1>1. ~born' /\ Fits(file)' /\ MaxFileSize' \in Limits /\ file' \in Files
  BY DEF IInv, BufferHoldsFile, TypeOK, Files
<1>2. MaxFileSize' \in Nat /\ MaxFileSize' <= Largest
  BY <1>1, LimitsAreNat, LargestFacts
<1> QED BY <1>1, <1>2, LargestFacts DEF Fits, Files

LEMMA FlatResizes ==
  ASSUME IInv, IInv', ~special,
         \/ \E n \in Sizes : SetFileSize(n) \/ SetAllocationSize(n) \/ Overwrite(n)
         \/ Trim
  PROVE  Flat!Next
<1>1. /\ Fits(file) /\ reply' = NoReply /\ special' = FALSE
      /\ file \in Files /\ MaxFileSize \in Nat /\ file.size \in Nat
  BY ContentFacts, InvFacts
     DEF SetFileSize, SetAllocationSize, Overwrite, Trim, IInv, BufferHoldsFile, TypeOK
<1> DEFINE Kept == \A i \in 1 .. file'.size :
             file'.data[i] = IF i <= file.size THEN file.data[i] ELSE Zero
<1>2. Kept
  <2>1. ASSUME NEW n \in Sizes, SetFileSize(n)
        PROVE  Kept
    BY <2>1, <1>1, SizesAreNat, SizedFacts DEF SetFileSize
  <2>2. ASSUME NEW n \in Nat, NEW f \in Allocated(file, n),
               file' = f \/ file' = [f EXCEPT !.size = 0]
        PROVE  Kept
    <3>1. /\ f \in Files /\ f.size = Smaller(file.size, n)
          /\ \A i \in 1 .. f.size : f.data[i] = file.data[i]
      BY <1>1, AllocatedFacts
    <3>2. CASE file' = f
      BY <3>1, <3>2, <1>1 DEF Smaller
    <3>3. CASE file' = [f EXCEPT !.size = 0]
      BY <3>1, <3>3 DEF Files
    <3> QED BY <2>2, <3>2, <3>3
  <2> QED BY <2>1, <2>2, <1>1, SizesAreNat, RoundUpFacts
          DEF SetAllocationSize, Overwrite, Trim
<1>3. file'.size \in 0 .. Largest
  BY <1>1, SizeInLimits
<1>4. PICK n \in 0 .. Largest : n = file'.size
  BY <1>3
<1>5. n \in Nat /\ \A i \in 1 .. n :
        file'.data[i] = IF i <= file.size THEN file.data[i] ELSE Zero
  BY <1>2, <1>4, LargestFacts
<1>6. Flat!Resize(n)
  BY <1>1, <1>4, <1>5, ResizeStep
<1> QED BY <1>6 DEF Flat!Next

LEMMA WriteStep ==
  ASSUME IInv, ~special, NEW from \in Nat, NEW to \in Nat, NEW v \in Values,
         reply' = NoReply, special' = FALSE,
         file'.size = IF to > file.size THEN to ELSE file.size,
         \A i \in 1 .. file'.size :
           file'.data[i] = IF from < i /\ i <= to THEN v
                           ELSE IF i <= file.size THEN file.data[i] ELSE Zero
  PROVE  Flat!Write(from, to, v)
<1> DEFINE top == IF to > file.size THEN to ELSE file.size
<1>1. Len(Content) = file.size /\ file.size \in Nat
      /\ \A i \in 1 .. file.size : Content[i] = file.data[i]
  BY ContentFacts, InvFacts DEF Content
<1>2. Content' = [i \in 1 .. top |-> file'.data[i]]
  BY DEF Content
<1>3. \A i \in 1 .. top :
        file'.data[i] = CASE i \in from + 1 .. to -> v
                          [] i <= from /\ i > file.size -> Zero
                          [] OTHER -> Content[i]
  BY <1>1
<1>4. Content' = [i \in 1 .. top |-> CASE i \in from + 1 .. to -> v
                                       [] i <= from /\ i > Len(Content) -> Zero
                                       [] OTHER -> Content[i]]
  BY <1>1, <1>2, <1>3
<1> QED BY <1>1, <1>4 DEF Flat!Write

LEMMA FlatWrites ==
  ASSUME IInv, IInv', ~special,
         NEW offset \in Nat, NEW length \in Nat \ {0}, NEW v \in Values,
         NEW toEnd \in BOOLEAN, NEW constrained \in BOOLEAN,
         Write(offset, length, v, toEnd, constrained)
  PROVE  Flat!Next
<1> DEFINE from == From(offset, toEnd, constrained)
           to == To(from, length, constrained)
<1>1. /\ Fits(file) /\ file \in Files /\ MaxFileSize \in Nat /\ file.size \in Nat
      /\ file.size \in 0 .. Largest
      /\ reply' = NoReply /\ special' = FALSE
  BY ContentFacts, InvFacts DEF Write, IInv, BufferHoldsFile, TypeOK
<1>2. from \in Nat /\ to \in Nat /\ from <= to
  BY <1>1, RangeFacts DEF Write, From, To, Smaller
<1>3. WriteToBuffer(from, to, v)
  BY DEF Write
<1> HIDE DEF from, to
<1>4. PICK f \in IF to > file.size THEN Sized(file, to) ELSE {file} :
         file' = [f EXCEPT !.data = Filled(f.data, from, to, v)]
  BY <1>3 DEF WriteToBuffer
<1>5. /\ f \in Files /\ Fits(f)
      /\ f.size = IF to > file.size THEN to ELSE file.size
      /\ \A i \in 1 .. f.size : f.data[i] = IF i <= file.size THEN file.data[i] ELSE Zero
  <2>1. CASE to > file.size
    BY <2>1, <1>1, <1>2, <1>4, SizedFacts
  <2>2. CASE ~(to > file.size)
    BY <2>2, <1>1, <1>4
  <2> QED BY <2>1, <2>2
<1>6. /\ f.data \in Seq(Bytes) /\ v \in Bytes /\ f.size \in Nat /\ f.alloc \in Nat
      /\ f.size <= Len(f.data)
  BY <1>5, BytesAreBytes DEF Files, Fits
<1>7. ASSUME NEW i \in 1 .. Len(f.data)
      PROVE  Filled(f.data, from, to, v)[i] = IF from < i /\ i <= to THEN v ELSE f.data[i]
  <2> DEFINE b == f.data
  <2>1. /\ b \in Seq(Bytes) /\ i \in 1 .. Len(b)
        /\ from \in Nat /\ to \in Nat /\ v \in Bytes
    BY <1>2, <1>6
  <2> HIDE DEF b
  <2>2. FillsAt(b, from, to, v, i)
    BY <2>1, FilledAt
  <2> QED BY <2>2 DEF b, FillsAt
<1>8. file'.size = f.size /\ file'.data = Filled(f.data, from, to, v)
  BY <1>4, <1>5 DEF Files
<1>9. \A i \in 1 .. file'.size :
        file'.data[i] = IF from < i /\ i <= to THEN v
                        ELSE IF i <= file.size THEN file.data[i] ELSE Zero
  <2>1. Len(f.data) \in Nat
    BY <1>6, LenProperties
  <2> QED BY <2>1, <1>5, <1>6, <1>7, <1>8
<1>10. Flat!Write(from, to, v)
  BY <1>1, <1>2, <1>5, <1>8, <1>9, WriteStep
<1>11. from \in 0 .. Largest /\ to \in 0 .. Largest
  <2>1. file'.size \in 0 .. Largest
    BY <1>1, SizeInLimits
  <2> QED BY <2>1, <1>1, <1>2, <1>5, <1>8, LargestFacts
<1> QED BY <1>10, <1>11 DEF Flat!Next

LEMMA FlatReads ==
  ASSUME IInv, ~special, NEW offset \in Nat, NEW length \in Nat \ {0},
         Read(offset, length)
  PROVE  Flat!Next
<1> DEFINE to == Smaller(offset + length, file.size)
<1>1. /\ Fits(file) /\ file.size \in 0 .. Largest /\ file.size \in Nat
      /\ Len(Content) = file.size /\ file.data \in Seq(Bytes) /\ file.alloc \in Nat
      /\ \A i \in 1 .. file.size : Content[i] = file.data[i]
  BY ContentFacts, InvFacts DEF Content
<1>2. /\ offset < file.size /\ to \in Nat /\ offset < to /\ to <= file.size
      /\ to <= Len(file.data)
  BY <1>1 DEF Read, Smaller, Fits
<1>3. reply' = SubSeq(file.data, offset + 1, to)
  <2>1. Len(file.data) \in Nat
    BY <1>1, LenProperties
  <2>2. reply' = SubSeq(file.data, offset + 1, Smaller(to, Len(file.data)))
    BY DEF Read
  <2> HIDE DEF to
  <2>3. Smaller(to, Len(file.data)) = to
    BY <2>1, <1>2 DEF Smaller
  <2> QED BY <2>2, <2>3
<1>4. special' = special /\ Content' = Content
  BY DEF Read, Content
<1> HIDE DEF to
<1>5. SubSeq(file.data, offset + 1, to) = SubSeq(Content, offset + 1, to)
  <2>1. SubSeq(file.data, offset + 1, to) = [i \in 1 .. to - offset |-> file.data[i + offset]]
    BY <1>1, <1>2
  <2>2. SubSeq(Content, offset + 1, to) = [i \in 1 .. to - offset |-> Content[i + offset]]
    BY <1>1, <1>2, ContentFacts
  <2>3. \A i \in 1 .. to - offset : file.data[i + offset] = Content[i + offset]
    BY <1>1, <1>2
  <2> QED BY <2>1, <2>2, <2>3
<1>6. Flat!Read(offset, to)
  BY <1>1, <1>2, <1>3, <1>4, <1>5 DEF Flat!Read
<1>7. offset \in 0 .. Largest /\ to \in 0 .. Largest
  BY <1>1, <1>2, LargestFacts
<1> QED BY <1>6, <1>7 DEF Flat!Next

LEMMA FlatInit == ASSUME IInv, Init PROVE Flat!Init
<1>1. reply = NoReply
  BY DEF Init
<1>2. CASE special
  BY <1>1, <1>2 DEF Flat!Init
<1>3. CASE ~special
  <2>1. file.size = 0
    BY <1>3 DEF Init
  <2>2. Content = << >>
    BY <2>1 DEF Content
  <2> QED BY <1>1, <1>3, <2>2 DEF Flat!Init
<1> QED BY <1>2, <1>3

LEMMA FlatStep ==
  ASSUME IInv, IInv', [Next]_vars
  PROVE  [Flat!Next]_(Flat!ffvars)
<1>1. CASE UNCHANGED vars
  BY <1>1 DEF vars, Content, Flat!ffvars
<1>2. CASE special
  <2>1. special'
    BY <1>2
       DEF Next, vars, SetFileSize, SetAllocationSize, Overwrite, Trim, Read, Write, BecomeDisk
  <2> QED BY <1>2, <2>1 DEF Flat!ffvars
<1>3. CASE ~special /\ BecomeDisk
  <2>1. Flat!Resize(0)
    BY <1>3 DEF BecomeDisk, Flat!Resize
  <2> QED BY <2>1, LargestFacts DEF Flat!Next
<1>4. CASE ~special /\ ((\E n \in Sizes : SetFileSize(n) \/ SetAllocationSize(n) \/ Overwrite(n))
                        \/ Trim)
  BY <1>4, FlatResizes
<1>5. ASSUME ~special, NEW offset \in Offsets, NEW length \in Lengths, Read(offset, length)
      PROVE  Flat!Next
  BY <1>5, FlatReads, MemFsFileAssumption
<1>6. ASSUME ~special, NEW offset \in Offsets, NEW length \in Lengths, NEW v \in Values,
             NEW toEnd \in BOOLEAN, NEW constrained \in BOOLEAN,
             Write(offset, length, v, toEnd, constrained)
      PROVE  Flat!Next
  BY <1>6, FlatWrites, MemFsFileAssumption
<1> QED BY <1>1, <1>2, <1>3, <1>4, <1>5, <1>6 DEF Next

\* A file made by a host is a flat sequence of bytes, for every unit and limit:
\* what nobody wrote reads as zero, whatever the heap left in the buffer.
THEOREM Refinement == Spec => ImplementsFlatFile
<1>1. IInv /\ Init => Flat!Init
  BY FlatInit
<1>2. IInv /\ IInv' /\ [Next]_vars => [Flat!Next]_(Flat!ffvars)
  BY FlatStep
<1> QED BY <1>1, <1>2, Invariance, PTL DEF Spec, ImplementsFlatFile, Flat!Spec
=============================================================================
