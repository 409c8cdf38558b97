------------------------------ MODULE MemFsFile ------------------------------
(***************************************************************************)
(* The data of one file of the virtual disk of src/win_vdisk.cpp: its      *)
(* size, its allocation and its buffer on the heap, or, for the node named *)
(* \ftj_disk.bin, the flash behind FTJController.                          *)
(*                                                                         *)
(* WinFsp lets one call at a time change a file, so each call is a step.   *)
(* Calls that are refused change nothing and are no steps, and neither are *)
(* those that find no memory.  The Windows heap and the controller are     *)
(* external: a reallocation keeps what fits and its new bytes are          *)
(* arbitrary (Junk); the controller checks the range of a call, and may    *)
(* run out of space in the middle of a write.                              *)
(***************************************************************************)
EXTENDS Integers, Sequences

CONSTANTS
  Unit,          \* bytes of an allocation unit
  Limits,        \* maximal file sizes, as rounded up by MemfsCreateFunnel
  Capacity,      \* bytes of the controller's flash
  Wrap,          \* 2^32: lengths are ULONGs
  Offsets,       \* of reads and writes
  Lengths,
  Values, Zero, Junk,
  NoReply

ASSUME MemFsFileAssumption ==
  /\ Unit \in Nat \ {0} /\ \A n \in Limits : n \in Nat /\ n % Unit = 0
  /\ \E n \in Limits : \A m \in Limits : m <= n
  /\ Capacity \in Nat /\ Capacity % Unit = 0 /\ Wrap \in Nat /\ Capacity < Wrap
  /\ Offsets \subseteq Nat /\ Lengths \subseteq Nat \ {0}
  /\ Zero \notin Values /\ Junk \notin Values \cup {Zero}

VARIABLES
  MaxFileSize,   \* of the volume
  file,          \* FileSize, AllocationSize and FileData (a NULL is empty)
  special,       \* FileName is \ftj_disk.bin
  flash,         \* the controller's memory
  born,          \* history: the node is the one MemfsCreateFunnel made
  crashed,       \* history: memory outside of FileData was accessed
  reply          \* history: what the last call read, if it was a read

fixed == <<MaxFileSize, born>>
vars == <<fixed, file, special, flash, crashed, reply>>

Smaller(a, b) == IF a < b THEN a ELSE b

\* A mutant: what is over the last full unit is given back too.
RoundUpToZero(n) == (n \div Unit) * Unit

\* To whole allocation units.
RoundUp(n) == ((n + Unit - 1) \div Unit) * Unit

\* Bytes from + 1 .. to of a memory become v.
Filled(memory, from, to, v) ==
  [i \in DOMAIN memory |-> IF i \in from + 1 .. to THEN v ELSE memory[i]]

-----------------------------------------------------------------------------
(* SetFileSizeInternal: the set of outcomes, empty for a refusal. *)

\* LargeHeapRealloc.
Reallocated(buffer, n) ==
  [i \in 1 .. n |-> IF i <= Len(buffer) THEN buffer[i] ELSE Junk]

\* A mutant: the size is kept.
SizeKept(f, n) == f.size

\* With SetAllocationSize.
SizeInAllocation(f, n) == Smaller(f.size, n)

Allocated(f, n) ==
  IF f.alloc = n THEN {f}
  ELSE {[size |-> SizeInAllocation(f, n), alloc |-> n, data |-> Reallocated(f.data, n)] :
          fits \in {n} \cap 0 .. MaxFileSize}

\* A mutant: new bytes stay as they are.
ZeroedNever(f, n) == f.data

\* Without: new bytes are zeroed, in the buffer.
Zeroed(f, n) == Filled(f.data, f.size, n, Zero)

Sized(f, n) ==
  IF f.size = n THEN {f}
  ELSE {[g EXCEPT !.size = n, !.data = Zeroed(g, n)] :
          g \in IF f.alloc < n THEN Allocated(f, RoundUp(n)) ELSE {f}}

-----------------------------------------------------------------------------
(* The calls *)

Init ==
  /\ MaxFileSize \in Limits
  /\ flash = [i \in 1 .. Capacity |-> Zero]
  /\ crashed = FALSE
  /\ reply = NoReply
  /\ \/ /\ born = TRUE /\ special = TRUE
        /\ file = [size |-> Capacity, alloc |-> Capacity, data |-> << >>]
     \/ /\ born = FALSE /\ special \in BOOLEAN
        /\ \E n \in 0 .. MaxFileSize :
             file = [size |-> 0, alloc |-> n, data |-> Reallocated(<< >>, n)]

\* SetFileSize for the end of file.
SetFileSize(n) ==
  /\ file' \in Sized(file, n)
  /\ crashed' = (file.size < n /\ n > Len(file'.data))
  /\ reply' = NoReply
  /\ UNCHANGED <<fixed, special, flash>>

\* SetFileSize for the allocation.
SetAllocationSize(n) ==
  /\ file' \in Allocated(file, n)
  /\ reply' = NoReply
  /\ UNCHANGED <<fixed, special, flash, crashed>>

\* Overwrite, a Create that supersedes the file.
Overwrite(n) ==
  /\ \E f \in Allocated(file, n) : file' = [f EXCEPT !.size = 0]
  /\ reply' = NoReply
  /\ UNCHANGED <<fixed, special, flash, crashed>>

\* Cleanup with FspCleanupSetAllocationSize.
Trim ==
  /\ file' \in Allocated(file, RoundUp(file.size))
  /\ reply' = NoReply
  /\ UNCHANGED <<fixed, special, flash, crashed>>

\* The range of a write: WriteToEndOfFile counts without ConstrainedIo only,
\* and the special file is never extended.
From(offset, toEnd, constrained) ==
  IF toEnd /\ ~constrained THEN file.size ELSE offset

\* A mutant: the special file is treated like the others.
ToAnywhere(from, length, constrained) ==
  IF constrained THEN Smaller(from + length, file.size) ELSE from + length

To(from, length, constrained) ==
  IF constrained \/ special THEN Smaller(from + length, file.size) ELSE from + length

\* FTJController::Write and Read refuse a range outside of the flash.
ControllerTakes(from, length) == length <= Capacity /\ from <= Capacity - length

WriteToBuffer(from, to, v) ==
  /\ \E f \in IF to > file.size THEN Sized(file, to) ELSE {file} :
       /\ file' = [f EXCEPT !.data = Filled(f.data, from, to, v)]
       /\ crashed' = (to > Len(f.data))
  /\ UNCHANGED flash

\* The length passed on is a difference, cast to 32 bits.
WriteToFlash(from, to, v) ==
  LET length == (to - from) % Wrap IN
  /\ ControllerTakes(from, length)
  /\ \E done \in 0 .. length : flash' = Filled(flash, from, from + done, v)
  /\ UNCHANGED <<file, crashed>>

Write(offset, length, v, toEnd, constrained) ==
  LET from == From(offset, toEnd, constrained)
      to == To(from, length, constrained)
  IN
  /\ constrained => from < file.size
  /\ IF special THEN WriteToFlash(from, to, v) ELSE WriteToBuffer(from, to, v)
  /\ reply' = NoReply
  /\ UNCHANGED <<fixed, special>>

Read(offset, length) ==
  LET to == Smaller(offset + length, file.size)
      memory == IF special THEN flash ELSE file.data
  IN
  /\ offset < file.size
  /\ special => ControllerTakes(offset, to - offset)
  /\ crashed' = (to > Len(memory))
  /\ reply' = SubSeq(memory, offset + 1, Smaller(to, Len(memory)))
  /\ UNCHANGED <<fixed, file, special, flash>>

\* Rename of another file onto the name of the disk file.
BecomeDisk ==
  /\ ~special
  /\ special' = TRUE
  /\ reply' = NoReply
  /\ UNCHANGED <<fixed, file, flash, crashed>>

Sizes == 0 .. MaxFileSize + Unit

Next ==
  /\ ~crashed
  /\ \/ \E n \in Sizes : SetFileSize(n) \/ SetAllocationSize(n) \/ Overwrite(n)
     \/ Trim
     \/ \E offset \in Offsets, length \in Lengths :
          \/ Read(offset, length)
          \/ \E v \in Values, toEnd, constrained \in BOOLEAN :
               Write(offset, length, v, toEnd, constrained)
     \/ BecomeDisk

Spec == Init /\ [][Next]_vars

-----------------------------------------------------------------------------
(* Properties *)

Bytes == Values \cup {Zero, Junk}

\* Every variable has its type.
TypeOK ==
  /\ MaxFileSize \in Limits
  /\ file \in [size : Nat, alloc : Nat, data : Seq(Bytes)]
  /\ special \in BOOLEAN /\ born \in BOOLEAN /\ crashed \in BOOLEAN
  /\ flash \in [1 .. Capacity -> Bytes]
  /\ reply \in Seq(Bytes) \cup {NoReply}

\* The buffer has room for the file, and the file is no larger than one may be.
Fits(f) == Len(f.data) = f.alloc /\ f.size <= f.alloc /\ f.alloc <= MaxFileSize

\* The buffer of every file a host made has room for the file, whatever
\* sizes and allocations were set.
BufferHoldsFile == TypeOK /\ (~born => Fits(file))

\* No call leaves the buffer, except on the disk file itself: it has an
\* allocation and no buffer, so growing it after it was shrunk clears memory
\* that is not there.
OnlyTheDiskCrashes == crashed => born

\* The inductive invariant: the node made as the disk file also stays it.
IInv == BufferHoldsFile /\ OnlyTheDiskCrashes /\ (born => special)

Largest == CHOOSE n \in Limits : \A m \in Limits : m <= n
Content == [i \in 1 .. file.size |-> file.data[i]]

\* A file is a sequence of bytes: what is read is what was written last, or
\* zero, never what the heap or an earlier, longer version of the file left
\* there.  A file that is renamed onto the disk loses its content.
Flat == INSTANCE FlatFile
          WITH MaxSize <- Largest,
               bytes <- IF special THEN << >> ELSE Content,
               reply <- IF special THEN NoReply ELSE reply
ImplementsFlatFile == Flat!Spec

\* Giving back unused allocation at a cleanup cuts nothing off.
TrimKeepsContent == [][Trim => file'.size = file.size]_vars

\* Writes to the disk file stay inside the file, also when the length
\* computed for one past its end has wrapped around.
WritesStayInside ==
  [][\A i \in 1 .. Capacity : flash'[i] # flash[i] => special /\ i <= file.size]_vars
=============================================================================
