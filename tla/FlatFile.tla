------------------------------ MODULE FlatFile -------------------------------
(***************************************************************************)
(* What a file of the virtual disk promises to the programs that use it: a *)
(* sequence of bytes that can be read, written anywhere and resized, where *)
(* what nobody has written reads as zero.                                  *)
(***************************************************************************)
EXTENDS Naturals, Sequences

CONSTANTS
  MaxSize,  \* of a file
  Values,   \* what programs write
  Zero,
  NoReply

VARIABLES
  bytes,   \* the content
  reply    \* what the last call read, if it was a read

ffvars == <<bytes, reply>>

Init == bytes = << >> /\ reply = NoReply

Resize(n) ==
  /\ bytes' = [i \in 1 .. n |-> IF i <= Len(bytes) THEN bytes[i] ELSE Zero]
  /\ reply' = NoReply

\* Bytes from + 1 .. to become v; the file grows when it has to.
Write(from, to, v) ==
  /\ bytes' = [i \in 1 .. (IF to > Len(bytes) THEN to ELSE Len(bytes)) |->
                 CASE i \in from + 1 .. to -> v
                   [] i <= from /\ i > Len(bytes) -> Zero
                   [] OTHER -> bytes[i]]
  /\ reply' = NoReply

Read(from, to) ==
  /\ from < Len(bytes) /\ to <= Len(bytes)
  /\ reply' = SubSeq(bytes, from + 1, to)
  /\ UNCHANGED bytes

Next ==
  \/ \E n \in 0 .. MaxSize : Resize(n)
  \/ \E from, to \in 0 .. MaxSize :
       Read(from, to) \/ \E v \in Values : Write(from, to, v)

Spec == Init /\ [][Next]_ffvars
=============================================================================
