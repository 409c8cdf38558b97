----------------------------- MODULE SecdedEcc -----------------------------
(***************************************************************************)
(* One 8-byte chunk of flash and its ECC byte, in src/ftj_engine.cpp:      *)
(* CalculateECC when the chunk is written, bits that flip while it is      *)
(* stored (SimulateRetentionDrift) or sensed (Read on a worn or disturbed  *)
(* page), and DecodeAndCorrect when it is read.                            *)
(*                                                                         *)
(* A word is the set of its bits that are 1, so exclusive or is the        *)
(* symmetric difference.  Whether a page is worn is not modelled: any read *)
(* may flip up to two bits.                                                *)
(***************************************************************************)
EXTENDS Integers, FiniteSets

CONSTANTS
  Words,     \* bound of the model: words a host writes
  Masks,     \* bound of the model: the parts of a word a write covers
  Drifting,  \* bound of the model: bits that may flip in storage
  Sensing,   \* bound of the model: bits that may flip when read
  MaxErrors  \* bound of the model: bits flipped in storage and in the read

Bits == 0 .. 63
Overall == 7   \* the 8th ECC bit

ASSUME WordsAssumption == Words \subseteq SUBSET Bits /\ Masks \subseteq SUBSET Bits
ASSUME FlipsAssumption == Drifting \subseteq Bits /\ Sensing \subseteq Bits /\ MaxErrors \in Nat

Xor(a, b) == (a \ b) \cup (b \ a)
Odd(set) == Cardinality(set) % 2 = 1

\* The position of data bit d in the code word.  The code takes d + 1 and
\* adds one for each power of two up to 64 it has reached.
CodeIdx(d) ==
  LET b1 == d + 2
      b2 == IF b1 >= 2 THEN b1 + 1 ELSE b1
      b4 == IF b2 >= 4 THEN b2 + 1 ELSE b2
      b8 == IF b4 >= 8 THEN b4 + 1 ELSE b4
      b16 == IF b8 >= 16 THEN b8 + 1 ELSE b8
      b32 == IF b16 >= 32 THEN b16 + 1 ELSE b16
  IN  IF b32 >= 64 THEN b32 + 1 ELSE b32

\* The check bits of the loop over i; its bound off by one in the variant.
CheckBitsOneShort == 0 .. 5
CheckBits == 0 .. 6

\* Bit i of n: n & (1 << i).
Powers == <<1, 2, 4, 8, 16, 32, 64>>
HasBit(n, i) == (n \div Powers[i + 1]) % 2 = 1

Mask == [i \in 0 .. 6 |-> {d \in Bits : HasBit(CodeIdx(d), i)}]

Hamming(data) == {i \in CheckBits : Odd(data \cap Mask[i])}

\* Bit 7 is the parity of the data and of the check bits just computed.
CalculateECC(data) ==
  Hamming(data) \cup (IF Odd(data) # Odd(Hamming(data)) THEN {Overall} ELSE {})

Syndrome(data, stored) == Xor(CalculateECC(data), stored) \ {Overall}
OverallDiffers(data, stored) == Overall \in Xor(CalculateECC(data), stored)

\* The data bit a syndrome names, if any.
Located(syndrome) == {d \in Bits : \A i \in 0 .. 6 : i \in syndrome <=> HasBit(CodeIdx(d), i)}

\* The return code and the word after correction.
DecodeAndCorrect(data, stored) ==
  LET syndrome == Syndrome(data, stored)
  IN  CASE syndrome = {} /\ ~ OverallDiffers(data, stored) -> [code |-> 0, data |-> data]
        [] OverallDiffers(data, stored) -> [code |-> 1, data |-> Xor(data, Located(syndrome))]
        [] OTHER -> [code |-> 2, data |-> data]

VARIABLES
  word,     \* the chunk in memory_buffer_
  ecc,      \* its byte in ecc_buffer_
  drifts,   \* bits flipped in storage since the last write of the chunk
  host,     \* history: what the host wrote
  covered,  \* history: the word the ECC byte was computed from
  read      \* the last Read since the chunk changed, or NoRead

eccVars == <<word, ecc, drifts, host, covered, read>>

NoRead == [code |-> -1, data |-> {}, errors |-> 0]

\* A page is zero filled, and its ECC bytes too, before its first write.
EccInit ==
  /\ word = {}
  /\ ecc = {}
  /\ drifts = {}
  /\ host = {}
  /\ covered = {}
  /\ read = NoRead

Merge(old, new, mask) == (old \ mask) \cup (new \cap mask)

\* Faulty variant: the ECC is that of the new bytes alone.
WriteEccOfNewBytes(new, mask) ==
  /\ word' = Merge(word, new, mask)
  /\ ecc' = CalculateECC(new \cap mask)
  /\ covered' = word'
  /\ host' = Merge(host, new, mask)
  /\ drifts' = drifts \ mask
  /\ read' = NoRead

\* WriteChunk puts its bytes over the stored word and computes the ECC of the
\* result; it does not check the bytes it keeps.
WriteChunk(new, mask) ==
  /\ word' = Merge(word, new, mask)
  /\ ecc' = CalculateECC(word')
  /\ covered' = word'
  /\ host' = Merge(host, new, mask)
  /\ drifts' = drifts \ mask
  /\ read' = NoRead

\* SimulateRetentionDrift flips a bit of a valid page.
Drift(d) ==
  /\ Cardinality(Xor(drifts, {d})) <= MaxErrors
  /\ word' = Xor(word, {d})
  /\ drifts' = Xor(drifts, {d})
  /\ read' = NoRead
  /\ UNCHANGED <<ecc, host, covered>>

\* Read: up to two more bits flip in the word read, never in the memory;
\* nothing corrected is written back.  A read leaves nothing a later one
\* sees, so the model makes one between two changes of the chunk.
Read(flips) ==
  /\ read = NoRead
  /\ Cardinality(flips) <= 2
  /\ Cardinality(drifts) + Cardinality(flips) <= MaxErrors
  /\ LET sensed == Xor(word, flips)
         decoded == DecodeAndCorrect(sensed, ecc)
     IN  read' = [code |-> decoded.code, data |-> decoded.data,
                  errors |-> Cardinality(Xor(sensed, covered))]
  /\ UNCHANGED <<word, ecc, drifts, host, covered>>

Flips == {{}} \cup {{a, b} : a, b \in Sensing}

EccNext ==
  \/ \E new \in Words, mask \in Masks : WriteChunk(new, mask)
  \/ \E d \in Drifting : Drift(d)
  \/ \E flips \in Flips : Read(flips)

EccSpec == EccInit /\ [][EccNext]_eccVars

(***************************************************************************)
(* Properties.                                                             *)
(***************************************************************************)

\* One or two flipped bits are never read as clean (return code 0), and a
\* word without any is.
NoErrorUnnoticed ==
  /\ read.errors \in 1 .. 2 => read.code # 0
  /\ read.code > 0 => read.errors # 0

\* After a single flipped bit, the read either returns the word the ECC was
\* computed from or reports it uncorrectable: never a wrong word as good.
SingleErrorRestoredOrRefused ==
  read.errors = 1 => read.code = 2 \/ (read.code = 1 /\ read.data = covered)

\* "corrects all single-bit errors" (README.md).
SingleBitCorrected == read.errors = 1 => read.code = 1 /\ read.data = covered

\* With at most one bit flipped, a word read as clean or corrected is what
\* the host wrote, piece by piece - unless a write kept a flipped bit beside
\* its own bytes and computed the ECC over it, which nothing notices later.
AcceptedReadsAreTheHosts ==
  covered = host /\ read.code \in {0, 1} /\ read.errors <= 1 => read.data = host

(***************************************************************************)
(* The inductive invariant.                                                *)
(***************************************************************************)

EccTypeOK ==
  /\ word \subseteq Bits
  /\ covered \subseteq Bits
  /\ host \subseteq Bits
  /\ drifts \subseteq Bits

\* Whatever has drifted since, the ECC byte is that of the word covered.
EccOfCovered == ecc = CalculateECC(covered)

\* The last read is a decoding of the stored word with some bits flipped.
ReadFrom(sensed) ==
  LET decoded == DecodeAndCorrect(sensed, ecc)
  IN  read = [code |-> decoded.code, data |-> decoded.data,
              errors |-> Cardinality(Xor(sensed, covered))]
ReadExplained == read = NoRead \/ \E flips \in Flips : ReadFrom(Xor(word, flips))

EccIInv == EccTypeOK /\ EccOfCovered /\ ReadExplained
=============================================================================
