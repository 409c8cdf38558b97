------------------------------- MODULE ChipTop -------------------------------
(***************************************************************************)
(* hdl/ftj_chip_top.v: the host's encoded words go through serializer,     *)
(* compressor and assembler to the top controller; addresses and responses *)
(* go past them.  One clock edge a step.                                   *)
(*                                                                         *)
(* The BDI encoder is combinational and only decides which bytes a word    *)
(* becomes, so the host offers any of Words.  The host and the NAND are    *)
(* external: a host keeps an address up until it is taken, as AXI wants.   *)
(***************************************************************************)
EXTENDS WordSerializer, Compressor, ByteAssembler, TopController

CONSTANTS
  Words,      \* encoded words: sequences of bytes
  MaxWords    \* bound: words the host sends after a reset

ASSUME ChipTopAssumption ==
  /\ MaxRun \in Nat \ {0} /\ WordBytes \in Nat \ {0} /\ MaxWords \in Nat
  /\ Words \subseteq Seq(Nat) \ {<< >>}

VARIABLES
  ser, cmp, asm, ctl,   \* registers of the stages
  aw, ar,          \* the host's addresses for a write and a read
  due,             \* history: bytes the host sent, without those dropped on the way
  received,        \* history: bytes of the words the controller took
  bursts,          \* history: bursts the host asked for and ended, that the
                   \* controller saw end and answered
  words,           \* history: words sent
  garbled,         \* history: the stream is no longer what was due
  endsLost         \* history: ends of bursts that were lost

stages == <<ser, cmp, asm, ctl>>
vars == <<stages, aw, ar, due, received, bursts, words, garbled, endsLost>>

NoAddress == [valid |-> FALSE, lba |-> 0]
Address(l) == [valid |-> TRUE, lba |-> l]
NoWord == [valid |-> FALSE, bytes |-> << >>, last |-> FALSE]

Init ==
  /\ ser = SerReset /\ cmp = CmpReset /\ asm = AsmReset /\ ctl = CtlReset
  /\ aw = NoAddress /\ ar = NoAddress
  /\ due = << >> /\ received = << >>
  /\ bursts = [asked |-> 0, ended |-> 0, seen |-> 0, answered |-> 0]
  /\ words = 0
  /\ garbled = FALSE /\ endsLost = 0

\* What the code does to bytes on their way.  A word offered in the cycle
\* after a burst is ignored, the last byte of a burst is withdrawn if it is
\* not taken at once, the byte that ends a run of zeros is not kept: these
\* are dropped.  A single zero that ends a burst is replaced by its length,
\* and a word replaced by the next one: the stream is garbled.
WordIgnored(w) == ser.state = "done" /\ w.valid /\ ser.in_ready
LastWithdrawn == ser.state = "done" /\ ser.out_valid /\ ~cmp.in_ready
EndOfRunDropped ==
  cmp.state = "stream" /\ ser.out_valid /\ cmp.in_ready /\ ~CountsOn(cmp, ser.out_data)
RunNotMarked ==
  /\ cmp.state = "idle" /\ ser.out_valid /\ cmp.in_ready
  /\ ser.out_data = 0 /\ ser.out_last
WordOverwritten ==
  asm.out_valid /\ ~ctl.wready /\ cmp.out_valid /\ Complete(asm, cmp.out_last)

When(b, s) == IF b THEN s ELSE << >>
One(b) == IF b THEN 1 ELSE 0

InSerializer == When(ser.out_valid, <<ser.out_data>>) \o ser.rest

\* What is due without the first byte in the serializer.
DueWithoutNext == SubSeq(due, 1, Len(due) - Len(InSerializer)) \o Tail(InSerializer)

\* The write path; w is the word the host offers.
WritePath(w) ==
  /\ ser' = SerNext(ser, w.valid, w.bytes, w.last, cmp.in_ready)
  /\ cmp' = CmpNext(cmp, ser.out_valid, ser.out_data, ser.out_last, TRUE)
  /\ asm' = AsmNext(asm, cmp.out_valid, cmp.out_data, cmp.out_last, ctl.wready)

\* The controller; go ends its waits, and is what the host has on bready and
\* rready.
Controller(go) ==
  ctl' = CtlNext(ctl, aw, ar, [valid |-> asm.out_valid, last |-> asm.out_last], go)

\* The addresses of the next cycle.
Addresses ==
  /\ aw' \in IF aw.valid THEN {IF ctl.awready THEN NoAddress ELSE aw}
             ELSE {NoAddress} \cup {Address(l) : l \in {k \in Lbas : bursts.asked < MaxWords}}
  /\ ar' \in IF ar.valid THEN {IF ctl.arready THEN NoAddress ELSE ar}
             ELSE {NoAddress} \cup {Address(l) : l \in Lbas}

Histories(w, go) ==
  LET hostSends == w.valid /\ ser.in_ready
      controllerTakes == asm.out_valid /\ ctl.wready
  IN
  /\ words' = words + One(hostSends)
  /\ due' = (IF LastWithdrawn \/ EndOfRunDropped THEN DueWithoutNext ELSE due)
               \o When(hostSends /\ ~WordIgnored(w), w.bytes)
  /\ received' = received \o When(controllerTakes, asm.out_word)
  /\ bursts' = [asked |-> bursts.asked + One(aw'.valid /\ ~aw.valid),
                ended |-> bursts.ended + One(hostSends /\ w.last),
                seen |-> bursts.seen + One(controllerTakes /\ asm.out_last),
                answered |-> bursts.answered + One(ctl.bvalid /\ go)]
  /\ garbled' = (garbled \/ RunNotMarked \/ WordOverwritten)
  /\ endsLost' = endsLost + One(WordIgnored(w) /\ w.last) + One(LastWithdrawn)
                           + One(WordOverwritten /\ asm.out_last)

\* One clock edge.
Tick(w, go) ==
  /\ w.valid => words < MaxWords
  /\ WritePath(w)
  /\ Controller(go)
  /\ Addresses
  /\ Histories(w, go)

\* rst_n.
Reset ==
  /\ ser' = SerReset /\ cmp' = CmpReset /\ asm' = AsmReset /\ ctl' = CtlReset
  /\ aw' = NoAddress /\ ar' = NoAddress
  /\ due' = << >> /\ received' = << >>
  /\ bursts' = [asked |-> 0, ended |-> 0, seen |-> 0, answered |-> 0]
  /\ words' = 0
  /\ garbled' = FALSE /\ endsLost' = 0

Offers == {NoWord} \cup [valid : {TRUE}, bytes : Words, last : BOOLEAN]

Ticks == \E w \in Offers : Tick(w, TRUE) \/ (ctl.state \in Waits \cup {"respond"} /\ Tick(w, FALSE))

Next == Ticks \/ Reset

Spec == Init /\ [][Next]_vars

\* The clock runs on, a wait ends, and so does one for the host; the host
\* asks for every burst it has sent.
Goes == ctl.state \in Waits \cup {"respond"} /\ Ticks /\ ctl'.state # ctl.state
Asks == ~aw.valid /\ bursts.asked < bursts.ended /\ Ticks /\ aw'.valid

FairSpec == Spec /\ WF_vars(Ticks) /\ WF_vars(Goes) /\ WF_vars(Asks)

-----------------------------------------------------------------------------
(* Properties *)

\* Every register has its type.
TypeOK ==
  /\ ser.state \in {"idle", "stream", "done"}
  /\ ser.state = "stream" <=> ser.rest # << >>
  /\ cmp.state \in {"idle", "stream", "flush", "done"}
  /\ cmp.run \in 0 .. MaxRun
  /\ Len(asm.buf) < WordBytes /\ Len(asm.out_word) <= WordBytes
  /\ {ser.out_data, cmp.out_data} \subseteq Nat
  /\ ctl.map \in [Lbas -> 0 .. Blocks - 1]
  /\ ctl.free \in 0 .. FreeRange - 1
  /\ words \in 0 .. MaxWords

\* The bytes a stream of tokens stands for: a decoder reads them one by one
\* and remembers a zero whose length is still to come.
Zeros(n) == [i \in 1 .. n |-> 0]
NothingRead == [bytes |-> << >>, mark |-> FALSE]
DecodeNext(d, t) ==
  CASE d.mark -> [bytes |-> d.bytes \o Zeros(t), mark |-> FALSE]
    [] ~d.mark /\ t = 0 -> [bytes |-> d.bytes, mark |-> TRUE]
    [] ~d.mark /\ t # 0 -> [bytes |-> Append(d.bytes, t), mark |-> FALSE]
Decoder(tokens) ==
  LET after[k \in 0 .. Len(tokens)] ==
        IF k = 0 THEN NothingRead ELSE DecodeNext(after[k - 1], tokens[k])
  IN after[Len(tokens)]
Decoded(tokens) == Decoder(tokens).bytes

Tokens ==
  received \o asm.out_word \o asm.buf \o When(cmp.out_valid, <<cmp.out_data>>)
    \o When(cmp.state = "flush", <<cmp.run>>)

\* Every byte the host sent is received or under way, once and in order,
\* however the controller stalls, but for those that the code drops; and the
\* stream can be decoded as long as no zero lost its mark and no word was
\* replaced before it was taken.
OnlyKnownLosses ==
  /\ TypeOK
  /\ ~garbled =>
       due = Decoded(Tokens) \o When(cmp.state = "stream", Zeros(cmp.run)) \o InSerializer

\* A burst is answered once, after its last word was taken, and its words are
\* taken once its address was: however bursts, reads and collections
\* overlap, the controller is never ahead of the host.
NeverAhead ==
  /\ bursts.answered <= bursts.seen
  /\ bursts.seen <= bursts.ended /\ bursts.seen <= bursts.asked - One(aw.valid)
  /\ bursts.seen <= bursts.answered + 1

\* Two pages share a block of the flash only when it is worn out: it is the
\* wear levelling that sends a second page there.
SharedBlocksAreWorn ==
  \A k, l \in Lbas : k # l /\ ctl.map[k] = ctl.map[l] => ctl.pe[ctl.map[k]] > MaxPe + 1

\* What is offered and not taken is offered again: a byte of the serializer
\* that is not the last of a burst, a word of the assembler that no other
\* replaces, and the answers of the controller.  (Every byte of the compressor
\* is taken at once.)
OffersStand ==
  [][\/ stages' = <<SerReset, CmpReset, AsmReset, CtlReset>>
     \/ /\ ser.out_valid /\ ~cmp.in_ready /\ ~ser.out_last =>
             ser'.out_valid /\ ser'.out_data = ser.out_data
        /\ asm.out_valid /\ ~ctl.wready /\ ~WordOverwritten =>
             asm'.out_valid /\ asm'.out_word = asm.out_word /\ asm'.out_last = asm.out_last
        /\ ctl.bvalid => ctl'.bvalid \/ bursts'.answered = bursts.answered + 1
        /\ ctl.rvalid => ctl'.rvalid \/ ctl'.state = "idle"]_vars

\* Every burst the host ends is answered, however few bytes its last word
\* has and whatever reads and collections come between, but for as many as
\* there were ends ignored, withdrawn or overwritten.
BurstsAnswered ==
  \A k \in 1 .. MaxWords :
    bursts.ended = k ~> bursts.answered + endsLost >= k \/ bursts.ended < k

\* A read that the host asks for is taken and answered, unless the chip is
\* reset or the controller waits for ever for the end of a burst.
ReadsAnswered ==
  /\ ar.valid ~> ctl.arready \/ ctl = CtlReset \/ [](ctl.state = "coalesce")
  /\ ctl.arready ~> ctl.rvalid \/ ctl = CtlReset

(***************************************************************************)
(* What the safety properties rest on.                                     *)
(***************************************************************************)

\* The registers of the stages, the host's and the histories.
SerRegs ==
  [state : {"idle", "stream", "done"}, in_ready : BOOLEAN, rest : Seq(Nat),
   last_latch : BOOLEAN, out_valid : BOOLEAN, out_data : Nat, out_last : BOOLEAN]
CmpRegs ==
  [state : {"idle", "stream", "flush", "done"}, in_ready : BOOLEAN, run : 0 .. MaxRun,
   pending_last : BOOLEAN, out_valid : BOOLEAN, out_data : Nat, out_last : BOOLEAN]
AsmRegs == [buf : Seq(Nat), out_valid : BOOLEAN, out_word : Seq(Nat), out_last : BOOLEAN]
CtlRegs ==
  [state : Waits \cup {"idle", "fetch", "coalesce", "translate", "ecc_gen", "page_program",
                       "page_read", "afe_sense", "respond"},
   free : 0 .. FreeRange - 1, map : [Lbas -> 0 .. Blocks - 1],
   pe : [0 .. Blocks - 1 -> Nat], write : BOOLEAN, lba : Lbas, pba : 0 .. Blocks - 1,
   wl_needed : BOOLEAN, awready : BOOLEAN, wready : BOOLEAN, bvalid : BOOLEAN,
   arready : BOOLEAN, rvalid : BOOLEAN]
Channel == [valid : BOOLEAN, lba : Lbas]

Registers ==
  /\ ser \in SerRegs /\ cmp \in CmpRegs /\ asm \in AsmRegs /\ ctl \in CtlRegs
  /\ aw \in Channel /\ ar \in Channel
  /\ bursts \in [asked : Nat, ended : Nat, seen : Nat, answered : Nat]

\* The ends of bursts in a stage.
SerEnds(s) == One(s.state = "stream" /\ s.last_latch) + One(s.out_valid /\ s.out_last)
CmpEnds(c) == One(c.state = "flush" /\ c.pending_last) + One(c.out_valid /\ c.out_last)
AsmEnds(a) == One(a.out_valid /\ a.out_last)

\* No end of a burst is made on the way.
EndsUnderWay == bursts.seen + SerEnds(ser) + CmpEnds(cmp) + AsmEnds(asm) <= bursts.ended

\* The shape of a state of the serializer and of the controller.
SerShape(s) == (s.state = "stream" <=> s.rest # << >>) /\ (s.state = "done" => s.out_last)
CtlShape(c) ==
  /\ c.awready <=> c.state = "fetch"
  /\ c.wready <=> c.state = "coalesce"
  /\ c.state = "coalesce" => c.write
  /\ c.state \in {"page_read", "read_wait", "afe_sense"} => ~c.write
  /\ c.bvalid => c.state = "respond" /\ c.write
  /\ c.rvalid => c.state = "respond" /\ ~c.write

\* An address is taken for every burst, and an answer is due for the burst
\* that was taken.
Served == {"translate", "ecc_gen", "page_program", "prog_wait", "wl_remap", "respond"}
Owes(c) == c.write /\ c.state \in Served
Handshakes ==
  /\ ctl.awready => aw.valid
  /\ bursts.asked = bursts.seen + One(aw.valid) + One(ctl.wready)
  /\ bursts.seen = bursts.answered + One(Owes(ctl))

\* Shared blocks are worn, and so is one that is about to be shared.
Worn(c) ==
  /\ \A k, l \in Lbas : k # l /\ c.map[k] = c.map[l] => c.pe[c.map[k]] > MaxPe + 1
  /\ c.state = "wl_remap" \/ (c.state = "prog_wait" /\ c.wl_needed) => c.pe[c.pba] > MaxPe + 1

\* What every step preserves.
IInv ==
  /\ TypeOK /\ Registers
  /\ SerShape(ser) /\ CtlShape(ctl)
  /\ EndsUnderWay /\ Handshakes /\ Worn(ctl)

\* While the stream is not garbled it ends between two tokens, and a stage
\* takes no byte that it would not look at: the serializer is at rest when
\* the compressor ends a burst.
InStep ==
  /\ ~Decoder(Tokens).mark
  /\ cmp.state = "done" => ~ser.out_valid
  /\ cmp.state = "flush" => ~cmp.in_ready
  /\ cmp.state = "flush" /\ cmp.pending_last => ser.state = "idle" /\ ~ser.out_valid

\* What every step preserves of the stream besides.
StreamInv ==
  /\ received \in Seq(Nat) /\ due \in Seq(Nat)
  /\ ser.state = "stream" => ~ser.in_ready
  /\ ser.out_last => ser.state = "done"
  /\ ~asm.out_valid => asm.out_word = << >>
  /\ ~garbled => InStep /\ OnlyKnownLosses
=============================================================================
