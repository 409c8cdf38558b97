---------------------------- MODULE TopController ----------------------------
(***************************************************************************)
(* hdl/ftj_top_controller.v: the AXI slave that writes bursts to the NAND   *)
(* flash and reads from it.  Next-state function of its registers.         *)
(*                                                                         *)
(* Data, ECC and the pins of the NAND are left out.  The loops that fill   *)
(* the tables or look for a block, and the waits of thousands of cycles    *)
(* for the NAND, last until the input "go" says so; nobody reads the tables *)
(* meanwhile.  The same input is bready or rready in RESPOND.              *)
(*                                                                         *)
(* gc_valid_count is zero from the start and never counts, so it is not    *)
(* here: the victim of a collection is block 0, and nothing is copied.     *)
(* pe_cycle_table has 16 bits, which no run fills.                         *)
(***************************************************************************)
EXTENDS Naturals

CONSTANTS
  NumLbas,       \* 2^8, what an address is cut to
  Blocks,        \* BLOCKS
  FreeRange,     \* 2^10, the range of free_block_count
  GcThreshold,   \* GC_THRESHOLD
  MaxPe          \* TLC_MAX_PE

ASSUME TopControllerAssumption ==
  /\ Blocks \in Nat \ {0, 1} /\ FreeRange \in Nat \ {0}
  /\ NumLbas \in 1 .. Blocks
  /\ GcThreshold \in 0 .. FreeRange - 1 /\ MaxPe \in Nat

Lbas == 0 .. NumLbas - 1

\* STATE_IDLE without init_done is "init".
CtlReset ==
  [state |-> "init", free |-> Blocks % FreeRange,
   map |-> [l \in Lbas |-> l], pe |-> [b \in 0 .. Blocks - 1 |-> 0],
   write |-> FALSE, lba |-> 0, pba |-> 0, wl_needed |-> FALSE,
   awready |-> FALSE, wready |-> FALSE, bvalid |-> FALSE,
   arready |-> FALSE, rvalid |-> FALSE]

\* A request or a collection begins; writes come first.
CtlIdle(c, aw, ar) ==
  CASE c.free < GcThreshold -> [c EXCEPT !.state = "gc_select"]
    [] c.free >= GcThreshold /\ aw -> [c EXCEPT !.awready = TRUE, !.state = "fetch"]
    [] c.free >= GcThreshold /\ ~aw /\ ar.valid ->
         [c EXCEPT !.arready = TRUE, !.write = FALSE, !.lba = ar.lba,
                   !.state = "translate"]
    [] OTHER -> c

CtlFetch(c, lba) ==
  [c EXCEPT !.lba = lba, !.awready = FALSE, !.wready = TRUE, !.write = TRUE,
            !.state = "coalesce"]

\* A mutant: a burst ends with its first word.
CtlCoalesceOne(c, valid, last) ==
  IF valid THEN [c EXCEPT !.wready = FALSE, !.state = "translate"] ELSE c

\* The words of a burst, each of which replaces the one before.
CtlCoalesce(c, valid, last) ==
  IF valid /\ last THEN [c EXCEPT !.wready = FALSE, !.state = "translate"] ELSE c

\* A mutant: the operation is not looked at.
CtlTranslateToWrite(c) ==
  [c EXCEPT !.arready = FALSE, !.pba = c.map[c.lba], !.state = "ecc_gen"]

CtlTranslate(c) ==
  [c EXCEPT !.arready = FALSE, !.pba = c.map[c.lba],
            !.state = IF c.write THEN "ecc_gen" ELSE "page_read"]

\* PAGE_PROGRAM.
CtlProgram(c) ==
  [c EXCEPT !.pe[c.pba] = @ + 1, !.wl_needed = c.pe[c.pba] > MaxPe,
            !.state = "prog_wait"]

\* The first of the blocks that were written least; the last block is
\* compared in the cycle that uses the result, and does not count.
Coldest(c) ==
  CHOOSE b \in 0 .. Blocks - 2 :
    \A k \in 0 .. Blocks - 2 :
      c.pe[b] < c.pe[k] \/ (c.pe[b] = c.pe[k] /\ b <= k)

\* A mutant: the page written last gets the cold block.
RemappedToCold(c) == [c.map EXCEPT ![c.lba] = Coldest(c)]

\* WL_REMAP: the page with the number of the cold block gets the hot block.
Remapped(c) == [c.map EXCEPT ![Coldest(c) % NumLbas] = c.pba]

\* RESPOND: bvalid goes up with the first cycle, rvalid is up already.
CtlRespond(c, ready) ==
  CASE c.write /\ ~c.bvalid -> [c EXCEPT !.bvalid = TRUE]
    [] c.write /\ c.bvalid /\ ready -> [c EXCEPT !.bvalid = FALSE, !.state = "idle"]
    [] ~c.write /\ c.rvalid /\ ready -> [c EXCEPT !.rvalid = FALSE, !.state = "idle"]
    [] OTHER -> c

\* The states that only count, scan or wait, and what ends them.
Waits == {"init", "gc_select", "erase_wait", "prog_wait", "wl_remap", "read_wait"}

CtlWait(c) ==
  CASE c.state = "init" -> [c EXCEPT !.state = "idle"]
    [] c.state = "gc_select" -> [c EXCEPT !.free = (@ + 1) % FreeRange, !.state = "erase_wait"]
    [] c.state = "erase_wait" -> [c EXCEPT !.state = "idle"]
    [] c.state = "prog_wait" -> [c EXCEPT !.state = IF c.wl_needed THEN "wl_remap" ELSE "respond"]
    [] c.state = "wl_remap" -> [c EXCEPT !.map = Remapped(c), !.state = "respond"]
    [] c.state = "read_wait" -> [c EXCEPT !.state = "afe_sense"]

CtlNext(c, aw, ar, w, go) ==
  CASE c.state = "idle" -> CtlIdle(c, aw.valid, ar)
    [] c.state = "fetch" -> CtlFetch(c, aw.lba)
    [] c.state = "coalesce" -> CtlCoalesce(c, w.valid, w.last)
    [] c.state = "translate" -> CtlTranslate(c)
    [] c.state = "ecc_gen" -> [c EXCEPT !.state = "page_program"]
    [] c.state = "page_program" -> CtlProgram(c)
    [] c.state = "page_read" -> [c EXCEPT !.state = "read_wait"]
    [] c.state = "afe_sense" -> [c EXCEPT !.rvalid = TRUE, !.state = "respond"]
    [] c.state = "respond" -> CtlRespond(c, go)
    [] c.state \in Waits -> IF go THEN CtlWait(c) ELSE c
=============================================================================
