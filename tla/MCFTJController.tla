--------------------------- MODULE MCFTJController ---------------------------
(* Flash devices of a few blocks, and the writes a host makes to them. *)
EXTENDS FTJController
CONSTANTS v1, v2

Request(first, last, value) == [first |-> first, last |-> last, value |-> value]

\* Two parts a page: single parts, a whole page, a run over a page boundary,
\* nothing at all.
PartRequests ==
  {Request(0, 0, v1), Request(1, 2, v2), Request(2, 3, v1), Request(4, 5, v2),
   Request(0, -1, v1)}

\* One part a page: two pages, each always with its own value.
TwoPages == {Request(0, 0, v1), Request(1, 1, v2)}

\* The content of a page that no logical page maps to is never read again.
LiveView ==
  <<l2p_map, phys_valid, phys_owner_lba, block_valid_count, lba_hot_counters,
    lists, pc, req, gc, writes, written, doubleFreed,
    [p \in Pages |-> IF \E l \in Lbas : l2p_map[l] = p THEN memory_buffer[p] ELSE ZeroPage]>>
=============================================================================
