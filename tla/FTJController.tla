---------------------------- MODULE FTJController ----------------------------
(***************************************************************************)
(* The flash translation layer of src/ftj_engine.cpp: logical-to-physical  *)
(* mapping, hot and cold free lists, and garbage collection, as Write,     *)
(* AllocatePhysicalPage and RunGC keep them.                               *)
(*                                                                         *)
(* Write and Read hold mapping_mutex_, so one request runs at a time; its  *)
(* page loop and the loops of RunGC are steps of their own, which is what  *)
(* the functions that do not take the mutex can observe.  A page holds     *)
(* Granules parts a request can cover separately, standing for its 4096    *)
(* bytes.  Latency, wear and disturb counters and ECC bytes do not steer   *)
(* the mapping and are left out; SecdedEcc models the ECC.                 *)
(***************************************************************************)
EXTENDS Integers, Sequences, FiniteSetsExt

CONSTANTS
  PageCount,      \* page_count_: physical pages, and logical ones
  PagesPerBlock,  \* PAGES_PER_BLOCK
  HotThreshold,   \* HOT_THRESHOLD
  Granules,       \* parts of a page
  Values,         \* contents a host writes to a part
  Zero,           \* the content of an unwritten part
  HostRequests,   \* bound of the model: the writes the host makes, each a
                  \* run of parts [first, last], empty when last < first,
                  \* and a value
  MaxWrites       \* bound of the model: host requests

ASSUME PageAssumption ==
  /\ PageCount \in Nat \ {0}
  /\ PagesPerBlock \in Nat \ {0}
  /\ Granules \in Nat \ {0}
  /\ HotThreshold \in Nat
  /\ MaxWrites \in Nat
\* The constructor drops a trailing partial block from num_blocks_ but not
\* its pages; the model covers capacities without one.
ASSUME WholeBlocks == PageCount < PagesPerBlock \/ PageCount % PagesPerBlock = 0
\* A request outside the capacity is refused before it takes the mutex.
ASSUME HostAssumption ==
  \A r \in HostRequests :
    /\ r \in [first : Nat, last : Int, value : Values]
    /\ r.last < PageCount * Granules
ASSUME ZeroAssumption == Zero \notin Values

Pages == 0 .. PageCount - 1
Lbas == Pages
Parts == 0 .. Granules - 1
NumBlocks == Max({1, PageCount \div PagesPerBlock})
Blocks == 0 .. NumBlocks - 1
None == -1

phys_block(p) == p \div PagesPerBlock
PagesOf(b) == {p \in Pages : phys_block(p) = b}
BlockStart(b) == b * PagesPerBlock
BlockEnd(b) == Min({PageCount, BlockStart(b) + PagesPerBlock})

gc_low_watermark == Max({1, PageCount \div 20})
gc_target_free == Max({1, PageCount \div 10})

\* The constructor reserves at least one block for hot pages ...
HotBlocks == Max({1, NumBlocks \div 5})
\* ... and RunGC returns an erased page to the hot list by another rule.
ErasedIsHot(p) == phys_block(p) < NumBlocks \div 5

ZeroPage == [g \in Parts |-> Zero]

VARIABLES
  l2p_map,                   \* logical page -> physical page or None
  phys_valid,                \* physical page holds current data
  phys_owner_lba,            \* physical page -> logical page or None
  block_valid_count,         \* block -> number of valid pages
  lba_hot_counters,          \* logical page -> times written
  free_physical_pages_hot,   \* free list, a stack
  free_physical_pages_cold,  \* free list, a stack
  memory_buffer,             \* physical page -> content
  pc,                        \* where the running request is
  req,                       \* the running request: next and last part, value
  gc,                        \* RunGC: candidate, cursor, initial_free, return point
  writes,                    \* requests made, for the bound
  written,                   \* history: what the host wrote, logical page -> content
  doubleFreed                \* history: a page was freed while on a free list

lists == <<free_physical_pages_hot, free_physical_pages_cold>>
mapping == <<l2p_map, phys_valid, phys_owner_lba, block_valid_count, memory_buffer>>
vars == <<mapping, lists, lba_hot_counters, pc, req, gc, writes, written, doubleFreed>>

\* push_back in the constructor goes from the highest page to the lowest.
Descending(lo, hi) == [i \in 1 .. hi - lo + 1 |-> hi - i + 1]
FirstCold == Min({PageCount, HotBlocks * PagesPerBlock})

NoRequest == [next |-> 0, last |-> -1, value |-> Zero]
NoGC == [candidate |-> 0, cursor |-> 0, initial |-> 0, return |-> "idle"]

Init ==
  /\ l2p_map = [l \in Lbas |-> None]
  /\ phys_valid = [p \in Pages |-> FALSE]
  /\ phys_owner_lba = [p \in Pages |-> None]
  /\ block_valid_count = [b \in Blocks |-> 0]
  /\ lba_hot_counters = [l \in Lbas |-> 0]
  /\ free_physical_pages_hot = Descending(0, FirstCold - 1)
  /\ free_physical_pages_cold = Descending(FirstCold, PageCount - 1)
  /\ memory_buffer = [p \in Pages |-> ZeroPage]
  /\ pc = "idle"
  /\ req = NoRequest
  /\ gc = NoGC
  /\ writes = 0
  /\ written = [l \in Lbas |-> ZeroPage]
  /\ doubleFreed = FALSE

FreePages == Len(free_physical_pages_hot) + Len(free_physical_pages_cold)
OnFreeList(p) ==
  \/ \E i \in 1 .. Len(free_physical_pages_hot) : free_physical_pages_hot[i] = p
  \/ \E i \in 1 .. Len(free_physical_pages_cold) : free_physical_pages_cold[i] = p

Back(s) == s[Len(s)]
PopBack(s) == SubSeq(s, 1, Len(s) - 1)

\* AllocatePhysicalPage: the preferred list, else the other one.
FromHot(prefer_hot) ==
  IF prefer_hot THEN free_physical_pages_hot # << >> ELSE free_physical_pages_cold = << >>

Allocated(prefer_hot) ==
  IF FromHot(prefer_hot) THEN Back(free_physical_pages_hot) ELSE Back(free_physical_pages_cold)

AllocatePhysicalPage(prefer_hot) ==
  IF FromHot(prefer_hot)
  THEN /\ free_physical_pages_hot' = PopBack(free_physical_pages_hot)
       /\ UNCHANGED free_physical_pages_cold
  ELSE /\ free_physical_pages_cold' = PopBack(free_physical_pages_cold)
       /\ UNCHANGED free_physical_pages_hot

DecrementUnclamped(n) == n - 1
Decrement(n) == IF n > 0 THEN n - 1 ELSE 0

\* The valid counts after page "new" became valid and page "old" stopped
\* being so; the two updates come one after the other.
CountsAfter(new, old) ==
  LET up == [block_valid_count EXCEPT ![phys_block(new)] = @ + 1]
  IN  IF old = None THEN up ELSE [up EXCEPT ![phys_block(old)] = Decrement(@)]

(***************************************************************************)
(* Write.                                                                  *)
(***************************************************************************)

\* A request for a run of parts, inside the capacity, takes the mutex; one
\* of size zero goes straight to the end.
Write(r) ==
  /\ pc = "idle"
  /\ writes < MaxWrites
  /\ writes' = writes + 1
  /\ req' = [next |-> r.first, last |-> r.last, value |-> r.value]
  /\ pc' = IF r.first <= r.last THEN "page" ELSE "finish"
  /\ UNCHANGED <<mapping, lists, lba_hot_counters, gc, written, doubleFreed>>

Lp == req.next \div Granules
PageLast == Min({req.last, Lp * Granules + Granules - 1})
Covered == {part % Granules : part \in req.next .. PageLast}

\* The page's new content: the old one, or zeros, under the request's data.
Overlay(old) == [g \in Parts |-> IF g \in Covered THEN req.value ELSE old[g]]

\* The content the new page starts from: the old page's, or zeros.
Base(old) == IF old = None THEN ZeroPage ELSE memory_buffer[old]

\* The old physical page, if there was one, stops being valid and owned.
InvalidatedNever(f, old, none) == f
Invalidated(f, old, none) == IF old = None THEN f ELSE [f EXCEPT ![old] = none]

\* Map logical page Lp to the free page it was allocated.
PlacePage(prefer_hot) ==
  LET new == Allocated(prefer_hot)
      old == l2p_map[Lp]
  IN  /\ AllocatePhysicalPage(prefer_hot)
      /\ memory_buffer' = [memory_buffer EXCEPT ![new] = Overlay(Base(old))]
      /\ l2p_map' = [l2p_map EXCEPT ![Lp] = new]
      /\ phys_valid' = Invalidated([phys_valid EXCEPT ![new] = TRUE], old, FALSE)
      /\ phys_owner_lba' = Invalidated([phys_owner_lba EXCEPT ![new] = Lp], old, None)
      /\ block_valid_count' = CountsAfter(new, old)
      /\ written' = [written EXCEPT ![Lp] = Overlay(@)]
      /\ req' = [req EXCEPT !.next = PageLast + 1]
      /\ pc' = IF PageLast = req.last THEN "finish" ELSE "page"

IsHot(counters) == counters[Lp] >= HotThreshold

\* A 32-bit counter; a host that wraps it writes one page 2^32 times.
CountAccess == lba_hot_counters' = [lba_hot_counters EXCEPT ![Lp] = @ + 1]

WritePage ==
  /\ pc = "page"
  /\ FreePages > 0
  /\ CountAccess
  /\ PlacePage(IsHot(lba_hot_counters'))
  /\ UNCHANGED <<gc, writes, doubleFreed>>

\* No page to allocate: collect once, then try again.
WriteNeedsGC ==
  /\ pc = "page"
  /\ FreePages = 0
  /\ CountAccess
  /\ gc' = [gc EXCEPT !.return = "retry"]
  /\ pc' = "gc"
  /\ UNCHANGED <<mapping, lists, req, writes, written, doubleFreed>>

RetryPage ==
  /\ pc = "retry"
  /\ FreePages > 0
  /\ PlacePage(IsHot(lba_hot_counters))
  /\ UNCHANGED <<lba_hot_counters, gc, writes, doubleFreed>>

\* return false: the pages already written stay written.
OutOfSpace ==
  /\ pc = "retry"
  /\ FreePages = 0
  /\ pc' = "idle"
  /\ req' = NoRequest
  /\ UNCHANGED <<mapping, lists, lba_hot_counters, gc, writes, written, doubleFreed>>

\* After the last page: collect when the free pages run low.
FinishWrite ==
  /\ pc = "finish"
  /\ req' = NoRequest
  /\ IF FreePages < gc_low_watermark
     THEN pc' = "gc" /\ gc' = [gc EXCEPT !.return = "idle"]
     ELSE pc' = "idle" /\ UNCHANGED gc
  /\ UNCHANGED <<mapping, lists, lba_hot_counters, writes, written, doubleFreed>>

(***************************************************************************)
(* RunGC(gc_target_free_).                                                 *)
(***************************************************************************)

HotScore(b) ==
  MapThenSumSet(LAMBDA p : IF phys_owner_lba[p] = None THEN 0
                           ELSE lba_hot_counters[phys_owner_lba[p]], PagesOf(b))
Metric(b) == block_valid_count[b] * 16 + HotScore(b)

\* The first block of the lowest metric.
Best(b) ==
  \A c \in Blocks : Metric(b) < Metric(c) \/ (Metric(b) = Metric(c) /\ b <= c)

\* The head of the collection loop.
GcStart ==
  /\ pc = "gc"
  /\ IF FreePages < gc_target_free
     THEN /\ \E b \in Blocks :
               /\ Best(b)
               /\ gc' = [gc EXCEPT !.candidate = b, !.cursor = BlockStart(b), !.initial = FreePages]
          /\ pc' = "move"
     ELSE pc' = gc.return /\ gc' = NoGC
  /\ UNCHANGED <<mapping, lists, lba_hot_counters, req, writes, written, doubleFreed>>

Advance == gc' = [gc EXCEPT !.cursor = @ + 1]

\* A valid page moves to a free page, of the cold list first.  It always has
\* an owner (OwnersMapBack), so the code's other branch is never taken.
GcMove ==
  /\ pc = "move"
  /\ gc.cursor < BlockEnd(gc.candidate)
  /\ phys_valid[gc.cursor]
  /\ FreePages > 0
  /\ phys_owner_lba[gc.cursor] # None
  /\ LET p == gc.cursor
         new == Allocated(FALSE)
         owner == phys_owner_lba[p]
     IN  /\ memory_buffer' = [memory_buffer EXCEPT ![new] = memory_buffer[p]]
         /\ l2p_map' = [l2p_map EXCEPT ![owner] = new]
         /\ phys_owner_lba' = [phys_owner_lba EXCEPT ![new] = owner, ![p] = None]
         /\ phys_valid' = [phys_valid EXCEPT ![new] = TRUE, ![p] = FALSE]
         /\ block_valid_count' = CountsAfter(new, p)
  /\ AllocatePhysicalPage(FALSE)
  /\ Advance
  /\ UNCHANGED <<lba_hot_counters, pc, req, writes, written, doubleFreed>>

\* An invalid page needs no move; a valid one stays when nothing is free.
GcSkip ==
  /\ pc = "move"
  /\ gc.cursor < BlockEnd(gc.candidate)
  /\ ~ phys_valid[gc.cursor] \/ FreePages = 0
  /\ Advance
  /\ UNCHANGED <<mapping, lists, lba_hot_counters, pc, req, writes, written, doubleFreed>>

GcMovesDone ==
  /\ pc = "move"
  /\ gc.cursor = BlockEnd(gc.candidate)
  /\ gc' = [gc EXCEPT !.cursor = BlockStart(gc.candidate)]
  /\ pc' = "erase"
  /\ UNCHANGED <<mapping, lists, lba_hot_counters, req, writes, written, doubleFreed>>

\* Every page of the block that is not valid goes to a free list.
ErasableAlways(p) == TRUE
Erasable(p) == ~ phys_valid[p]

GcErase ==
  /\ pc = "erase"
  /\ gc.cursor < BlockEnd(gc.candidate)
  /\ Erasable(gc.cursor)
  /\ phys_owner_lba' = [phys_owner_lba EXCEPT ![gc.cursor] = None]
  /\ IF ErasedIsHot(gc.cursor)
     THEN /\ free_physical_pages_hot' = Append(free_physical_pages_hot, gc.cursor)
          /\ UNCHANGED free_physical_pages_cold
     ELSE /\ free_physical_pages_cold' = Append(free_physical_pages_cold, gc.cursor)
          /\ UNCHANGED free_physical_pages_hot
  /\ doubleFreed' = (doubleFreed \/ OnFreeList(gc.cursor))
  /\ Advance
  /\ UNCHANGED <<l2p_map, phys_valid, block_valid_count, memory_buffer,
                 lba_hot_counters, pc, req, writes, written>>

GcKeep ==
  /\ pc = "erase"
  /\ gc.cursor < BlockEnd(gc.candidate)
  /\ ~ Erasable(gc.cursor)
  /\ Advance
  /\ UNCHANGED <<mapping, lists, lba_hot_counters, pc, req, writes, written, doubleFreed>>

NoProgressOffByOne == FreePages < gc.initial
NoProgress == FreePages <= gc.initial

\* The block counts as empty; go on only after progress and below the target.
GcErased ==
  /\ pc = "erase"
  /\ gc.cursor = BlockEnd(gc.candidate)
  /\ block_valid_count' = [block_valid_count EXCEPT ![gc.candidate] = 0]
  /\ IF NoProgress \/ FreePages >= gc_target_free
     THEN pc' = gc.return /\ gc' = NoGC
     ELSE pc' = "gc" /\ UNCHANGED gc
  /\ UNCHANGED <<l2p_map, phys_valid, phys_owner_lba, memory_buffer, lists,
                 lba_hot_counters, req, writes, written, doubleFreed>>

RunGC ==
  GcStart \/ GcMove \/ GcSkip \/ GcMovesDone \/ GcErase \/ GcKeep \/ GcErased

WriteStep == WritePage \/ WriteNeedsGC \/ RetryPage \/ OutOfSpace \/ FinishWrite

Next ==
  \/ \E r \in HostRequests : Write(r)
  \/ WriteStep
  \/ RunGC

Spec == Init /\ [][Next]_vars

\* A request, once made, runs to its end.
FairSpec == Spec /\ WF_vars(WriteStep \/ RunGC)

(***************************************************************************)
(* Properties.                                                             *)
(***************************************************************************)

TypeOK ==
  /\ l2p_map \in [Lbas -> Pages \cup {None}]
  /\ phys_valid \in [Pages -> BOOLEAN]
  /\ phys_owner_lba \in [Pages -> Lbas \cup {None}]
  /\ block_valid_count \in [Blocks -> Nat]
  /\ lba_hot_counters \in [Lbas -> Nat]
  /\ free_physical_pages_hot \in Seq(Pages)
  /\ free_physical_pages_cold \in Seq(Pages)
  /\ memory_buffer \in [Pages -> [Parts -> Values \cup {Zero}]]
  /\ pc \in {"idle", "page", "retry", "finish", "gc", "move", "erase"}
  /\ req \in [next : Nat, last : Int, value : Values \cup {Zero}]
  /\ gc \in [candidate : Blocks, cursor : Nat, initial : Nat, return : {"idle", "retry"}]
  /\ writes \in 0 .. MaxWrites
  /\ written \in [Lbas -> [Parts -> Values \cup {Zero}]]
  /\ doubleFreed \in BOOLEAN

\* A page is valid exactly when it has an owner, and its owner maps back to
\* it: even after a page was handed out twice, no logical page owns two.
OwnersMapBack ==
  \A p \in Pages :
    /\ phys_valid[p] <=> phys_owner_lba[p] # None
    /\ phys_valid[p] => l2p_map[phys_owner_lba[p]] = p

\* What Read returns for logical page l when no bit error is injected.
ReadPage(l) ==
  IF l2p_map[l] = None THEN ZeroPage
  ELSE IF ~ phys_valid[l2p_map[l]] THEN ZeroPage
  ELSE memory_buffer[l2p_map[l]]

\* Reads return what the host wrote last, to every part of every page.
ReadsLastWrite == \A l \in Lbas : ReadPage(l) = written[l]

\* Writes, failed writes and garbage collection lose nothing as long as no
\* page has been freed while it was on a free list.
IntactUntilDoubleFree == ~ doubleFreed => ReadsLastWrite

AllDifferent(s) == \A i, j \in 1 .. Len(s) : s[i] = s[j] => i = j
Apart(s, t) == \A i \in 1 .. Len(s), j \in 1 .. Len(t) : s[i] # t[j]
NoneValid(s) == \A i \in 1 .. Len(s) : ~ phys_valid[s[i]]

\* Until a page is freed twice, the free lists name each page at most once,
\* and no page that holds data.
FreeListsSoundUntilDoubleFree ==
  ~ doubleFreed =>
    /\ AllDifferent(free_physical_pages_hot)
    /\ AllDifferent(free_physical_pages_cold)
    /\ Apart(free_physical_pages_hot, free_physical_pages_cold)
    /\ NoneValid(free_physical_pages_hot)
    /\ NoneValid(free_physical_pages_cold)

\* "which logical page maps here": a mapped page names the page that maps to it.
MappingsAreInverse ==
  \A l \in Lbas : l2p_map[l] # None => phys_owner_lba[l2p_map[l]] = l

\* The inductive invariant: besides the properties, an unfinished request has
\* a part left inside the capacity, the cursor of RunGC is in its block, and
\* until a double free each mapping has its inverse and the host's content.
Unfinished == pc \in {"page", "retry"} \/ (pc \in {"gc", "move", "erase"} /\ gc.return = "retry")

RequestInside ==
  Unfinished => req.next <= req.last /\ req.last < PageCount * Granules

CursorInBlock ==
  pc \in {"move", "erase"} =>
    BlockStart(gc.candidate) <= gc.cursor /\ gc.cursor <= BlockEnd(gc.candidate)

MappedUntilDoubleFree ==
  ~ doubleFreed =>
    \A l \in Lbas :
      IF l2p_map[l] = None THEN written[l] = ZeroPage
      ELSE /\ phys_owner_lba[l2p_map[l]] = l
           /\ memory_buffer[l2p_map[l]] = written[l]

IInv ==
  /\ TypeOK
  /\ RequestInside
  /\ CursorInBlock
  /\ OwnersMapBack
  /\ FreeListsSoundUntilDoubleFree
  /\ MappedUntilDoubleFree

\* Every request returns: garbage collection never collects for ever.
RequestsReturn == (pc # "idle") ~> (pc = "idle")
=============================================================================
