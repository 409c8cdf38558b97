--------------------------- MODULE BurstCoalescer ---------------------------
(***************************************************************************)
(* The write-coalescing buffer of src/ftj_engine.cpp: PushWrite stages a   *)
(* host write in the slot its page hashes to, FlushToFTL writes the dirty  *)
(* slots to the FTL, Reset drops everything.                               *)
(*                                                                         *)
(* Each call runs under mtx_; the loop of FlushToFTL is a step per slot,   *)
(* which GetQueueDepth and GetWAF, which take no lock, can observe.  A     *)
(* page has PageParts parts standing for its 4096 bytes; the FTL behind it *)
(* takes a whole page or refuses it, as FTJController's Write does.        *)
(***************************************************************************)
EXTENDS Integers, FiniteSetsExt

CONSTANTS
  Depth,      \* DEPTH: staging slots
  PageParts,  \* parts of a page
  FlashPages, \* bound of the model: pages the host writes
  Values,     \* contents of a part
  Zero,       \* the content of a part nobody wrote
  MaxPages,   \* max_pages of FlushToFTL
  MaxPushes   \* bound of the model: calls of PushWrite

ASSUME SizesAssumption ==
  Depth \in Nat \ {0} /\ PageParts \in Nat \ {0} /\ MaxPages \in Nat \ {0} /\ MaxPushes \in Nat
ASSUME PagesAssumption == FlashPages \subseteq Nat
ASSUME ZeroAssumption == Zero \notin Values

Slots == 0 .. Depth - 1
Parts == 0 .. PageParts - 1
SlotOf(page) == page % Depth

Unlocked == -1
ZeroPage == [p \in Parts |-> Zero]
CleanSlot == [data |-> ZeroPage, bytes_committed |-> 0, dirty |-> FALSE, base |-> 0]

VARIABLES
  staging,      \* slot -> page data, bytes_committed, dirty, base_lba
  queue_depth,  \* queue_depth_
  host_bytes,   \* host_bytes_, in parts
  pages_prog,   \* pages_prog_, and flash_bytes_ in pages
  gc_calls,     \* gc_calls_, and blocks_erased_
  cursor,       \* the slot FlushToFTL is at, or Unlocked
  flushed,      \* pages flushed in this call
  flash,        \* page -> what the FTL holds
  pushes,       \* calls of PushWrite, for the bound
  wanted,       \* history: page -> part -> the last value the host pushed
  spoiled       \* history: page -> parts whose last value the code has not kept

counters == <<host_bytes, pages_prog, gc_calls>>
vars == <<staging, queue_depth, counters, cursor, flushed, flash, pushes, wanted, spoiled>>

Init ==
  /\ staging = [s \in Slots |-> CleanSlot]
  /\ queue_depth = 0
  /\ host_bytes = 0
  /\ pages_prog = 0
  /\ gc_calls = 0
  /\ cursor = Unlocked
  /\ flushed = 0
  /\ flash = [page \in FlashPages |-> ZeroPage]
  /\ pushes = 0
  /\ wanted = [page \in FlashPages |-> ZeroPage]
  /\ spoiled = [page \in FlashPages |-> {}]

\* A slot that becomes dirty is counted; one that is dirty already is not.
DepthAfterPushAlways(s) == queue_depth + 1
DepthAfterPush(s) == IF staging[s].dirty THEN queue_depth ELSE queue_depth + 1

Aliased(page) == staging[SlotOf(page)].dirty /\ staging[SlotOf(page)].base # page

\* The page number a slot writes back to: set when it becomes dirty.
BaseNeverMoved(s, page) == staging[s].base
BaseAfterPush(s, page) == IF staging[s].dirty THEN staging[s].base ELSE page

\* The parts of page q that a write of "size" parts from part "first" of a
\* page is meant for: a write may reach into the next page.
Asked(page, first, size, q) ==
  {p \in Parts : \/ q = page /\ p \in first .. first + size - 1
                 \/ q = page + 1 /\ p + PageParts \in first .. first + size - 1}

\* What the code does not guard against: a write to a slot that is dirty with
\* another page spoils the same parts of both pages, and what lies beyond the
\* page boundary is dropped.  A part is mended when it is written again.
SpoiledByPush(page, first, size, q) ==
  LET asked == Asked(page, first, size, page) IN
  (spoiled[q] \ Asked(page, first, size, q))
    \cup (IF Aliased(page) /\ q \in {page, staging[SlotOf(page)].base} THEN asked ELSE {})
    \cup (IF q = page THEN {} ELSE Asked(page, first, size, q))

\* PushWrite of "size" parts from part "first" of a page; what lies beyond
\* the page boundary is dropped, and the call still returns true.
PushWrite(page, first, size, value) ==
  LET s == SlotOf(page)
      toCopy == Min({size, PageParts - first})
      Put(data) == [p \in Parts |-> IF p \in first .. first + toCopy - 1 THEN value ELSE data[p]]
  IN  /\ cursor = Unlocked
      /\ pushes < MaxPushes
      /\ pushes' = pushes + 1
      /\ staging' = [staging EXCEPT ![s] =
           [data |-> Put(@.data),
            bytes_committed |-> Min({@.bytes_committed + toCopy, PageParts}),
            dirty |-> TRUE,
            base |-> BaseAfterPush(s, page)]]
      /\ queue_depth' = DepthAfterPush(s)
      /\ host_bytes' = host_bytes + toCopy
      /\ wanted' = [q \in FlashPages |-> [p \in Parts |->
           IF p \in Asked(page, first, size, q) THEN value ELSE wanted[q][p]]]
      /\ spoiled' = [q \in FlashPages |-> SpoiledByPush(page, first, size, q)]
      /\ UNCHANGED <<pages_prog, gc_calls, cursor, flushed, flash>>

\* FlushToFTL takes the lock.
FlushBegin ==
  /\ cursor = Unlocked
  /\ cursor' = 0
  /\ flushed' = 0
  /\ UNCHANGED <<staging, queue_depth, counters, flash, pushes, wanted, spoiled>>

FlushGoesOn == cursor \in Slots /\ flushed < MaxPages

FlushSkip ==
  /\ FlushGoesOn
  /\ ~ staging[cursor].dirty
  /\ cursor' = cursor + 1
  /\ UNCHANGED <<staging, queue_depth, counters, flushed, flash, pushes, wanted, spoiled>>

\* What a flush spoils: the parts in flash that the zeros of a page staged in
\* part are written over, or the parts staged, when the FTL refuses the page.
SpoiledByFlush(pg, ok) ==
  IF ok THEN {p \in Parts : pg.data[p] = Zero /\ flash[pg.base][p] # Zero}
        ELSE {p \in Parts : pg.data[p] # Zero}

\* One dirty slot: the whole page goes to the FTL, and the slot is cleared
\* whether the FTL took it or not.
FlushPage(ok) ==
  LET pg == staging[cursor]
  IN  /\ FlushGoesOn
      /\ pg.dirty
      /\ IF ok
         THEN flash' = [flash EXCEPT ![pg.base] = pg.data] /\ pages_prog' = pages_prog + 1
         ELSE UNCHANGED <<flash, pages_prog>>
      /\ staging' = [staging EXCEPT ![cursor] = CleanSlot]
      /\ queue_depth' = queue_depth - 1
      /\ flushed' = flushed + 1
      /\ cursor' = cursor + 1
      /\ spoiled' = [spoiled EXCEPT ![pg.base] = @ \cup SpoiledByFlush(pg, ok)]
      /\ UNCHANGED <<host_bytes, gc_calls, pushes, wanted>>

\* After the loop: a collection is counted when WAF > 1.5; unlock.
FlushEnd ==
  /\ cursor # Unlocked
  /\ ~ FlushGoesOn
  /\ gc_calls' = IF flushed > 0 /\ 2 * pages_prog * PageParts > 3 * host_bytes /\ host_bytes > 0
                 THEN gc_calls + 1 ELSE gc_calls
  /\ cursor' = Unlocked
  /\ flushed' = 0
  /\ UNCHANGED <<staging, queue_depth, host_bytes, pages_prog, flash, pushes, wanted, spoiled>>

\* Everything staged is dropped, on purpose.
Reset ==
  /\ cursor = Unlocked
  /\ staging' = [s \in Slots |-> CleanSlot]
  /\ queue_depth' = 0
  /\ host_bytes' = 0
  /\ pages_prog' = 0
  /\ gc_calls' = 0
  /\ wanted' = flash
  /\ spoiled' = [page \in FlashPages |-> {}]
  /\ UNCHANGED <<cursor, flushed, flash, pushes>>

Flush == FlushBegin \/ FlushSkip \/ (\E ok \in BOOLEAN : FlushPage(ok)) \/ FlushEnd

Next ==
  \/ \E page \in FlashPages, first \in Parts, size \in 1 .. PageParts, value \in Values :
       PushWrite(page, first, size, value)
  \/ Flush
  \/ Reset

Spec == Init /\ [][Next]_vars

(***************************************************************************)
(* Properties.                                                             *)
(***************************************************************************)

TypeOK ==
  /\ staging \in [Slots -> [data : [Parts -> Values \cup {Zero}],
                            bytes_committed : 0 .. PageParts,
                            dirty : BOOLEAN, base : FlashPages \cup {0}]]
  /\ queue_depth \in Nat
  /\ host_bytes \in Nat /\ pages_prog \in Nat /\ gc_calls \in Nat
  /\ cursor \in Slots \cup {Unlocked, Depth}
  /\ flushed \in 0 .. MaxPages
  /\ flash \in [FlashPages -> [Parts -> Values \cup {Zero}]]
  /\ pushes \in 0 .. MaxPushes
  /\ wanted \in [FlashPages -> [Parts -> Values \cup {Zero}]]
  /\ spoiled \in [FlashPages -> SUBSET Parts]

\* GetQueueDepth, which takes no lock, agrees at every moment with
\* GetPendingPages, which counts the dirty slots under it.
QueueDepthIsPending ==
  /\ TypeOK
  /\ queue_depth = Cardinality({s \in Slots : staging[s].dirty})

\* What a read would find of a page: its staged parts, else the FTL's.
Held(page) ==
  LET pg == staging[SlotOf(page)]
  IN  [p \in Parts |-> IF pg.dirty /\ pg.base = page /\ pg.data[p] # Zero
                       THEN pg.data[p] ELSE flash[page][p]]

\* Every part is held with the last value the host pushed to it, staged under
\* its page or in flash, unless this very part was spoiled since: two pages
\* that meet in a slot, a write across a page boundary, a refused flush and
\* zeros flushed over data each cost the parts they touch and no other part,
\* of these pages or of any other, then or at a later flush.
LastWritesAreHeld ==
  \A page \in FlashPages : \A p \in Parts \ spoiled[page] :
    Held(page)[p] = wanted[page][p]

\* A dirty slot is staged for a page that hashes to it; every other slot is
\* as Reset left it.
SlotsHoldTheirPages ==
  \A s \in Slots : IF staging[s].dirty
                   THEN staging[s].base \in FlashPages /\ SlotOf(staging[s].base) = s
                   ELSE staging[s] = CleanSlot

\* What every step preserves.
IInv == QueueDepthIsPending /\ SlotsHoldTheirPages /\ LastWritesAreHeld
=============================================================================
