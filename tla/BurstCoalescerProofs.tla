------------------------ MODULE BurstCoalescerProofs ------------------------
(***************************************************************************)
(* The staging buffer for every number of slots, page size and set of      *)
(* pages: its depth counts the dirty slots, and every part the host pushed *)
(* is held with its last value, but for the parts that "spoiled" names.    *)
(***************************************************************************)
EXTENDS BurstCoalescer, FiniteSetTheorems, TLAPS

StagedPages == [data : [Parts -> Values \cup {Zero}], bytes_committed : 0 .. PageParts,
                dirty : BOOLEAN, base : FlashPages \cup {0}]

DirtySlots == {s \in Slots : staging[s].dirty}

-----------------------------------------------------------------------------
(* Slots and their number. *)

LEMMA MinOfTwo ==
  ASSUME NEW a \in Int, NEW b \in Int
  PROVE  Min({a, b}) \in {a, b} /\ Min({a, b}) <= a /\ Min({a, b}) <= b
<1>1. \E x \in {a, b} : \A y \in {a, b} : x <= y
  <2>1. CASE a <= b
    BY <2>1
  <2>2. CASE b <= a
    BY <2>2
  <2> QED BY <2>1, <2>2
<1> QED BY <1>1 DEF Min

LEMMA SlotFacts ==
  /\ IsFiniteSet(Slots)
  /\ \A page \in FlashPages : SlotOf(page) \in Slots
<1>1. IsFiniteSet(0 .. Depth - 1)
  BY SizesAssumption, FS_Interval
<1> QED BY <1>1, SizesAssumption, PagesAssumption DEF Slots, SlotOf

LEMMA CleanSlotType ==
  CleanSlot \in StagedPages /\ ZeroPage \in [Parts -> Values \cup {Zero}]
BY SizesAssumption DEF CleanSlot, ZeroPage, StagedPages

LEMMA DirtySlotsFinite ==
  IsFiniteSet(DirtySlots) /\ Cardinality(DirtySlots) \in Nat
BY SlotFacts, FS_Subset, FS_CardinalityType DEF DirtySlots

-----------------------------------------------------------------------------
(* Steps. *)

LEMMA InitEstablishes == Init => IInv
<1> SUFFICES ASSUME Init PROVE IInv
  OBVIOUS
<1>1. TypeOK
  BY CleanSlotType, SizesAssumption DEF Init, TypeOK, StagedPages, Unlocked
<1>2. {s \in Slots : staging[s].dirty} = {}
  BY DEF Init, CleanSlot
<1>3. QueueDepthIsPending
  BY <1>1, <1>2, FS_EmptySet DEF QueueDepthIsPending, Init
<1>4. SlotsHoldTheirPages
  BY DEF Init, SlotsHoldTheirPages, CleanSlot
<1>5. LastWritesAreHeld
  BY SlotFacts DEF Init, LastWritesAreHeld, Held, CleanSlot, ZeroPage
<1> QED BY <1>3, <1>4, <1>5 DEF IInv

LEMMA PushWriteStep ==
  ASSUME IInv, NEW page \in FlashPages, NEW first \in Parts, NEW size \in 1 .. PageParts,
         NEW value \in Values, PushWrite(page, first, size, value)
  PROVE  IInv'
<1> DEFINE s == SlotOf(page)
           toCopy == Min({size, PageParts - first})
           Put(data) == [p \in Parts |-> IF p \in first .. first + toCopy - 1
                                         THEN value ELSE data[p]]
           old == staging[s]
           new == [data |-> Put(old.data),
                   bytes_committed |-> Min({old.bytes_committed + toCopy, PageParts}),
                   dirty |-> TRUE,
                   base |-> BaseAfterPush(s, page)]
<1>1. /\ TypeOK
      /\ queue_depth = Cardinality(DirtySlots)
      /\ SlotsHoldTheirPages
      /\ LastWritesAreHeld
  BY DEF IInv, QueueDepthIsPending, DirtySlots
<1>2. s \in Slots /\ IsFiniteSet(Slots)
  BY SlotFacts
<1>3. old \in StagedPages
  BY <1>1, <1>2 DEF TypeOK, StagedPages
<1>4. toCopy \in 1 .. PageParts /\ toCopy <= size
  <2> DEFINE rest == PageParts - first
  <2>1. /\ size \in 1 .. PageParts /\ size \in Int
        /\ rest \in 1 .. PageParts /\ rest \in Int
    BY SizesAssumption DEF Parts
  <2>2. toCopy = Min({size, rest})
    OBVIOUS
  <2> HIDE DEF toCopy, rest
  <2>3. Min({size, rest}) \in {size, rest} /\ Min({size, rest}) <= size
    BY <2>1, MinOfTwo
  <2> QED BY <2>1, <2>2, <2>3
<1>5. \A data \in [Parts -> Values \cup {Zero}] : Put(data) \in [Parts -> Values \cup {Zero}]
  OBVIOUS
<1>6. new \in StagedPages
  <2>1. new.bytes_committed \in 0 .. PageParts
    <3> DEFINE sum == old.bytes_committed + toCopy
    <3>1. PageParts \in Nat /\ PageParts \in Int /\ sum \in Nat /\ sum \in Int
      BY <1>3, <1>4, SizesAssumption DEF StagedPages
    <3>3. new.bytes_committed = Min({sum, PageParts})
      OBVIOUS
    <3> HIDE DEF sum, new
    <3>2. Min({sum, PageParts}) \in {sum, PageParts} /\ Min({sum, PageParts}) <= PageParts
      BY <3>1, MinOfTwo
    <3> QED BY <3>1, <3>2, <3>3
  <2>2. new.base \in FlashPages \cup {0}
    BY <1>3 DEF StagedPages, BaseAfterPush
  <2> QED BY <2>1, <2>2, <1>3, <1>5 DEF StagedPages
<1>7. /\ staging' = [staging EXCEPT ![s] = new]
      /\ pushes < MaxPushes /\ pushes' = pushes + 1
      /\ queue_depth' = DepthAfterPush(s)
      /\ host_bytes' = host_bytes + toCopy
      /\ wanted' = [q \in FlashPages |-> [p \in Parts |->
           IF p \in Asked(page, first, size, q) THEN value ELSE wanted[q][p]]]
      /\ spoiled' = [q \in FlashPages |-> SpoiledByPush(page, first, size, q)]
      /\ UNCHANGED <<pages_prog, gc_calls, cursor, flushed, flash>>
  BY <1>2 DEF PushWrite
<1>8. \A p \in Parts : p \in Asked(page, first, size, page) <=> p \in first .. first + toCopy - 1
  <2> DEFINE rest == PageParts - first
  <2>1. /\ size \in 1 .. PageParts /\ size \in Int /\ first \in Int
        /\ rest \in 1 .. PageParts /\ rest \in Int
    BY SizesAssumption DEF Parts
  <2>2. toCopy \in {size, rest} /\ toCopy <= size /\ toCopy <= rest
    <3>1. Min({size, rest}) \in {size, rest} /\ Min({size, rest}) <= size /\ Min({size, rest}) <= rest
      <4> HIDE DEF toCopy, rest
      <4> QED BY <2>1, MinOfTwo
    <3> QED BY <3>1
  <2>3. Asked(page, first, size, page) = {p \in Parts : p \in first .. first + size - 1}
    <3>1. page # page + 1
      BY PagesAssumption
    <3> QED BY <3>1 DEF Asked
  <2>4. rest = PageParts - first
    OBVIOUS
  <2> HIDE DEF toCopy, rest
  <2>5. ASSUME NEW p \in Parts
        PROVE  p \in first .. first + size - 1 <=> p \in first .. first + toCopy - 1
    BY <2>1, <2>2, <2>4, SizesAssumption DEF Parts
  <2> QED BY <2>3, <2>5
<1>9. \A q : Asked(page, first, size, q) \subseteq Parts
  BY DEF Asked
<1> HIDE DEF toCopy, new, s
<1>10. TypeOK'
  <2>1. spoiled' \in [FlashPages -> SUBSET Parts]
    BY <1>1, <1>7, <1>9 DEF TypeOK, SpoiledByPush
  <2>2. wanted' \in [FlashPages -> [Parts -> Values \cup {Zero}]]
    BY <1>1, <1>7 DEF TypeOK
  <2> QED BY <2>1, <2>2, <1>1, <1>2, <1>4, <1>6, <1>7, SizesAssumption
      DEF TypeOK, StagedPages, DepthAfterPush
<1>11. queue_depth' = Cardinality(DirtySlots')
  <2>1. DirtySlots' = DirtySlots \cup {s}
    BY <1>1, <1>2, <1>7 DEF DirtySlots, TypeOK, new
  <2>2. s \in DirtySlots <=> staging[s].dirty
    BY <1>2 DEF DirtySlots
  <2> QED BY <2>1, <2>2, <1>1, <1>7, DirtySlotsFinite, FS_AddElement DEF DepthAfterPush
<1>12. SlotsHoldTheirPages'
  BY <1>1, <1>2, <1>7 DEF SlotsHoldTheirPages, TypeOK, BaseAfterPush, new, s
<1>13. LastWritesAreHeld'
  <2> SUFFICES ASSUME NEW pg \in FlashPages, NEW p \in Parts, p \notin spoiled'[pg]
               PROVE  Held(pg)'[p] = wanted'[pg][p]
    BY DEF LastWritesAreHeld
  <2>1. /\ SlotOf(pg) \in Slots
        /\ wanted'[pg][p] = IF p \in Asked(page, first, size, pg) THEN value ELSE wanted[pg][p]
        /\ p \notin SpoiledByPush(page, first, size, pg)
    BY <1>7, SlotFacts
  <2>2. Held(pg)'[p] = IF /\ staging'[SlotOf(pg)].dirty /\ staging'[SlotOf(pg)].base = pg
                          /\ staging'[SlotOf(pg)].data[p] # Zero
                       THEN staging'[SlotOf(pg)].data[p] ELSE flash[pg][p]
    BY <1>7 DEF Held
  <2>3. Held(pg)[p] = IF /\ staging[SlotOf(pg)].dirty /\ staging[SlotOf(pg)].base = pg
                         /\ staging[SlotOf(pg)].data[p] # Zero
                      THEN staging[SlotOf(pg)].data[p] ELSE flash[pg][p]
    BY DEF Held
  <2>4. p \notin spoiled[pg] => Held(pg)[p] = wanted[pg][p]
    BY <1>1 DEF LastWritesAreHeld
  <2>5. staging'[s] = new /\ \A t \in Slots : t # s => staging'[t] = staging[t]
    BY <1>1, <1>2, <1>7 DEF TypeOK
  <2>6. /\ new.dirty /\ new.base = (IF old.dirty THEN old.base ELSE page)
        /\ new.data[p] = IF p \in Asked(page, first, size, page) THEN value ELSE old.data[p]
    BY <1>8 DEF new, BaseAfterPush
  <2>7. ~ old.dirty => old.data[p] = Zero
    BY <1>1, <1>2 DEF SlotsHoldTheirPages, CleanSlot, ZeroPage
  <2>8. Aliased(page) <=> old.dirty /\ old.base # page
    BY DEF Aliased, s
  <2>9. CASE p \in Asked(page, first, size, page)
    <3>1. CASE pg = page
      <4>1. ~ Aliased(page)
        BY <2>1, <2>9, <3>1 DEF SpoiledByPush
      <4> QED BY <4>1, <3>1, <2>1, <2>2, <2>5, <2>6, <2>8, <2>9, ZeroAssumption DEF s
    <3>2. CASE pg # page
      <4>1. p \notin Asked(page, first, size, pg) /\ p \notin spoiled[pg]
        BY <2>1, <3>2 DEF SpoiledByPush
      <4>2. ~ (Aliased(page) /\ pg = old.base)
        BY <2>1, <2>9 DEF SpoiledByPush, s
      <4>3. CASE SlotOf(pg) = s
        BY <4>1, <4>2, <4>3, <3>2, <2>1, <2>2, <2>3, <2>4, <2>5, <2>6, <2>8
      <4>4. CASE SlotOf(pg) # s
        BY <4>1, <4>4, <2>1, <2>2, <2>3, <2>4, <2>5
      <4> QED BY <4>3, <4>4
    <3> QED BY <3>1, <3>2
  <2>10. CASE p \notin Asked(page, first, size, page)
    <3>1. p \notin Asked(page, first, size, pg) /\ p \notin spoiled[pg]
      BY <2>1, <2>10 DEF SpoiledByPush
    <3>2. CASE SlotOf(pg) = s
      BY <3>1, <3>2, <2>1, <2>2, <2>3, <2>4, <2>5, <2>6, <2>7, <2>10
    <3>3. CASE SlotOf(pg) # s
      BY <3>1, <3>3, <2>1, <2>2, <2>3, <2>4, <2>5
    <3> QED BY <3>2, <3>3
  <2> QED BY <2>9, <2>10
<1> QED BY <1>10, <1>11, <1>12, <1>13 DEF IInv, QueueDepthIsPending, DirtySlots

LEMMA FlushPageStep ==
  ASSUME IInv, NEW ok \in BOOLEAN, FlushPage(ok)
  PROVE  IInv'
<1> DEFINE s == cursor
           pg == staging[cursor]
<1>1. /\ TypeOK
      /\ queue_depth = Cardinality(DirtySlots)
      /\ SlotsHoldTheirPages
      /\ LastWritesAreHeld
  BY DEF IInv, QueueDepthIsPending, DirtySlots
<1>2. /\ s \in Slots /\ flushed < MaxPages
      /\ pg \in StagedPages /\ pg.dirty
      /\ pg.base \in FlashPages /\ SlotOf(pg.base) = s
  BY <1>1 DEF FlushPage, FlushGoesOn, TypeOK, StagedPages, SlotsHoldTheirPages
<1>3. /\ staging' = [staging EXCEPT ![s] = CleanSlot]
      /\ queue_depth' = queue_depth - 1
      /\ flushed' = flushed + 1
      /\ cursor' = cursor + 1
      /\ UNCHANGED <<host_bytes, gc_calls, pushes, wanted>>
  BY DEF FlushPage
<1>4. /\ IF ok
         THEN flash' = [flash EXCEPT ![pg.base] = pg.data] /\ pages_prog' = pages_prog + 1
         ELSE UNCHANGED <<flash, pages_prog>>
      /\ spoiled' = [spoiled EXCEPT ![pg.base] = spoiled[pg.base] \cup SpoiledByFlush(pg, ok)]
  BY <1>1, <1>2 DEF FlushPage, TypeOK
<1>5. s \in DirtySlots /\ DirtySlots' = DirtySlots \ {s}
  BY <1>1, <1>2, <1>3 DEF DirtySlots, TypeOK, CleanSlot
<1>6. Cardinality(DirtySlots') = Cardinality(DirtySlots) - 1 /\ Cardinality(DirtySlots') \in Nat
  <2>1. Cardinality(DirtySlots \ {s}) = Cardinality(DirtySlots) - 1 /\ IsFiniteSet(DirtySlots \ {s})
    BY <1>5, DirtySlotsFinite, FS_RemoveElement
  <2> QED BY <2>1, <1>5, FS_CardinalityType
<1>7. TypeOK'
  <2>1. cursor' \in Slots \cup {Unlocked, Depth} /\ flushed' \in 0 .. MaxPages
    BY <1>1, <1>2, <1>3, SizesAssumption DEF TypeOK, Slots
  <2>2. queue_depth' \in Nat
    BY <1>1, <1>3, <1>6
  <2>3. staging' \in [Slots -> StagedPages]
    BY <1>1, <1>3, CleanSlotType DEF TypeOK, StagedPages
  <2>4. flash' \in [FlashPages -> [Parts -> Values \cup {Zero}]]
    BY <1>1, <1>2, <1>4 DEF TypeOK, StagedPages
  <2>5. pages_prog' \in Nat
    <3>1. pages_prog' = pages_prog + 1 \/ pages_prog' = pages_prog
      BY <1>4, Zenon
    <3> QED BY <3>1, <1>1 DEF TypeOK
  <2>6. spoiled' \in [FlashPages -> SUBSET Parts]
    <3>1. SpoiledByFlush(pg, ok) \subseteq Parts
      BY DEF SpoiledByFlush
    <3> QED BY <3>1, <1>1, <1>4 DEF TypeOK
  <2> QED BY <2>1, <2>2, <2>3, <2>4, <2>5, <2>6, <1>1, <1>3 DEF TypeOK, StagedPages
<1>8. SlotsHoldTheirPages'
  BY <1>1, <1>2, <1>3 DEF SlotsHoldTheirPages, TypeOK, CleanSlot
<1>9. LastWritesAreHeld'
  <2> SUFFICES ASSUME NEW page \in FlashPages, NEW p \in Parts, p \notin spoiled'[page]
               PROVE  Held(page)'[p] = wanted[page][p]
    BY <1>3 DEF LastWritesAreHeld
  <2>1. /\ SlotOf(page) \in Slots
        /\ p \notin spoiled[page]
        /\ page = pg.base => p \notin SpoiledByFlush(pg, ok)
    BY <1>1, <1>2, <1>4, SlotFacts DEF TypeOK
  <2>2. Held(page)'[p] = IF /\ staging'[SlotOf(page)].dirty /\ staging'[SlotOf(page)].base = page
                            /\ staging'[SlotOf(page)].data[p] # Zero
                         THEN staging'[SlotOf(page)].data[p] ELSE flash'[page][p]
    BY DEF Held
  <2>3. Held(page)[p] = IF /\ staging[SlotOf(page)].dirty /\ staging[SlotOf(page)].base = page
                           /\ staging[SlotOf(page)].data[p] # Zero
                        THEN staging[SlotOf(page)].data[p] ELSE flash[page][p]
    BY DEF Held
  <2>4. Held(page)[p] = wanted[page][p]
    BY <2>1, <1>1 DEF LastWritesAreHeld
  <2>5. ~ staging'[s].dirty /\ \A t \in Slots : t # s => staging'[t] = staging[t]
    BY <1>1, <1>2, <1>3 DEF TypeOK, CleanSlot
  <2>6. CASE page = pg.base
    <3>1. Held(page)'[p] = flash'[page][p]
      BY <2>2, <2>5, <2>6, <1>2
    <3>2. Held(page)[p] = IF pg.data[p] # Zero THEN pg.data[p] ELSE flash[page][p]
      BY <2>3, <2>6, <1>2
    <3>3. CASE ok
      <4>1. flash'[page] = pg.data
        BY <3>3, <2>6, <1>1, <1>4 DEF TypeOK
      <4>2. pg.data[p] # Zero \/ flash[page][p] = Zero
        BY <3>3, <2>1, <2>6 DEF SpoiledByFlush
      <4> QED BY <4>1, <4>2, <3>1, <3>2, <2>4
    <3>4. CASE ~ ok
      <4>1. flash' = flash
        BY <3>4, <1>4
      <4>2. pg.data[p] = Zero
        BY <3>4, <2>1, <2>6 DEF SpoiledByFlush
      <4> QED BY <4>1, <4>2, <3>1, <3>2, <2>4
    <3> QED BY <3>3, <3>4
  <2>7. CASE page # pg.base
    <3>1. flash'[page] = flash[page]
      BY <2>7, <1>1, <1>4 DEF TypeOK
    <3>2. CASE SlotOf(page) = s
      BY <3>1, <3>2, <2>2, <2>3, <2>4, <2>5, <2>7
    <3>3. CASE SlotOf(page) # s
      BY <3>1, <3>3, <2>1, <2>2, <2>3, <2>4, <2>5
    <3> QED BY <3>2, <3>3
  <2> QED BY <2>6, <2>7
<1> QED BY <1>1, <1>3, <1>6, <1>7, <1>8, <1>9 DEF IInv, QueueDepthIsPending, DirtySlots

LEMMA ResetStep ==
  ASSUME IInv, Reset
  PROVE  IInv'
<1>1. TypeOK /\ LastWritesAreHeld
  BY DEF IInv, QueueDepthIsPending
<1>2. TypeOK'
  BY <1>1, CleanSlotType DEF Reset, TypeOK, StagedPages
<1>3. {s \in Slots : staging'[s].dirty} = {}
  BY DEF Reset, CleanSlot
<1>4. QueueDepthIsPending'
  BY <1>2, <1>3, FS_EmptySet DEF QueueDepthIsPending, Reset
<1>5. SlotsHoldTheirPages'
  BY DEF Reset, SlotsHoldTheirPages, CleanSlot
<1>6. LastWritesAreHeld'
  <2> SUFFICES ASSUME NEW page \in FlashPages, NEW p \in Parts
               PROVE  Held(page)'[p] = flash[page][p]
    BY DEF Reset, LastWritesAreHeld
  <2>1. ~ staging'[SlotOf(page)].dirty /\ flash' = flash
    BY SlotFacts DEF Reset, CleanSlot
  <2> QED BY <2>1 DEF Held
<1> QED BY <1>4, <1>5, <1>6 DEF IInv

LEMMA OtherSteps ==
  ASSUME IInv, FlushBegin \/ FlushSkip \/ FlushEnd \/ UNCHANGED vars
  PROVE  IInv'
<1>1. TypeOK
  BY DEF IInv, QueueDepthIsPending
<1>2. UNCHANGED <<staging, queue_depth, flash, wanted, spoiled>>
  BY DEF FlushBegin, FlushSkip, FlushEnd, vars, counters
<1>3. TypeOK'
  <2>1. CASE FlushBegin
    BY <2>1, <1>1, SizesAssumption DEF FlushBegin, TypeOK, counters, Slots
  <2>2. CASE FlushSkip
    <3>1. cursor \in Slots /\ cursor' = cursor + 1
      BY <2>2 DEF FlushSkip, FlushGoesOn
    <3>2. cursor' \in Slots \cup {Depth}
      BY <3>1, SizesAssumption DEF Slots
    <3> QED BY <2>2, <3>2, <1>1 DEF FlushSkip, TypeOK, counters
  <2>3. CASE FlushEnd
    <3>1. gc_calls' \in Nat
      BY <2>3, <1>1 DEF FlushEnd, TypeOK
    <3> QED BY <2>3, <3>1, <1>1, SizesAssumption DEF FlushEnd, TypeOK
  <2>4. CASE UNCHANGED vars
    BY <2>4, <1>1 DEF vars, counters, TypeOK
  <2> QED BY <2>1, <2>2, <2>3, <2>4
<1> QED BY <1>2, <1>3 DEF IInv, QueueDepthIsPending, SlotsHoldTheirPages,
                           LastWritesAreHeld, Held

-----------------------------------------------------------------------------
(* Theorems. *)

\* No call and no step of the loop of FlushToFTL breaks the invariant: the
\* depth counts the dirty slots, these are staged for pages that hash to them,
\* the others are empty, and what was not spoiled is held as pushed last.
THEOREM Invariance == Spec => []IInv
<1>1. Init => IInv
  BY InitEstablishes
<1>2. IInv /\ [Next]_vars => IInv'
  <2> SUFFICES ASSUME IInv, [Next]_vars PROVE IInv'
    OBVIOUS
  <2>1. CASE \E page \in FlashPages, first \in Parts, size \in 1 .. PageParts, value \in Values :
               PushWrite(page, first, size, value)
    BY <2>1, PushWriteStep
  <2>2. CASE Flush
    BY <2>2, FlushPageStep, OtherSteps DEF Flush
  <2>3. CASE Reset
    BY <2>3, ResetStep
  <2>4. CASE UNCHANGED vars
    BY <2>4, OtherSteps
  <2> QED BY <2>1, <2>2, <2>3, <2>4 DEF Next
<1> QED BY <1>1, <1>2, PTL DEF Spec

\* The depth GetQueueDepth reads without the lock is the number of dirty
\* slots GetPendingPages counts under it, between any two steps of a flush.
THEOREM QueueDepthSound == Spec => []QueueDepthIsPending
<1>1. IInv => QueueDepthIsPending
  BY DEF IInv
<1> QED BY <1>1, Invariance, PTL

\* A part of a page has the value the host pushed to it last, staged under
\* its page or in flash, through any pushes, flushes and resets, with four
\* exceptions, each confined to the parts it touches and to the time until
\* these are pushed again: two pages met in a slot, a write went past its
\* page, the FTL refused the page, zeros of a page staged in part were flushed
\* over data.
THEOREM NoOtherLoss == Spec => []LastWritesAreHeld
<1>1. IInv => LastWritesAreHeld
  BY DEF IInv
<1> QED BY <1>1, Invariance, PTL
=============================================================================
