------------------------ MODULE FTJControllerProofs ------------------------
(***************************************************************************)
(* Theorems about the two models of the class FTJController: of its flash  *)
(* translation layer, for every capacity, block size and host, and of its  *)
(* ECC, for every word and every flip (last section).                      *)
(***************************************************************************)
EXTENDS FTJController, SecdedEcc, SequenceTheorems, FiniteSetTheorems, TLAPS

\* The larger and the smaller of two integers.
LEMMA MaxOfTwo ==
  ASSUME NEW a \in Int, NEW b \in Int
  PROVE  /\ Max({a, b}) \in {a, b}
         /\ Max({a, b}) >= a
         /\ Max({a, b}) >= b
<1>1. \E x \in {a, b} : \A y \in {a, b} : x >= y
  <2>1. CASE a >= b
    BY <2>1
  <2>2. CASE b >= a
    BY <2>2
  <2>3. QED
    BY <2>1, <2>2
<1>2. QED
  BY <1>1 DEF Max

LEMMA MinOfTwo ==
  ASSUME NEW a \in Int, NEW b \in Int
  PROVE  /\ Min({a, b}) \in {a, b}
         /\ Min({a, b}) <= a
         /\ Min({a, b}) <= b
<1>1. \E x \in {a, b} : \A y \in {a, b} : x <= y
  <2>1. CASE a >= b
    BY <2>1
  <2>2. CASE b >= a
    BY <2>2
  <2>3. QED
    BY <2>1, <2>2
<1>2. QED
  BY <1>1 DEF Min

\* Division with remainder.
LEMMA Division ==
  ASSUME NEW n \in Nat, NEW d \in Nat \ {0}
  PROVE  /\ n \div d \in Nat
         /\ n % d \in 0 .. d - 1
         /\ n = d * (n \div d) + (n % d)
  OBVIOUS

\* A product bounds its quotient.
LEMMA QuotientBound ==
  ASSUME NEW n \in Nat, NEW d \in Nat \ {0}, NEW k \in Nat, n < k * d
  PROVE  n \div d < k
<1> DEFINE q == n \div d
<1>1. q \in Nat /\ n >= d * q
  BY Division
<1>2. SUFFICES ASSUME q >= k PROVE FALSE
  BY <1>1
<1>3. d * q >= d * k
  BY <1>1, <1>2
<1>4. QED
  BY <1>1, <1>3

LEMMA SizeFacts ==
  /\ NumBlocks \in Nat \ {0}
  /\ Pages \subseteq Nat
  /\ \A p \in Pages : phys_block(p) \in Blocks
  /\ \A b \in Blocks : BlockStart(b) \in Nat /\ BlockEnd(b) \in Nat
  /\ \A b \in Blocks : BlockStart(b) <= BlockEnd(b)
  /\ \A b \in Blocks : BlockEnd(b) <= PageCount
<1>1. PageCount \div PagesPerBlock \in Nat
  BY PageAssumption, Division
<1> DEFINE q == PageCount \div PagesPerBlock
<1>2a. NumBlocks \in {1, q} /\ NumBlocks >= 1 /\ NumBlocks >= q
  <2> HIDE DEF q
  <2>1. 1 \in Int /\ q \in Int
    BY <1>1 DEF q
  <2>2. Max({1, q}) \in {1, q} /\ Max({1, q}) >= 1 /\ Max({1, q}) >= q
    BY <2>1, MaxOfTwo
  <2>3. QED
    BY <2>2 DEF NumBlocks, q
<1>2. NumBlocks \in Nat \ {0} /\ NumBlocks >= PageCount \div PagesPerBlock
  BY <1>1, <1>2a
<1>3. ASSUME NEW p \in Pages PROVE phys_block(p) \in Blocks
  <2>1. p \in Nat /\ p < PageCount
    BY PageAssumption DEF Pages
  <2> DEFINE k == p \div PagesPerBlock
  <2>1a. k \in Nat
    BY <2>1, PageAssumption, Division
  <2>1b. ASSUME k < NumBlocks PROVE phys_block(p) \in Blocks
    <3>1. phys_block(p) = k
      BY DEF phys_block
    <3> HIDE DEF k
    <3>2. QED
      BY <3>1, <2>1a, <2>1b, <1>2 DEF Blocks
  <2>2. CASE PageCount < PagesPerBlock
    <3>1. p < 1 * PagesPerBlock
      BY <2>1, <2>2, PageAssumption
    <3>2. p \div PagesPerBlock < 1
      BY <3>1, <2>1, PageAssumption, QuotientBound
    <3>3. QED
      BY <3>2, <2>1a, <2>1b, <1>2
  <2>3. CASE PageCount % PagesPerBlock = 0
    <3>1. PageCount = PagesPerBlock * (PageCount \div PagesPerBlock)
      BY <2>3, PageAssumption, Division
    <3>2. p < (PageCount \div PagesPerBlock) * PagesPerBlock
      BY <3>1, <2>1, <1>1, PageAssumption
    <3>3. p \div PagesPerBlock < PageCount \div PagesPerBlock
      BY <3>2, <2>1, <1>1, PageAssumption, QuotientBound
    <3>4. QED
      BY <3>3, <2>1a, <2>1b, <1>1, <1>2
  <2>4. QED
    BY <2>2, <2>3, WholeBlocks
<1>4. ASSUME NEW b \in Blocks
      PROVE  /\ BlockStart(b) \in Nat /\ BlockEnd(b) \in Nat
             /\ BlockStart(b) <= BlockEnd(b) /\ BlockEnd(b) <= PageCount
  <2>1. b \in Nat /\ b < NumBlocks
    BY <1>2 DEF Blocks
  <2>2. b * PagesPerBlock \in Nat
    BY <2>1, PageAssumption
  <2>3. b * PagesPerBlock <= PageCount
    <3>1. CASE b = 0
      BY <3>1, PageAssumption
    <3>2. CASE b > 0
      <4>1. NumBlocks = PageCount \div PagesPerBlock
        BY <3>2, <2>1, <1>1, <1>2a, <1>2
      <4>2. PageCount >= PagesPerBlock * (PageCount \div PagesPerBlock)
        BY PageAssumption, Division
      <4>3. PagesPerBlock * b <= PagesPerBlock * NumBlocks
        BY <2>1, <1>2, PageAssumption
      <4>4. QED
        BY <4>1, <4>2, <4>3, <2>1, <1>2, PageAssumption
    <3>3. QED
      BY <3>1, <3>2, <2>1
  <2>4. BlockEnd(b) \in {PageCount, BlockStart(b) + PagesPerBlock}
        /\ BlockEnd(b) <= PageCount
    <3> DEFINE e == BlockStart(b) + PagesPerBlock
    <3>1. e \in Int /\ PageCount \in Int
      BY <2>2, PageAssumption DEF BlockStart
    <3> HIDE DEF e
    <3>2. Min({PageCount, e}) \in {PageCount, e} /\ Min({PageCount, e}) <= PageCount
      BY <3>1, MinOfTwo
    <3>3. QED
      BY <3>2 DEF BlockEnd, e
  <2>5. QED
    BY <2>2, <2>3, <2>4, PageAssumption DEF BlockStart
<1>5. QED
  BY <1>2, <1>3, <1>4, PageAssumption DEF Pages

(***************************************************************************)
(* Allocation.                                                             *)
(***************************************************************************)

\* What popping a list leaves.
LEMMA PopFacts ==
  ASSUME NEW S, NEW s \in Seq(S), s # << >>
  PROVE  /\ Back(s) \in S
         /\ PopBack(s) \in Seq(S)
         /\ Len(PopBack(s)) = Len(s) - 1
         /\ \A i \in 1 .. Len(PopBack(s)) : PopBack(s)[i] = s[i] /\ i \in 1 .. Len(s) /\ i # Len(s)
         /\ Len(s) \in 1 .. Len(s)
<1>1. Len(s) \in Nat \ {0}
  OBVIOUS
<1>2. SubSeq(s, 1, Len(s) - 1) \in Seq(S)
  BY <1>1
<1>3. Len(SubSeq(s, 1, Len(s) - 1)) = Len(s) - 1
  <2>1. \A i \in 1 .. Len(s) - 1 : s[i] \in S
    BY <1>1
  <2> DEFINE n == Len(s) - 1
  <2>2. n \in Nat
    BY <1>1
  <2> HIDE DEF n
  <2>3. Len(SubSeq(s, 1, n)) = IF 1 <= n THEN n - 1 + 1 ELSE 0
    BY <2>1, <2>2, SubSeqProperties, 1 \in Int DEF n
  <2>4. Len(SubSeq(s, 1, n)) = n
    BY <2>2, <2>3
  <2>5. QED
    BY <2>4 DEF n
<1>4. ASSUME NEW i \in 1 .. Len(s) - 1 PROVE SubSeq(s, 1, Len(s) - 1)[i] = s[i]
  BY <1>1
<1>5. QED
  BY <1>1, <1>2, <1>3, <1>4 DEF Back, PopBack

\* Popping keeps two sound lists sound, and the popped page is on neither.
LEMMA PopKeepsListsSound ==
  ASSUME NEW s \in Seq(Pages), NEW t \in Seq(Pages), s # << >>,
         AllDifferent(s), Apart(s, t), NoneValid(s)
  PROVE  /\ ~ phys_valid[Back(s)]
         /\ AllDifferent(PopBack(s))
         /\ Apart(PopBack(s), t)
         /\ NoneValid(PopBack(s))
         /\ \A i \in 1 .. Len(PopBack(s)) : PopBack(s)[i] # Back(s)
         /\ \A i \in 1 .. Len(t) : t[i] # Back(s)
<1>1. /\ Len(s) \in 1 .. Len(s) /\ Back(s) = s[Len(s)]
      /\ \A i \in 1 .. Len(PopBack(s)) :
           PopBack(s)[i] = s[i] /\ i \in 1 .. Len(s) /\ i # Len(s)
  BY PopFacts DEF Back
<1>2. QED
  BY <1>1 DEF AllDifferent, Apart, NoneValid

\* The page allocated comes off its list; on sound lists it holds no data
\* and is on neither list afterwards.
LEMMA AllocationFacts ==
  ASSUME TypeOK, FreeListsSoundUntilDoubleFree, FreePages > 0,
         NEW h \in BOOLEAN, AllocatePhysicalPage(h)
  PROVE  /\ Allocated(h) \in Pages
         /\ free_physical_pages_hot' \in Seq(Pages)
         /\ free_physical_pages_cold' \in Seq(Pages)
         /\ ~ doubleFreed =>
              /\ ~ phys_valid[Allocated(h)]
              /\ AllDifferent(free_physical_pages_hot')
              /\ AllDifferent(free_physical_pages_cold')
              /\ Apart(free_physical_pages_hot', free_physical_pages_cold')
              /\ NoneValid(free_physical_pages_hot')
              /\ NoneValid(free_physical_pages_cold')
              /\ \A i \in 1 .. Len(free_physical_pages_hot') :
                   free_physical_pages_hot'[i] # Allocated(h)
              /\ \A i \in 1 .. Len(free_physical_pages_cold') :
                   free_physical_pages_cold'[i] # Allocated(h)
<1>1. /\ free_physical_pages_hot \in Seq(Pages) /\ free_physical_pages_cold \in Seq(Pages)
      /\ free_physical_pages_hot # << >> \/ free_physical_pages_cold # << >>
  <2>1. free_physical_pages_hot \in Seq(Pages) /\ free_physical_pages_cold \in Seq(Pages)
    BY DEF TypeOK
  <2>2. Len(<< >>) = 0
    OBVIOUS
  <2>3. QED
    BY <2>1, <2>2 DEF FreePages
<1>2. CASE FromHot(h)
  <2>1. /\ free_physical_pages_hot # << >>
        /\ Allocated(h) = Back(free_physical_pages_hot)
        /\ free_physical_pages_hot' = PopBack(free_physical_pages_hot)
        /\ free_physical_pages_cold' = free_physical_pages_cold
    BY <1>1, <1>2 DEF FromHot, Allocated, AllocatePhysicalPage
  <2>2. Allocated(h) \in Pages /\ free_physical_pages_hot' \in Seq(Pages)
    BY <1>1, <2>1, PopFacts
  <2>3. QED
    BY <1>1, <2>1, <2>2, PopKeepsListsSound DEF FreeListsSoundUntilDoubleFree
<1>3. CASE ~ FromHot(h)
  <2>1. /\ free_physical_pages_cold # << >>
        /\ Allocated(h) = Back(free_physical_pages_cold)
        /\ free_physical_pages_cold' = PopBack(free_physical_pages_cold)
        /\ free_physical_pages_hot' = free_physical_pages_hot
    BY <1>1, <1>3 DEF FromHot, Allocated, AllocatePhysicalPage
  <2>2. Allocated(h) \in Pages /\ free_physical_pages_cold' \in Seq(Pages)
    BY <1>1, <2>1, PopFacts
  <2>3. Apart(free_physical_pages_hot, free_physical_pages_cold)
          <=> Apart(free_physical_pages_cold, free_physical_pages_hot)
    BY DEF Apart
  <2>4. Apart(free_physical_pages_hot', free_physical_pages_cold')
          <=> Apart(free_physical_pages_cold', free_physical_pages_hot')
    BY DEF Apart
  <2>5. QED
    BY <1>1, <2>1, <2>2, <2>3, <2>4, PopKeepsListsSound DEF FreeListsSoundUntilDoubleFree
<1>4. QED
  BY <1>2, <1>3

\* The valid counts stay natural numbers.
LEMMA CountsType ==
  ASSUME TypeOK, NEW new \in Pages, NEW old \in Pages \cup {None}
  PROVE  CountsAfter(new, old) \in [Blocks -> Nat]
<1>1. phys_block(new) \in Blocks /\ (old # None => phys_block(old) \in Blocks)
  BY SizeFacts
<1>2. block_valid_count \in [Blocks -> Nat]
  BY DEF TypeOK
<1> DEFINE up == [block_valid_count EXCEPT ![phys_block(new)] = @ + 1]
<1>3. up \in [Blocks -> Nat]
  BY <1>1, <1>2
<1>4. \A n \in Nat : Decrement(n) \in Nat
  BY DEF Decrement
<1>5. CountsAfter(new, old) = IF old = None THEN up
                              ELSE [up EXCEPT ![phys_block(old)] = Decrement(@)]
  BY DEF CountsAfter
<1> HIDE DEF up
<1>6. CASE old = None
  BY <1>3, <1>5, <1>6
<1>7. CASE old # None
  BY <1>1, <1>3, <1>4, <1>5, <1>7
<1>8. QED
  BY <1>6, <1>7

(***************************************************************************)
(* A page of a request.                                                    *)
(***************************************************************************)

\* The logical page a request is at, and the last part it covers there.
LEMMA RequestFacts ==
  ASSUME TypeOK, RequestInside, Unfinished
  PROVE  /\ Lp \in Lbas
         /\ PageLast \in Nat /\ req.next <= PageLast /\ PageLast <= req.last
<1>1. /\ req.next \in Nat /\ req.last \in Int
      /\ req.next <= req.last /\ req.last < PageCount * Granules
  BY DEF TypeOK, RequestInside
<1>2. PageCount \in Nat /\ Granules \in Nat \ {0}
  BY PageAssumption
<1>3. /\ Lp \in Nat /\ (req.next % Granules) \in 0 .. Granules - 1
      /\ req.next = Granules * Lp + (req.next % Granules)
  BY <1>1, <1>2, Division DEF Lp
<1>4. Lp < PageCount
  <2>1. req.next < PageCount * Granules
    BY <1>1, <1>2
  <2>2. QED
    BY <2>1, <1>1, <1>2, QuotientBound DEF Lp
<1>5. Lp * Granules + Granules - 1 \in Int /\ Lp * Granules + Granules - 1 >= req.next
  BY <1>2, <1>3
<1> DEFINE e == Lp * Granules + Granules - 1
<1>6. PageLast \in {req.last, e} /\ PageLast <= req.last
  <2>1. e \in Int
    BY <1>5
  <2> HIDE DEF e
  <2>2. Min({req.last, e}) \in {req.last, e} /\ Min({req.last, e}) <= req.last
    BY <2>1, <1>1, MinOfTwo
  <2>3. QED
    BY <2>2 DEF PageLast, e
<1>7. Lp \in Lbas
  BY <1>2, <1>3, <1>4 DEF Lbas, Pages
<1>8. QED
  <2> HIDE DEF e
  <2>1. e \in Int /\ e >= req.next
    BY <1>5 DEF e
  <2>2. QED
    BY <2>1, <1>1, <1>6, <1>7

\* Placing a page keeps the types, the mappings inverse, the lists sound and
\* the data the host's.
LEMMA PlacePageStep ==
  ASSUME IInv, pc \in {"page", "retry"}, FreePages > 0,
         NEW h \in BOOLEAN, PlacePage(h),
         lba_hot_counters' \in [Lbas -> Nat], UNCHANGED <<gc, writes, doubleFreed>>
  PROVE  IInv'
<1> DEFINE new == Allocated(h)
           old == l2p_map[Lp]
<1>1. TypeOK /\ RequestInside /\ OwnersMapBack /\ FreeListsSoundUntilDoubleFree
      /\ MappedUntilDoubleFree
  BY DEF IInv
<1>2. Lp \in Lbas /\ PageLast \in Nat /\ req.next <= PageLast /\ PageLast <= req.last
  BY <1>1, RequestFacts DEF Unfinished
<1>3. AllocatePhysicalPage(h)
  BY DEF PlacePage
<1>4. new \in Pages
  BY <1>1, <1>3, AllocationFacts
<1>5. old \in Pages \cup {None} /\ None \notin Pages /\ None \notin Lbas
  BY <1>1, <1>2, SizeFacts DEF TypeOK, None, Lbas
<1>6. \A old_data \in [Parts -> Values \cup {Zero}] :
        Overlay(old_data) \in [Parts -> Values \cup {Zero}]
  BY <1>1 DEF Overlay, TypeOK
<1>7. Base(old) \in [Parts -> Values \cup {Zero}]
  BY <1>1, <1>5 DEF Base, TypeOK, ZeroPage
<1>8. /\ l2p_map' = [l2p_map EXCEPT ![Lp] = new]
      /\ phys_valid' = Invalidated([phys_valid EXCEPT ![new] = TRUE], old, FALSE)
      /\ phys_owner_lba' = Invalidated([phys_owner_lba EXCEPT ![new] = Lp], old, None)
      /\ memory_buffer' = [memory_buffer EXCEPT ![new] = Overlay(Base(old))]
      /\ written' = [written EXCEPT ![Lp] = Overlay(written[Lp])]
      /\ block_valid_count' = CountsAfter(new, old)
      /\ req' = [req EXCEPT !.next = PageLast + 1]
      /\ pc' = IF PageLast = req.last THEN "finish" ELSE "page"
  BY <1>1, <1>2 DEF PlacePage, TypeOK
<1>9. TypeOK'
  <2>1. l2p_map' \in [Lbas -> Pages \cup {None}]
    BY <1>1, <1>4, <1>8 DEF TypeOK
  <2>2. phys_valid' \in [Pages -> BOOLEAN]
    BY <1>1, <1>8 DEF TypeOK, Invalidated
  <2>3. phys_owner_lba' \in [Pages -> Lbas \cup {None}]
    BY <1>1, <1>2, <1>8 DEF TypeOK, Invalidated
  <2>4. block_valid_count' \in [Blocks -> Nat]
    BY <1>1, <1>4, <1>5, <1>8, CountsType
  <2>5. /\ free_physical_pages_hot' \in Seq(Pages)
        /\ free_physical_pages_cold' \in Seq(Pages)
    BY <1>1, <1>3, AllocationFacts
  <2>6. memory_buffer' \in [Pages -> [Parts -> Values \cup {Zero}]]
    BY <1>1, <1>6, <1>7, <1>8 DEF TypeOK
  <2>7. written' \in [Lbas -> [Parts -> Values \cup {Zero}]]
    BY <1>1, <1>2, <1>6, <1>8 DEF TypeOK
  <2>8. req' \in [next : Nat, last : Int, value : Values \cup {Zero}]
    <3>1. req \in [next : Nat, last : Int, value : Values \cup {Zero}]
      BY <1>1 DEF TypeOK
    <3>2. PageLast + 1 \in Nat /\ req' = [req EXCEPT !.next = PageLast + 1]
      BY <1>2, <1>8
    <3> HIDE DEF new, old
    <3>3. QED
      BY <3>1, <3>2
  <2>9. pc' \in {"idle", "page", "retry", "finish", "gc", "move", "erase"}
    BY <1>8
  <2>10. QED
    BY <1>1, <2>1, <2>2, <2>3, <2>4, <2>5, <2>6, <2>7, <2>8, <2>9 DEF TypeOK
<1>10. RequestInside'
  BY <1>1, <1>2, <1>8 DEF RequestInside, Unfinished, TypeOK
<1>11. CursorInBlock'
  BY <1>8 DEF CursorInBlock
<1>12. ASSUME NEW p \in Pages
       PROVE  /\ phys_valid'[p] <=> (p # old /\ (p = new \/ phys_valid[p]))
              /\ phys_owner_lba'[p] =
                   IF p = old THEN None ELSE IF p = new THEN Lp ELSE phys_owner_lba[p]
  BY <1>1, <1>4, <1>5, <1>8 DEF TypeOK, Invalidated
<1>13. \A l \in Lbas : l2p_map'[l] = IF l = Lp THEN new ELSE l2p_map[l]
  BY <1>1, <1>8 DEF TypeOK
<1>14. OwnersMapBack'
  <2>1. phys_owner_lba \in [Pages -> Lbas \cup {None}]
    BY <1>1 DEF TypeOK
  <2> HIDE DEF new
  <2> SUFFICES ASSUME NEW p \in Pages
               PROVE  /\ phys_valid'[p] <=> phys_owner_lba'[p] # None
                      /\ phys_valid'[p] => l2p_map'[phys_owner_lba'[p]] = p
    BY DEF OwnersMapBack
  <2>2. /\ phys_valid[p] <=> phys_owner_lba[p] # None
        /\ phys_valid[p] => l2p_map[phys_owner_lba[p]] = p
    BY <1>1 DEF OwnersMapBack
  <2>3. CASE p = old
    BY <1>12, <2>3
  <2>4. CASE p # old /\ p = new
    BY <1>2, <1>5, <1>12, <1>13, <2>4
  <2>5. CASE p # old /\ p # new
    <3>1. (phys_valid'[p] <=> phys_valid[p]) /\ phys_owner_lba'[p] = phys_owner_lba[p]
      BY <1>12, <2>5
    <3>2. CASE phys_valid[p]
      <4>1. phys_owner_lba[p] \in Lbas /\ phys_owner_lba[p] # Lp
        BY <2>1, <2>2, <2>5, <3>2
      <4>2. QED
        BY <1>13, <2>2, <3>1, <4>1
    <3>3. CASE ~ phys_valid[p]
      BY <2>2, <3>1, <3>3
    <3>4. QED
      BY <3>2, <3>3
  <2>6. QED
    BY <2>3, <2>4, <2>5
<1>15. ASSUME ~ doubleFreed
       PROVE  ~ phys_valid[new]
  BY <1>1, <1>3, <1>15, AllocationFacts
<1>16. FreeListsSoundUntilDoubleFree'
  <2>1. ~ doubleFreed =>
           /\ AllDifferent(free_physical_pages_hot')
           /\ AllDifferent(free_physical_pages_cold')
           /\ Apart(free_physical_pages_hot', free_physical_pages_cold')
           /\ NoneValid(free_physical_pages_hot')
           /\ NoneValid(free_physical_pages_cold')
           /\ \A i \in 1 .. Len(free_physical_pages_hot') :
                free_physical_pages_hot'[i] # new
           /\ \A i \in 1 .. Len(free_physical_pages_cold') :
                free_physical_pages_cold'[i] # new
    BY <1>1, <1>3, AllocationFacts
  <2>2. /\ free_physical_pages_hot' \in Seq(Pages)
        /\ free_physical_pages_cold' \in Seq(Pages)
    BY <1>9 DEF TypeOK
  <2> HIDE DEF new, old
  <2>3. ASSUME ~ doubleFreed, NEW i \in 1 .. Len(free_physical_pages_hot')
        PROVE  ~ phys_valid'[free_physical_pages_hot'[i]]
    <3> DEFINE q == free_physical_pages_hot'[i]
    <3>1. q \in Pages
      BY <2>2
    <3>2. ~ phys_valid[q] /\ q # new
      BY <2>1, <2>3 DEF NoneValid
    <3>3. QED
      BY <1>12, <3>1, <3>2
  <2>4. ASSUME ~ doubleFreed, NEW i \in 1 .. Len(free_physical_pages_cold')
        PROVE  ~ phys_valid'[free_physical_pages_cold'[i]]
    <3> DEFINE q == free_physical_pages_cold'[i]
    <3>1. q \in Pages
      BY <2>2
    <3>2. ~ phys_valid[q] /\ q # new
      BY <2>1, <2>4 DEF NoneValid
    <3>3. QED
      BY <1>12, <3>1, <3>2
  <2>5. QED
    BY <2>1, <2>3, <2>4 DEF FreeListsSoundUntilDoubleFree, AllDifferent, Apart, NoneValid
<1>17. MappedUntilDoubleFree'
  <2> SUFFICES ASSUME ~ doubleFreed, NEW l \in Lbas
               PROVE  IF l2p_map'[l] = None THEN written'[l] = ZeroPage
                      ELSE /\ phys_owner_lba'[l2p_map'[l]] = l
                           /\ memory_buffer'[l2p_map'[l]] = written'[l]
    BY DEF MappedUntilDoubleFree
  <2>1. IF l2p_map[l] = None THEN written[l] = ZeroPage
        ELSE phys_owner_lba[l2p_map[l]] = l /\ memory_buffer[l2p_map[l]] = written[l]
    BY <1>1 DEF MappedUntilDoubleFree
  <2>2. IF old = None THEN written[Lp] = ZeroPage
        ELSE phys_owner_lba[old] = Lp /\ memory_buffer[old] = written[Lp]
    BY <1>1, <1>2 DEF MappedUntilDoubleFree
  <2>3. new # old
    BY <1>1, <1>2, <1>4, <1>5, <1>15, <2>2 DEF OwnersMapBack
  <2>4. CASE l = Lp
    <3>1. Base(old) = written[Lp]
      BY <2>2 DEF Base
    <3>2. memory_buffer'[new] = Overlay(written[Lp]) /\ written'[Lp] = Overlay(written[Lp])
      BY <1>1, <1>2, <1>4, <1>8, <3>1 DEF TypeOK
    <3>3. phys_owner_lba'[new] = Lp
      BY <1>4, <1>12, <2>3
    <3>4. QED
      BY <1>2, <1>4, <1>5, <1>13, <2>4, <3>2, <3>3
  <2>5. CASE l # Lp
    <3>1. written'[l] = written[l] /\ l2p_map'[l] = l2p_map[l]
      BY <1>1, <1>8, <1>13, <2>5 DEF TypeOK
    <3>2. CASE l2p_map[l] = None
      BY <2>1, <3>1, <3>2
    <3>3. CASE l2p_map[l] # None
      <4> DEFINE p == l2p_map[l]
      <4>1. p \in Pages /\ phys_owner_lba[p] = l /\ memory_buffer[p] = written[l]
        BY <1>1, <2>1, <3>3 DEF TypeOK
      <4>2. phys_valid[p]
        BY <1>1, <1>5, <4>1 DEF OwnersMapBack
      <4>3. p # new
        BY <1>15, <4>2
      <4>4. p # old
        BY <1>5, <2>2, <2>5, <4>1
      <4>5. memory_buffer'[p] = memory_buffer[p] /\ phys_owner_lba'[p] = l
        BY <1>1, <1>8, <1>12, <4>1, <4>3, <4>4 DEF TypeOK
      <4>6. QED
        BY <3>1, <3>3, <4>1, <4>5
    <3>4. QED
      BY <3>2, <3>3
  <2>6. QED
    BY <2>4, <2>5
<1>18. QED
  BY <1>9, <1>10, <1>11, <1>14, <1>16, <1>17 DEF IInv

(***************************************************************************)
(* The other steps of a write, which touch neither mapping nor lists.      *)
(***************************************************************************)

\* A request enters at its first part, inside the capacity.
LEMMA WriteStarts ==
  ASSUME IInv, NEW r \in HostRequests, Write(r)
  PROVE  IInv'
<1>1. TypeOK
  BY DEF IInv
<1>2. /\ r \in [first : Nat, last : Int, value : Values]
      /\ r.last < PageCount * Granules
  BY HostAssumption
<1>3. TypeOK'
  BY <1>1, <1>2, PageAssumption DEF TypeOK, Write, mapping, lists
<1>4. RequestInside' /\ CursorInBlock'
  BY <1>2 DEF Write, RequestInside, CursorInBlock, Unfinished
<1>5. OwnersMapBack' /\ FreeListsSoundUntilDoubleFree' /\ MappedUntilDoubleFree'
  BY DEF IInv, Write, mapping, lists, OwnersMapBack, FreeListsSoundUntilDoubleFree,
         AllDifferent, Apart, NoneValid, MappedUntilDoubleFree
<1>6. QED
  BY <1>3, <1>4, <1>5 DEF IInv

\* Counting an access keeps the counters natural numbers.
LEMMA CountAccessType ==
  ASSUME IInv, Unfinished, CountAccess
  PROVE  lba_hot_counters' \in [Lbas -> Nat]
<1>1. Lp \in Lbas
  BY RequestFacts DEF IInv
<1>2. QED
  BY <1>1 DEF IInv, TypeOK, CountAccess

LEMMA WriteStepKeeps ==
  ASSUME IInv, WriteStep
  PROVE  IInv'
<1>1. CASE WritePage
  <2>1. lba_hot_counters' \in [Lbas -> Nat]
    BY <1>1, CountAccessType DEF WritePage, Unfinished
  <2>2. IsHot(lba_hot_counters') \in BOOLEAN
    BY DEF IsHot
  <2>3. QED
    BY <1>1, <2>1, <2>2, PlacePageStep DEF WritePage
<1>2. CASE WriteNeedsGC
  <2>1. lba_hot_counters' \in [Lbas -> Nat]
    BY <1>2, CountAccessType DEF WriteNeedsGC, Unfinished
  <2>2. TypeOK'
    BY <1>2, <2>1 DEF WriteNeedsGC, IInv, TypeOK, mapping, lists
  <2>3. RequestInside' /\ CursorInBlock'
    BY <1>2 DEF WriteNeedsGC, IInv, RequestInside, CursorInBlock, Unfinished
  <2>4. OwnersMapBack' /\ FreeListsSoundUntilDoubleFree' /\ MappedUntilDoubleFree'
    BY <1>2 DEF IInv, WriteNeedsGC, mapping, lists, OwnersMapBack,
           FreeListsSoundUntilDoubleFree, AllDifferent, Apart, NoneValid, MappedUntilDoubleFree
  <2>5. QED
    BY <2>2, <2>3, <2>4 DEF IInv
<1>3. CASE RetryPage
  <2>1. lba_hot_counters' \in [Lbas -> Nat]
    BY <1>3 DEF RetryPage, IInv, TypeOK
  <2>2. IsHot(lba_hot_counters) \in BOOLEAN
    BY DEF IsHot
  <2>3. QED
    BY <1>3, <2>1, <2>2, PlacePageStep DEF RetryPage
<1>4. CASE OutOfSpace
  <2>1. TypeOK'
    BY <1>4 DEF OutOfSpace, IInv, TypeOK, mapping, lists, NoRequest
  <2>2. RequestInside' /\ CursorInBlock'
    BY <1>4 DEF OutOfSpace, RequestInside, CursorInBlock, Unfinished
  <2>3. OwnersMapBack' /\ FreeListsSoundUntilDoubleFree' /\ MappedUntilDoubleFree'
    BY <1>4 DEF IInv, OutOfSpace, mapping, lists, OwnersMapBack,
           FreeListsSoundUntilDoubleFree, AllDifferent, Apart, NoneValid, MappedUntilDoubleFree
  <2>4. QED
    BY <2>1, <2>2, <2>3 DEF IInv
<1>5. CASE FinishWrite
  <2>1. TypeOK'
    <3>1. TypeOK
      BY DEF IInv
    <3>2. req' \in [next : Nat, last : Int, value : Values \cup {Zero}]
      BY <1>5 DEF FinishWrite, NoRequest
    <3>3. gc' \in [candidate : Blocks, cursor : Nat, initial : Nat, return : {"idle", "retry"}]
      BY <1>5, <3>1 DEF FinishWrite, TypeOK
    <3>4. pc' \in {"idle", "gc"}
      BY <1>5 DEF FinishWrite
    <3>5. QED
      BY <1>5, <3>1, <3>2, <3>3, <3>4 DEF FinishWrite, TypeOK, mapping, lists
  <2>2. RequestInside' /\ CursorInBlock'
    BY <1>5 DEF FinishWrite, RequestInside, CursorInBlock, Unfinished, IInv, TypeOK
  <2>3. OwnersMapBack' /\ FreeListsSoundUntilDoubleFree' /\ MappedUntilDoubleFree'
    BY <1>5 DEF IInv, FinishWrite, mapping, lists, OwnersMapBack,
           FreeListsSoundUntilDoubleFree, AllDifferent, Apart, NoneValid, MappedUntilDoubleFree
  <2>4. QED
    BY <2>1, <2>2, <2>3 DEF IInv
<1>6. QED
  BY <1>1, <1>2, <1>3, <1>4, <1>5 DEF WriteStep

(***************************************************************************)
(* Garbage collection.                                                     *)
(***************************************************************************)

\* The cursor stepped by one.
LEMMA CursorSteps ==
  ASSUME NEW g \in [candidate : Blocks, cursor : Nat, initial : Nat, return : {"idle", "retry"}],
         NEW n \in Nat
  PROVE  /\ [g EXCEPT !.cursor = n] \in
              [candidate : Blocks, cursor : Nat, initial : Nat, return : {"idle", "retry"}]
         /\ [g EXCEPT !.cursor = n].candidate = g.candidate
         /\ [g EXCEPT !.cursor = n].cursor = n
         /\ [g EXCEPT !.cursor = n].return = g.return
  OBVIOUS

\* The steps that only move the cursor, or enter and leave the loop.
LEMMA GcControlStep ==
  ASSUME IInv, GcStart \/ GcSkip \/ GcMovesDone \/ GcKeep
  PROVE  IInv'
<1>1. TypeOK /\ RequestInside /\ CursorInBlock
  BY DEF IInv
<1>2. UNCHANGED <<mapping, lists, lba_hot_counters, req, writes, written, doubleFreed>>
  BY DEF GcStart, GcSkip, GcMovesDone, GcKeep
<1>3. FreePages \in Nat
  BY <1>1 DEF TypeOK, FreePages
<1>4. /\ gc' \in [candidate : Blocks, cursor : Nat, initial : Nat, return : {"idle", "retry"}]
      /\ pc' \in {"idle", "page", "retry", "finish", "gc", "move", "erase"}
      /\ Unfinished' => Unfinished
      /\ CursorInBlock'
  <2>1. CASE GcStart
    <3>1. CASE FreePages < gc_target_free
      <4>1. PICK b \in Blocks :
              gc' = [gc EXCEPT !.candidate = b, !.cursor = BlockStart(b), !.initial = FreePages]
        BY <2>1, <3>1 DEF GcStart
      <4>2. pc = "gc" /\ pc' = "move"
        BY <2>1, <3>1 DEF GcStart
      <4>3. BlockStart(b) \in Nat /\ BlockStart(b) <= BlockEnd(b)
        BY SizeFacts
      <4>4. /\ gc' \in [candidate : Blocks, cursor : Nat, initial : Nat, return : {"idle", "retry"}]
            /\ gc'.candidate = b /\ gc'.cursor = BlockStart(b) /\ gc'.return = gc.return
        BY <1>1, <1>3, <4>1, <4>3 DEF TypeOK
      <4>5. QED
        BY <4>2, <4>3, <4>4 DEF Unfinished, CursorInBlock
    <3>2. CASE ~ (FreePages < gc_target_free)
      <4>1. pc = "gc" /\ pc' = gc.return /\ gc' = NoGC
        BY <2>1, <3>2 DEF GcStart
      <4>2. 0 \in Blocks
        BY SizeFacts DEF Blocks
      <4>3. gc.return \in {"idle", "retry"}
        BY <1>1 DEF TypeOK
      <4>4. /\ gc' \in [candidate : Blocks, cursor : Nat, initial : Nat, return : {"idle", "retry"}]
            /\ CursorInBlock'
        BY <4>1, <4>2, <4>3 DEF NoGC, CursorInBlock
      <4>5. Unfinished' => Unfinished
        BY <4>1, <4>3 DEF Unfinished
      <4>6. QED
        BY <4>1, <4>3, <4>4, <4>5
    <3>3. QED
      BY <3>1, <3>2
  <2>2. CASE GcSkip \/ GcKeep
    <3>1. /\ pc \in {"move", "erase"} /\ pc' = pc
          /\ gc.cursor < BlockEnd(gc.candidate) /\ gc' = [gc EXCEPT !.cursor = gc.cursor + 1]
      BY <2>2, <1>1 DEF GcSkip, GcKeep, Advance, TypeOK
    <3>2. gc.candidate \in Blocks /\ gc.cursor \in Nat
      BY <1>1 DEF TypeOK
    <3>3. BlockStart(gc.candidate) \in Nat /\ BlockEnd(gc.candidate) \in Nat
      BY <3>2, SizeFacts
    <3>4. /\ gc' \in [candidate : Blocks, cursor : Nat, initial : Nat, return : {"idle", "retry"}]
          /\ gc'.candidate = gc.candidate /\ gc'.cursor = gc.cursor + 1 /\ gc'.return = gc.return
      <4> DEFINE n == gc.cursor + 1
      <4>1. n \in Nat /\ gc' = [gc EXCEPT !.cursor = n]
        BY <3>1, <3>2
      <4> HIDE DEF n
      <4>2. gc \in [candidate : Blocks, cursor : Nat, initial : Nat, return : {"idle", "retry"}]
        BY <1>1 DEF TypeOK
      <4>3. /\ gc' \in [candidate : Blocks, cursor : Nat, initial : Nat, return : {"idle", "retry"}]
            /\ gc'.candidate = gc.candidate /\ gc'.cursor = n /\ gc'.return = gc.return
        BY <4>1, <4>2, CursorSteps
      <4>4. QED
        BY <4>3 DEF n
    <3>5. Unfinished' => Unfinished
      BY <3>1, <3>4 DEF Unfinished
    <3>6. BlockStart(gc.candidate) <= gc.cursor
      BY <1>1, <3>1 DEF CursorInBlock
    <3>7. CursorInBlock'
      <4> DEFINE c == gc.candidate
      <4>1. BlockStart(c) <= gc.cursor + 1 /\ gc.cursor + 1 <= BlockEnd(c)
        BY <3>1, <3>2, <3>3, <3>6
      <4>2. gc'.candidate = c /\ gc'.cursor = gc.cursor + 1
        BY <3>4
      <4>3. QED
        BY <4>1, <4>2 DEF CursorInBlock
    <3>8. QED
      BY <1>1, <3>1, <3>4, <3>5, <3>7 DEF TypeOK
  <2>3. CASE GcMovesDone
    <3>1. /\ pc = "move" /\ pc' = "erase"
          /\ gc' = [gc EXCEPT !.cursor = BlockStart(gc.candidate)]
      BY <2>3 DEF GcMovesDone
    <3>2. gc.candidate \in Blocks
      BY <1>1 DEF TypeOK
    <3>3. BlockStart(gc.candidate) \in Nat /\ BlockStart(gc.candidate) <= BlockEnd(gc.candidate)
      BY <3>2, SizeFacts
    <3>4. /\ gc' \in [candidate : Blocks, cursor : Nat, initial : Nat, return : {"idle", "retry"}]
          /\ gc'.candidate = gc.candidate /\ gc'.cursor = BlockStart(gc.candidate)
          /\ gc'.return = gc.return
      BY <1>1, <3>1, <3>3 DEF TypeOK
    <3>5. QED
      BY <3>1, <3>3, <3>4 DEF Unfinished, CursorInBlock
  <2>4. QED
    BY <2>1, <2>2, <2>3
<1>5. TypeOK'
  BY <1>1, <1>2, <1>4 DEF TypeOK, mapping, lists
<1>6. RequestInside'
  BY <1>1, <1>2, <1>4 DEF RequestInside
<1>7. OwnersMapBack' /\ FreeListsSoundUntilDoubleFree' /\ MappedUntilDoubleFree'
  BY <1>2 DEF IInv, mapping, lists, OwnersMapBack, FreeListsSoundUntilDoubleFree,
         AllDifferent, Apart, NoneValid, MappedUntilDoubleFree
<1>8. QED
  BY <1>4, <1>5, <1>6, <1>7 DEF IInv

\* The page at the cursor is a page of the device, and the cursor may step.
LEMMA CursorFacts ==
  ASSUME TypeOK, CursorInBlock, pc \in {"move", "erase"},
         gc.cursor < BlockEnd(gc.candidate), Advance
  PROVE  /\ gc.cursor \in Pages
         /\ gc' \in [candidate : Blocks, cursor : Nat, initial : Nat, return : {"idle", "retry"}]
         /\ gc'.return = gc.return
         /\ BlockStart(gc'.candidate) <= gc'.cursor /\ gc'.cursor <= BlockEnd(gc'.candidate)
<1>1. /\ gc.candidate \in Blocks /\ gc.cursor \in Nat
      /\ gc' = [gc EXCEPT !.cursor = gc.cursor + 1]
  BY DEF TypeOK, Advance
<1>2. /\ BlockStart(gc.candidate) \in Nat /\ BlockEnd(gc.candidate) \in Nat
      /\ BlockEnd(gc.candidate) <= PageCount /\ PageCount \in Nat
  BY <1>1, SizeFacts, PageAssumption
<1>3. BlockStart(gc.candidate) <= gc.cursor
  BY DEF CursorInBlock
<1>4. gc.cursor \in Pages
  BY <1>1, <1>2 DEF Pages
<1>5. /\ gc' \in [candidate : Blocks, cursor : Nat, initial : Nat, return : {"idle", "retry"}]
      /\ gc'.return = gc.return
      /\ gc'.candidate = gc.candidate /\ gc'.cursor = gc.cursor + 1
  <2> DEFINE n == gc.cursor + 1
  <2>1. n \in Nat /\ gc' = [gc EXCEPT !.cursor = n]
    BY <1>1
  <2> HIDE DEF n
  <2>2. gc \in [candidate : Blocks, cursor : Nat, initial : Nat, return : {"idle", "retry"}]
    BY DEF TypeOK
  <2>3. /\ gc' \in [candidate : Blocks, cursor : Nat, initial : Nat, return : {"idle", "retry"}]
        /\ gc'.candidate = gc.candidate /\ gc'.cursor = n /\ gc'.return = gc.return
    BY <2>1, <2>2, CursorSteps
  <2>4. QED
    BY <2>3 DEF n
<1>6. gc.cursor + 1 <= BlockEnd(gc.candidate) /\ BlockStart(gc.candidate) <= gc.cursor + 1
  BY <1>1, <1>2, <1>3
<1>7. QED
  BY <1>4, <1>5, <1>6

\* Moving a page keeps its owner, and its data.
LEMMA GcMoveStep ==
  ASSUME IInv, GcMove
  PROVE  IInv'
<1> DEFINE p == gc.cursor
           new == Allocated(FALSE)
           owner == phys_owner_lba[p]
<1>1. TypeOK /\ RequestInside /\ CursorInBlock /\ OwnersMapBack
      /\ FreeListsSoundUntilDoubleFree /\ MappedUntilDoubleFree
  BY DEF IInv
<1>2. /\ pc = "move" /\ pc' = "move" /\ gc.cursor < BlockEnd(gc.candidate) /\ Advance
      /\ phys_valid[p] /\ FreePages > 0 /\ owner # None /\ AllocatePhysicalPage(FALSE)
      /\ UNCHANGED <<lba_hot_counters, req, writes, written, doubleFreed>>
  BY DEF GcMove
<1>3. /\ p \in Pages
      /\ gc' \in [candidate : Blocks, cursor : Nat, initial : Nat, return : {"idle", "retry"}]
      /\ gc'.return = gc.return
      /\ BlockStart(gc'.candidate) <= gc'.cursor /\ gc'.cursor <= BlockEnd(gc'.candidate)
  BY <1>1, <1>2, CursorFacts
<1>4. new \in Pages
  BY <1>1, <1>2, AllocationFacts
<1>5. owner \in Lbas /\ l2p_map[owner] = p /\ None \notin Pages /\ None \notin Lbas
  BY <1>1, <1>2, <1>3, SizeFacts DEF TypeOK, OwnersMapBack, None, Lbas
<1>6. /\ memory_buffer' = [memory_buffer EXCEPT ![new] = memory_buffer[p]]
      /\ l2p_map' = [l2p_map EXCEPT ![owner] = new]
      /\ phys_owner_lba' = [phys_owner_lba EXCEPT ![new] = owner, ![p] = None]
      /\ phys_valid' = [phys_valid EXCEPT ![new] = TRUE, ![p] = FALSE]
      /\ block_valid_count' = CountsAfter(new, p)
  BY DEF GcMove
<1>7. TypeOK'
  <2>1. l2p_map' \in [Lbas -> Pages \cup {None}]
    BY <1>1, <1>4, <1>6 DEF TypeOK
  <2>2. phys_valid' \in [Pages -> BOOLEAN]
    BY <1>1, <1>6 DEF TypeOK
  <2>3. phys_owner_lba' \in [Pages -> Lbas \cup {None}]
    BY <1>1, <1>5, <1>6 DEF TypeOK
  <2>4. block_valid_count' \in [Blocks -> Nat]
    BY <1>1, <1>3, <1>4, <1>6, CountsType
  <2>5. /\ free_physical_pages_hot' \in Seq(Pages)
        /\ free_physical_pages_cold' \in Seq(Pages)
    BY <1>1, <1>2, AllocationFacts
  <2>6. memory_buffer' \in [Pages -> [Parts -> Values \cup {Zero}]]
    BY <1>1, <1>3, <1>6 DEF TypeOK
  <2>7. QED
    BY <1>1, <1>2, <1>3, <2>1, <2>2, <2>3, <2>4, <2>5, <2>6 DEF TypeOK
<1>8. RequestInside' /\ CursorInBlock'
  BY <1>1, <1>2, <1>3 DEF RequestInside, CursorInBlock, Unfinished
<1>9. ASSUME NEW q \in Pages
      PROVE  /\ phys_valid'[q] <=> (q # p /\ (q = new \/ phys_valid[q]))
             /\ phys_owner_lba'[q] =
                  IF q = p THEN None ELSE IF q = new THEN owner ELSE phys_owner_lba[q]
  BY <1>1, <1>3, <1>4, <1>6 DEF TypeOK
<1>10. \A l \in Lbas : l2p_map'[l] = IF l = owner THEN new ELSE l2p_map[l]
  BY <1>1, <1>6 DEF TypeOK
<1>11. OwnersMapBack'
  <2>1. phys_owner_lba \in [Pages -> Lbas \cup {None}]
    BY <1>1 DEF TypeOK
  <2> SUFFICES ASSUME NEW q \in Pages
               PROVE  /\ phys_valid'[q] <=> phys_owner_lba'[q] # None
                      /\ phys_valid'[q] => l2p_map'[phys_owner_lba'[q]] = q
    BY DEF OwnersMapBack
  <2>2. /\ phys_valid[q] <=> phys_owner_lba[q] # None
        /\ phys_valid[q] => l2p_map[phys_owner_lba[q]] = q
    BY <1>1 DEF OwnersMapBack
  <2> HIDE DEF new, p, owner
  <2>3. CASE q = p
    BY <1>9, <2>3
  <2>4. CASE q # p /\ q = new
    BY <1>5, <1>9, <1>10, <2>4
  <2>5. CASE q # p /\ q # new
    <3>1. (phys_valid'[q] <=> phys_valid[q]) /\ phys_owner_lba'[q] = phys_owner_lba[q]
      BY <1>9, <2>5
    <3>2. CASE phys_valid[q]
      <4>1. phys_owner_lba[q] \in Lbas /\ phys_owner_lba[q] # owner
        BY <1>5, <2>1, <2>2, <2>5, <3>2
      <4>2. QED
        BY <1>10, <2>2, <3>1, <4>1
    <3>3. CASE ~ phys_valid[q]
      BY <2>2, <3>1, <3>3
    <3>4. QED
      BY <3>2, <3>3
  <2>6. QED
    BY <2>3, <2>4, <2>5
<1>12. ~ doubleFreed =>
         /\ ~ phys_valid[new]
         /\ AllDifferent(free_physical_pages_hot')
         /\ AllDifferent(free_physical_pages_cold')
         /\ Apart(free_physical_pages_hot', free_physical_pages_cold')
         /\ NoneValid(free_physical_pages_hot')
         /\ NoneValid(free_physical_pages_cold')
         /\ \A i \in 1 .. Len(free_physical_pages_hot') :
              free_physical_pages_hot'[i] # new
         /\ \A i \in 1 .. Len(free_physical_pages_cold') :
              free_physical_pages_cold'[i] # new
  BY <1>1, <1>2, AllocationFacts
<1>13. FreeListsSoundUntilDoubleFree'
  <2>1. /\ free_physical_pages_hot' \in Seq(Pages)
        /\ free_physical_pages_cold' \in Seq(Pages)
    BY <1>7 DEF TypeOK
  <2> HIDE DEF new, p, owner
  <2>2. ASSUME ~ doubleFreed, NEW i \in 1 .. Len(free_physical_pages_hot')
        PROVE  ~ phys_valid'[free_physical_pages_hot'[i]]
    <3> DEFINE q == free_physical_pages_hot'[i]
    <3>1. q \in Pages
      BY <2>1
    <3>2. ~ phys_valid[q] /\ q # new
      BY <1>12, <2>2 DEF NoneValid
    <3>3. QED
      BY <1>9, <3>1, <3>2
  <2>3. ASSUME ~ doubleFreed, NEW i \in 1 .. Len(free_physical_pages_cold')
        PROVE  ~ phys_valid'[free_physical_pages_cold'[i]]
    <3> DEFINE q == free_physical_pages_cold'[i]
    <3>1. q \in Pages
      BY <2>1
    <3>2. ~ phys_valid[q] /\ q # new
      BY <1>12, <2>3 DEF NoneValid
    <3>3. QED
      BY <1>9, <3>1, <3>2
  <2>4. QED
    BY <1>2, <1>12, <2>2, <2>3
    DEF FreeListsSoundUntilDoubleFree, AllDifferent, Apart, NoneValid
<1>14. MappedUntilDoubleFree'
  <2> SUFFICES ASSUME ~ doubleFreed, NEW l \in Lbas
               PROVE  IF l2p_map'[l] = None THEN written[l] = ZeroPage
                      ELSE /\ phys_owner_lba'[l2p_map'[l]] = l
                           /\ memory_buffer'[l2p_map'[l]] = written[l]
    BY <1>2 DEF MappedUntilDoubleFree
  <2>1. IF l2p_map[l] = None THEN written[l] = ZeroPage
        ELSE phys_owner_lba[l2p_map[l]] = l /\ memory_buffer[l2p_map[l]] = written[l]
    BY <1>1 DEF MappedUntilDoubleFree
  <2>2. new # p
    BY <1>2, <1>12
  <2>3. CASE l = owner
    <3>1. memory_buffer[p] = written[l] /\ l2p_map'[l] = new
      BY <1>5, <1>3, <1>10, <2>1, <2>3
    <3>2. memory_buffer'[new] = memory_buffer[p] /\ phys_owner_lba'[new] = owner
      BY <1>1, <1>4, <1>6, <1>9, <2>2 DEF TypeOK
    <3>3. QED
      BY <1>4, <1>5, <2>3, <3>1, <3>2
  <2>4. CASE l # owner
    <3>1. l2p_map'[l] = l2p_map[l]
      BY <1>10, <2>4
    <3>2. CASE l2p_map[l] = None
      BY <2>1, <3>1, <3>2
    <3>3. CASE l2p_map[l] # None
      <4> DEFINE q == l2p_map[l]
      <4>1. q \in Pages /\ phys_owner_lba[q] = l /\ memory_buffer[q] = written[l]
        BY <1>1, <2>1, <3>3 DEF TypeOK
      <4>2. phys_valid[q]
        BY <1>1, <1>5, <4>1 DEF OwnersMapBack
      <4>3. q # new /\ q # p
        BY <1>12, <2>4, <4>1, <4>2
      <4>4. memory_buffer'[q] = memory_buffer[q] /\ phys_owner_lba'[q] = l
        BY <1>1, <1>6, <1>9, <4>1, <4>3 DEF TypeOK
      <4>5. QED
        BY <3>1, <3>3, <4>1, <4>4
    <3>4. QED
      BY <3>2, <3>3
  <2>5. QED
    BY <2>3, <2>4
<1>15. QED
  BY <1>7, <1>8, <1>11, <1>13, <1>14 DEF IInv

\* Appending an invalid page that is on neither list keeps both sound.
LEMMA AppendKeepsListsSound ==
  ASSUME NEW s \in Seq(Pages), NEW t \in Seq(Pages), NEW p \in Pages,
         ~ phys_valid[p],
         \A i \in 1 .. Len(s) : s[i] # p,
         \A i \in 1 .. Len(t) : t[i] # p,
         AllDifferent(s), Apart(s, t), NoneValid(s)
  PROVE  AllDifferent(Append(s, p)) /\ Apart(Append(s, p), t) /\ NoneValid(Append(s, p))
<1> DEFINE a == Append(s, p)
<1>1. /\ Len(s) \in Nat /\ Len(a) = Len(s) + 1 /\ a[Len(s) + 1] = p
      /\ \A i \in 1 .. Len(s) : a[i] = s[i]
  OBVIOUS
<1> HIDE DEF a
<1>2. \A i \in 1 .. Len(a) : i \in 1 .. Len(s) \/ i = Len(s) + 1
  BY <1>1
<1>3. AllDifferent(a)
  BY <1>1, <1>2 DEF AllDifferent
<1>4. Apart(a, t)
  BY <1>1, <1>2 DEF Apart
<1>5. NoneValid(a)
  BY <1>1, <1>2 DEF NoneValid
<1>6. QED
  BY <1>3, <1>4, <1>5 DEF a

\* Erasing a page keeps the lists sound, or records the double free.
LEMMA GcEraseStep ==
  ASSUME IInv, GcErase
  PROVE  IInv'
<1> DEFINE p == gc.cursor
           hot == free_physical_pages_hot
           cold == free_physical_pages_cold
<1>1. TypeOK /\ RequestInside /\ CursorInBlock /\ OwnersMapBack
      /\ FreeListsSoundUntilDoubleFree /\ MappedUntilDoubleFree
  BY DEF IInv
<1>2. /\ pc = "erase" /\ pc' = "erase" /\ gc.cursor < BlockEnd(gc.candidate) /\ Advance
      /\ ~ phys_valid[p]
      /\ phys_owner_lba' = [phys_owner_lba EXCEPT ![p] = None]
      /\ doubleFreed' = (doubleFreed \/ OnFreeList(p))
      /\ UNCHANGED <<l2p_map, phys_valid, block_valid_count, memory_buffer,
                     lba_hot_counters, req, writes, written>>
  BY DEF GcErase, Erasable
<1>3. /\ p \in Pages
      /\ gc' \in [candidate : Blocks, cursor : Nat, initial : Nat, return : {"idle", "retry"}]
      /\ gc'.return = gc.return
      /\ BlockStart(gc'.candidate) <= gc'.cursor /\ gc'.cursor <= BlockEnd(gc'.candidate)
  BY <1>1, <1>2, CursorFacts
<1>4. \/ hot' = Append(hot, p) /\ cold' = cold
      \/ cold' = Append(cold, p) /\ hot' = hot
  BY DEF GcErase
<1>5. hot \in Seq(Pages) /\ cold \in Seq(Pages)
  BY <1>1 DEF TypeOK
<1>6. hot' \in Seq(Pages) /\ cold' \in Seq(Pages)
  <2>1. Append(hot, p) \in Seq(Pages) /\ Append(cold, p) \in Seq(Pages)
    BY <1>3, <1>5
  <2> HIDE DEF p, hot, cold
  <2>2. QED
    BY <1>4, <1>5, <2>1
<1>7. phys_owner_lba[p] = None
  BY <1>1, <1>2, <1>3 DEF OwnersMapBack
<1>8. phys_owner_lba' = phys_owner_lba
  BY <1>1, <1>2, <1>3, <1>7 DEF TypeOK
<1>9. TypeOK'
  <2>1. OnFreeList(p) \in BOOLEAN
    BY DEF OnFreeList
  <2>2. doubleFreed' \in BOOLEAN
    BY <1>1, <1>2, <2>1 DEF TypeOK
  <2> HIDE DEF p, hot, cold
  <2>3. QED
    BY <1>1, <1>2, <1>3, <1>6, <1>8, <2>2 DEF TypeOK, hot, cold
<1>10. RequestInside' /\ CursorInBlock'
  BY <1>1, <1>2, <1>3 DEF RequestInside, CursorInBlock, Unfinished
<1>11. OwnersMapBack'
  BY <1>1, <1>2, <1>8 DEF OwnersMapBack
<1>12. FreeListsSoundUntilDoubleFree'
  <2> SUFFICES ASSUME ~ doubleFreed'
               PROVE  /\ AllDifferent(hot') /\ AllDifferent(cold') /\ Apart(hot', cold')
                      /\ NoneValid(hot') /\ NoneValid(cold')
    BY <1>2 DEF FreeListsSoundUntilDoubleFree, AllDifferent, Apart, NoneValid
  <2>1. ~ doubleFreed /\ ~ OnFreeList(p)
    BY <1>2
  <2>2. /\ \A i \in 1 .. Len(hot) : hot[i] # p
        /\ \A i \in 1 .. Len(cold) : cold[i] # p
    BY <2>1 DEF OnFreeList
  <2>3. /\ AllDifferent(hot) /\ AllDifferent(cold) /\ Apart(hot, cold)
        /\ NoneValid(hot) /\ NoneValid(cold)
    BY <1>1, <2>1 DEF FreeListsSoundUntilDoubleFree
  <2>4. Apart(cold, hot)
    BY <2>3 DEF Apart
  <2> HIDE DEF p, hot, cold
  <2>5. CASE hot' = Append(hot, p) /\ cold' = cold
    BY <1>2, <1>3, <1>5, <2>2, <2>3, <2>5, AppendKeepsListsSound
  <2>6. CASE cold' = Append(cold, p) /\ hot' = hot
    <3>1. AllDifferent(cold') /\ Apart(cold', hot') /\ NoneValid(cold')
      BY <1>2, <1>3, <1>5, <2>2, <2>3, <2>4, <2>6, AppendKeepsListsSound
    <3>2. Apart(hot', cold')
      BY <3>1 DEF Apart
    <3>3. QED
      BY <2>3, <2>6, <3>1, <3>2
  <2>7. QED
    BY <1>4, <2>5, <2>6 DEF hot, cold
<1>13. MappedUntilDoubleFree'
  BY <1>1, <1>2, <1>8 DEF MappedUntilDoubleFree
<1>14. QED
  BY <1>9, <1>10, <1>11, <1>12, <1>13 DEF IInv

\* Leaving a block resets its count and nothing the invariant reads.
LEMMA GcErasedStep ==
  ASSUME IInv, GcErased
  PROVE  IInv'
<1>1. TypeOK /\ RequestInside
  BY DEF IInv
<1>2. /\ pc = "erase"
      /\ block_valid_count' = [block_valid_count EXCEPT ![gc.candidate] = 0]
      /\ UNCHANGED <<l2p_map, phys_valid, phys_owner_lba, memory_buffer, lists,
                     lba_hot_counters, req, writes, written, doubleFreed>>
      /\ \/ pc' = gc.return /\ gc' = NoGC
         \/ pc' = "gc" /\ gc' = gc
  BY DEF GcErased
<1>3. gc.candidate \in Blocks /\ gc.return \in {"idle", "retry"} /\ 0 \in Blocks
  BY <1>1, SizeFacts DEF TypeOK, Blocks
<1>4. gc' \in [candidate : Blocks, cursor : Nat, initial : Nat, return : {"idle", "retry"}]
  <2>1. NoGC \in [candidate : Blocks, cursor : Nat, initial : Nat, return : {"idle", "retry"}]
    BY <1>3 DEF NoGC
  <2>2. QED
    BY <1>1, <1>2, <2>1 DEF TypeOK
<1>5. block_valid_count' \in [Blocks -> Nat]
  BY <1>1, <1>2, <1>3 DEF TypeOK
<1>6. TypeOK'
  BY <1>1, <1>2, <1>3, <1>4, <1>5 DEF TypeOK, lists
<1>7. (Unfinished' => Unfinished) /\ CursorInBlock'
  BY <1>2, <1>3 DEF Unfinished, CursorInBlock
<1>8. RequestInside'
  BY <1>1, <1>2, <1>7 DEF RequestInside
<1>9. OwnersMapBack' /\ FreeListsSoundUntilDoubleFree' /\ MappedUntilDoubleFree'
  BY <1>2 DEF IInv, lists, OwnersMapBack, FreeListsSoundUntilDoubleFree,
         AllDifferent, Apart, NoneValid, MappedUntilDoubleFree
<1>10. QED
  BY <1>6, <1>7, <1>8, <1>9 DEF IInv

(***************************************************************************)
(* Initially.                                                              *)
(***************************************************************************)

\* The constructor's free lists: different pages, none on both.
LEMMA InitialLists ==
  /\ FirstCold \in 0 .. PageCount
  /\ Descending(0, FirstCold - 1) \in Seq(Pages)
  /\ Descending(FirstCold, PageCount - 1) \in Seq(Pages)
  /\ AllDifferent(Descending(0, FirstCold - 1))
  /\ AllDifferent(Descending(FirstCold, PageCount - 1))
  /\ Apart(Descending(0, FirstCold - 1), Descending(FirstCold, PageCount - 1))
<1> DEFINE e == HotBlocks * PagesPerBlock
           f == FirstCold
           hot == [i \in 1 .. f |-> f - i]
           cold == [i \in 1 .. PageCount - f |-> PageCount - i]
<1>1. HotBlocks \in Nat
  <2> DEFINE q == NumBlocks \div 5
  <2>1. q \in Nat
    BY SizeFacts, Division
  <2> HIDE DEF q
  <2>2. Max({1, q}) \in {1, q}
    BY <2>1, 1 \in Int, q \in Int, MaxOfTwo
  <2>3. QED
    BY <2>1, <2>2 DEF HotBlocks, q
<1>2. f \in 0 .. PageCount
  <2>1. e \in Nat /\ PageCount \in Nat
    BY <1>1, PageAssumption
  <2> HIDE DEF e
  <2>2. Min({PageCount, e}) \in {PageCount, e} /\ Min({PageCount, e}) <= PageCount
    BY <2>1, MinOfTwo
  <2>3. QED
    BY <2>1, <2>2 DEF FirstCold, e
<1>3. Descending(0, f - 1) = hot
  <2>1. f - 1 - 0 + 1 = f /\ \A i \in 1 .. f : f - 1 - i + 1 = f - i
    BY <1>2, PageAssumption
  <2> HIDE DEF f
  <2>2. QED
    BY <2>1 DEF Descending
<1>4. Descending(f, PageCount - 1) = cold
  <2>1. /\ PageCount - 1 - f + 1 = PageCount - f
        /\ \A i \in 1 .. PageCount - f : PageCount - 1 - i + 1 = PageCount - i
    BY <1>2, PageAssumption
  <2> HIDE DEF f
  <2>2. QED
    BY <2>1 DEF Descending
<1> HIDE DEF f
<1>5. hot \in Seq(Pages) /\ Len(hot) = f /\ \A i \in 1 .. f : hot[i] = f - i
  <2>1. \A i \in 1 .. f : f - i \in Pages
    BY <1>2, PageAssumption DEF Pages
  <2>2. f \in Nat
    BY <1>2, PageAssumption
  <2>3. QED
    BY <2>1, <2>2
<1>6. /\ cold \in Seq(Pages) /\ Len(cold) = PageCount - f
      /\ \A i \in 1 .. PageCount - f : cold[i] = PageCount - i
  <2>1. \A i \in 1 .. PageCount - f : PageCount - i \in Pages
    BY <1>2, PageAssumption DEF Pages
  <2>2. PageCount - f \in Nat
    BY <1>2, PageAssumption
  <2>3. QED
    BY <2>1, <2>2
<1> HIDE DEF hot, cold
<1>7. AllDifferent(hot)
  BY <1>2, <1>5, PageAssumption DEF AllDifferent
<1>8. AllDifferent(cold)
  BY <1>2, <1>6, PageAssumption DEF AllDifferent
<1>9. Apart(hot, cold)
  BY <1>2, <1>5, <1>6, PageAssumption DEF Apart
<1>10. QED
  BY <1>2, <1>3, <1>4, <1>5, <1>6, <1>7, <1>8, <1>9 DEF f

\* A device fresh from the constructor is sound.
LEMMA InitSound == Init => IInv
<1> SUFFICES ASSUME Init PROVE IInv
  OBVIOUS
<1>1. 0 \in Blocks /\ None \notin Lbas
  BY SizeFacts DEF Blocks, Lbas, None
<1>2. TypeOK
  <2>1. /\ free_physical_pages_hot \in Seq(Pages)
        /\ free_physical_pages_cold \in Seq(Pages)
    BY InitialLists DEF Init
  <2>2. /\ l2p_map \in [Lbas -> Pages \cup {None}]
        /\ phys_owner_lba \in [Pages -> Lbas \cup {None}]
        /\ phys_valid \in [Pages -> BOOLEAN]
        /\ block_valid_count \in [Blocks -> Nat]
        /\ lba_hot_counters \in [Lbas -> Nat]
    BY DEF Init
  <2>3. ZeroPage \in [Parts -> Values \cup {Zero}]
    BY DEF ZeroPage
  <2>4. /\ memory_buffer \in [Pages -> [Parts -> Values \cup {Zero}]]
        /\ written \in [Lbas -> [Parts -> Values \cup {Zero}]]
    BY <2>3 DEF Init
  <2>5. /\ req \in [next : Nat, last : Int, value : Values \cup {Zero}]
        /\ gc \in [candidate : Blocks, cursor : Nat, initial : Nat, return : {"idle", "retry"}]
    BY <1>1 DEF Init, NoRequest, NoGC
  <2>6. writes \in 0 .. MaxWrites /\ doubleFreed \in BOOLEAN /\ pc = "idle"
    <3>1. MaxWrites \in Nat
      BY PageAssumption
    <3>2. writes = 0 /\ doubleFreed = FALSE /\ pc = "idle"
      BY DEF Init
    <3>3. 0 \in 0 .. MaxWrites
      BY <3>1
    <3>4. QED
      BY <3>2, <3>3
  <2>7. QED
    BY <2>1, <2>2, <2>4, <2>5, <2>6 DEF TypeOK
<1>3. RequestInside /\ CursorInBlock
  BY DEF Init, RequestInside, CursorInBlock, Unfinished
<1>4. OwnersMapBack
  BY DEF Init, OwnersMapBack
<1>5. NoneValid(free_physical_pages_hot) /\ NoneValid(free_physical_pages_cold)
  BY <1>2 DEF Init, NoneValid, TypeOK
<1>6. FreeListsSoundUntilDoubleFree
  BY <1>5, InitialLists DEF Init, FreeListsSoundUntilDoubleFree
<1>7. MappedUntilDoubleFree
  BY DEF Init, MappedUntilDoubleFree
<1>8. QED
  BY <1>2, <1>3, <1>4, <1>6, <1>7 DEF IInv

LEMMA StutterKeeps ==
  ASSUME IInv, UNCHANGED vars
  PROVE  IInv'
<1>1. TypeOK'
  BY DEF IInv, TypeOK, vars, mapping, lists
<1>2. RequestInside' /\ CursorInBlock'
  BY DEF IInv, RequestInside, CursorInBlock, Unfinished, vars
<1>3. OwnersMapBack' /\ FreeListsSoundUntilDoubleFree' /\ MappedUntilDoubleFree'
  BY DEF IInv, vars, mapping, lists, OwnersMapBack, FreeListsSoundUntilDoubleFree,
         AllDifferent, Apart, NoneValid, MappedUntilDoubleFree
<1>4. QED
  BY <1>1, <1>2, <1>3 DEF IInv

(***************************************************************************)
(* The theorems.                                                           *)
(***************************************************************************)

\* Write, its failures and RunGC keep the inductive invariant.
THEOREM Invariance == Spec => []IInv
<1>1. Init => IInv
  BY InitSound
<1>2. IInv /\ [Next]_vars => IInv'
  <2> SUFFICES ASSUME IInv, [Next]_vars PROVE IInv'
    OBVIOUS
  <2>1. CASE \E r \in HostRequests : Write(r)
    BY <2>1, WriteStarts
  <2>2. CASE WriteStep
    BY <2>2, WriteStepKeeps
  <2>3. CASE RunGC
    BY <2>3, GcControlStep, GcMoveStep, GcEraseStep, GcErasedStep DEF RunGC
  <2>4. CASE UNCHANGED vars
    BY <2>4, StutterKeeps
  <2>5. QED
    BY <2>1, <2>2, <2>3, <2>4 DEF Next
<1>3. QED
  BY <1>1, <1>2, PTL DEF Spec

\* Every variable keeps its type: in particular the page allocated, the block
\* collected and the cursor are always inside the device.
THEOREM TypeCorrect == Spec => []TypeOK
<1>1. IInv => TypeOK
  BY DEF IInv
<1>2. QED
  BY <1>1, Invariance, PTL

\* A page is valid exactly when it is owned, and its owner maps back to it,
\* whatever was freed twice.
THEOREM OwnershipKept == Spec => []OwnersMapBack
<1>1. IInv => OwnersMapBack
  BY DEF IInv
<1>2. QED
  BY <1>1, Invariance, PTL

\* Until a page is freed twice the free lists are sets, disjoint, of pages
\* that hold no data.
THEOREM FreeListsSound == Spec => []FreeListsSoundUntilDoubleFree
<1>1. IInv => FreeListsSoundUntilDoubleFree
  BY DEF IInv
<1>2. QED
  BY <1>1, Invariance, PTL

\* Until a page is freed twice every read returns what the host wrote last:
\* the double free of RunGC is the only way this layer loses data.
THEOREM DataIntact == Spec => []IntactUntilDoubleFree
<1>1. IInv => IntactUntilDoubleFree
  <2> SUFFICES ASSUME IInv, ~ doubleFreed, NEW l \in Lbas
               PROVE  ReadPage(l) = written[l]
    BY DEF IntactUntilDoubleFree, ReadsLastWrite
  <2>1. IF l2p_map[l] = None THEN written[l] = ZeroPage
        ELSE phys_owner_lba[l2p_map[l]] = l /\ memory_buffer[l2p_map[l]] = written[l]
    BY DEF IInv, MappedUntilDoubleFree
  <2>2. CASE l2p_map[l] = None
    BY <2>1, <2>2 DEF ReadPage
  <2>3. CASE l2p_map[l] # None
    <3>1. l2p_map[l] \in Pages /\ None \notin Lbas
      BY <2>3, SizeFacts DEF IInv, TypeOK, Lbas, None
    <3>2. phys_valid[l2p_map[l]]
      BY <2>1, <2>3, <3>1 DEF IInv, OwnersMapBack
    <3>3. QED
      BY <2>1, <2>3, <3>2 DEF ReadPage
  <2>4. QED
    BY <2>2, <2>3
<1>2. QED
  BY <1>1, Invariance, PTL

(***************************************************************************)
(* The ECC: what a decoding makes of one or two flipped bits.              *)
(***************************************************************************)

LEMMA BitsFinite ==
  ASSUME NEW a \in SUBSET Bits
  PROVE  IsFiniteSet(a) /\ Cardinality(a) \in Nat
<1>1. IsFiniteSet(Bits)
  <2>1. 0 \in Int /\ 63 \in Int
    OBVIOUS
  <2> QED BY <2>1, FS_Interval, Zenon DEF Bits
<1>2. IsFiniteSet(a)
  BY <1>1, FS_Subset
<1> QED BY <1>2, FS_CardinalityType

\* The parity of an exclusive or is the exclusive or of the parities.
LEMMA OddXor ==
  ASSUME NEW a, NEW b, IsFiniteSet(a), IsFiniteSet(b)
  PROVE  Odd(Xor(a, b)) <=> (Odd(a) # Odd(b))
<1> DEFINE l == a \ b
           r == b \ a
           m == a \cap b
<1>1. /\ IsFiniteSet(l) /\ Cardinality(l) = Cardinality(a) - Cardinality(m)
  BY FS_Difference
<1>2. b \cap a = m
  OBVIOUS
<1>3. /\ IsFiniteSet(r) /\ Cardinality(r) = Cardinality(b) - Cardinality(m)
  <2>1. IsFiniteSet(b \ a) /\ Cardinality(b \ a) = Cardinality(b) - Cardinality(b \cap a)
    BY FS_Difference
  <2> HIDE DEF m
  <2> QED BY <1>2, <2>1
<1>4. l \cap r = {}
  OBVIOUS
<1>5. Cardinality(l \cup r) = Cardinality(l) + Cardinality(r) - Cardinality({})
  BY <1>1, <1>3, <1>4, FS_Union
<1>6. Cardinality({}) = 0
  BY FS_EmptySet
<1>7. /\ Cardinality(a) \in Nat /\ Cardinality(b) \in Nat /\ Cardinality(m) \in Nat
      /\ Cardinality(l) \in Nat /\ Cardinality(r) \in Nat
  BY <1>1, <1>3, FS_CardinalityType, FS_Intersection
<1> DEFINE ca == Cardinality(a)
           cb == Cardinality(b)
           cm == Cardinality(m)
           cx == Cardinality(l \cup r)
<1>8. cx = ca + cb - 2 * cm
  BY <1>1, <1>3, <1>5, <1>6, <1>7
<1>9. Xor(a, b) = l \cup r
  BY DEF Xor
<1>10. ca \in Nat /\ cb \in Nat /\ cm \in Nat
  BY <1>7
<1> HIDE DEF ca, cb, cm, cx
<1>11. cx % 2 = 1 <=> (ca % 2 = 1) # (cb % 2 = 1)
  BY <1>8, <1>10
<1> QED BY <1>9, <1>11 DEF Odd, ca, cb, cx

LEMMA OddOne ==
  ASSUME NEW x
  PROVE  Odd({x})
<1>1. Cardinality({x}) = 1
  BY FS_Singleton, Zenon
<1> QED BY <1>1 DEF Odd

LEMMA OddNone == ~ Odd({})
  BY FS_EmptySet DEF Odd

\* The positions of the data bits are different numbers of seven bits.
LEMMA CodeIdxFacts ==
  /\ \A d \in Bits : CodeIdx(d) \in 1 .. 127
  /\ \A d, e \in Bits : CodeIdx(d) = CodeIdx(e) => d = e
<1>1. ASSUME NEW d \in Bits
      PROVE  CodeIdx(d) = IF d = 0 THEN 3
                          ELSE IF d <= 3 THEN d + 4
                          ELSE IF d <= 10 THEN d + 5
                          ELSE IF d <= 25 THEN d + 6
                          ELSE IF d <= 56 THEN d + 7
                          ELSE d + 8
  BY DEF Bits, CodeIdx
<1>2. ASSUME NEW d \in Bits
      PROVE  CodeIdx(d) \in 1 .. 127
  BY <1>1 DEF Bits
<1>3. ASSUME NEW d \in Bits, NEW e \in Bits, d < e
      PROVE  CodeIdx(d) < CodeIdx(e)
  <2>1. d \in 0 .. 63 /\ e \in 0 .. 63
    BY DEF Bits
  <2> DEFINE p == CodeIdx(d)
             q == CodeIdx(e)
  <2>2. p = IF d = 0 THEN 3 ELSE IF d <= 3 THEN d + 4 ELSE IF d <= 10 THEN d + 5
            ELSE IF d <= 25 THEN d + 6 ELSE IF d <= 56 THEN d + 7 ELSE d + 8
    BY <1>1
  <2>3. q = IF e = 0 THEN 3 ELSE IF e <= 3 THEN e + 4 ELSE IF e <= 10 THEN e + 5
            ELSE IF e <= 25 THEN e + 6 ELSE IF e <= 56 THEN e + 7 ELSE e + 8
    BY <1>1
  <2> HIDE DEF p, q
  <2>4. p < q
    BY <1>3, <2>1, <2>2, <2>3
  <2> QED BY <2>4 DEF p, q
<1>4. ASSUME NEW d \in Bits, NEW e \in Bits, CodeIdx(d) = CodeIdx(e)
      PROVE  d = e
  <2>1. d \in Int /\ e \in Int /\ CodeIdx(d) \in Int
    BY <1>2 DEF Bits
  <2> QED BY <2>1, <1>3, <1>4
<1> QED BY <1>2, <1>4

\* A number and its halves.
LEMMA Halving ==
  ASSUME NEW n \in Nat
  PROVE  n \div 2 \in Nat /\ n % 2 \in 0 .. 1 /\ n = 2 * (n \div 2) + (n % 2)
<1>1. 2 \in Nat \ {0} /\ 2 - 1 = 1
  OBVIOUS
<1>2. n \div 2 \in Nat /\ n % 2 \in 0 .. 2 - 1 /\ n = 2 * (n \div 2) + (n % 2)
  BY <1>1, Division, Zenon
<1> QED BY <1>1, <1>2

\* The bits of a number, from the highest down.
LEMMA Halves ==
  ASSUME NEW n \in 0 .. 127
  PROVE  /\ n \div 64 = (n \div 64) % 2
         /\ n \div 32 = 2 * (n \div 64) + ((n \div 32) % 2)
         /\ n \div 16 = 2 * (n \div 32) + ((n \div 16) % 2)
         /\ n \div 8 = 2 * (n \div 16) + ((n \div 8) % 2)
         /\ n \div 4 = 2 * (n \div 8) + ((n \div 4) % 2)
         /\ n \div 2 = 2 * (n \div 4) + ((n \div 2) % 2)
         /\ n = 2 * (n \div 2) + (n % 2)
<1>1. n \in Nat /\ n <= 127
  OBVIOUS
<1>2. /\ n \div 2 \in Nat
      /\ n % 2 \in 0 .. 2 - 1
      /\ n = 2 * (n \div 2) + (n % 2)
  <2>1. 2 \in Nat \ {0}
    OBVIOUS
  <2> QED BY <1>1, <2>1, Division, Zenon
<1>3. /\ n \div 4 \in Nat
      /\ n % 4 \in 0 .. 4 - 1
      /\ n = 4 * (n \div 4) + (n % 4)
  <2>1. 4 \in Nat \ {0}
    OBVIOUS
  <2> QED BY <1>1, <2>1, Division, Zenon
<1>4. /\ n \div 8 \in Nat
      /\ n % 8 \in 0 .. 8 - 1
      /\ n = 8 * (n \div 8) + (n % 8)
  <2>1. 8 \in Nat \ {0}
    OBVIOUS
  <2> QED BY <1>1, <2>1, Division, Zenon
<1>5. /\ n \div 16 \in Nat
      /\ n % 16 \in 0 .. 16 - 1
      /\ n = 16 * (n \div 16) + (n % 16)
  <2>1. 16 \in Nat \ {0}
    OBVIOUS
  <2> QED BY <1>1, <2>1, Division, Zenon
<1>6. /\ n \div 32 \in Nat
      /\ n % 32 \in 0 .. 32 - 1
      /\ n = 32 * (n \div 32) + (n % 32)
  <2>1. 32 \in Nat \ {0}
    OBVIOUS
  <2> QED BY <1>1, <2>1, Division, Zenon
<1>7. /\ n \div 64 \in Nat
      /\ n % 64 \in 0 .. 64 - 1
      /\ n = 64 * (n \div 64) + (n % 64)
  <2>1. 64 \in Nat \ {0}
    OBVIOUS
  <2> QED BY <1>1, <2>1, Division, Zenon
<1>8. n \div 64 = (n \div 64) % 2
  BY <1>1, <1>7, Halving
<1>9. n \div 32 = 2 * (n \div 64) + ((n \div 32) % 2)
  <2> DEFINE h == n \div 32
  <2>1. h \div 2 \in Nat /\ h % 2 \in 0 .. 1 /\ h = 2 * (h \div 2) + (h % 2)
    BY <1>6, <1>7, Halving
  <2>2. h \div 2 = n \div 64
    BY <1>6, <1>7, <2>1
  <2> QED BY <2>1, <2>2
<1>10. n \div 16 = 2 * (n \div 32) + ((n \div 16) % 2)
  <2> DEFINE h == n \div 16
  <2>1. h \div 2 \in Nat /\ h % 2 \in 0 .. 1 /\ h = 2 * (h \div 2) + (h % 2)
    BY <1>5, <1>6, Halving
  <2>2. h \div 2 = n \div 32
    BY <1>5, <1>6, <2>1
  <2> QED BY <2>1, <2>2
<1>11. n \div 8 = 2 * (n \div 16) + ((n \div 8) % 2)
  <2> DEFINE h == n \div 8
  <2>1. h \div 2 \in Nat /\ h % 2 \in 0 .. 1 /\ h = 2 * (h \div 2) + (h % 2)
    BY <1>4, <1>5, Halving
  <2>2. h \div 2 = n \div 16
    BY <1>4, <1>5, <2>1
  <2> QED BY <2>1, <2>2
<1>12. n \div 4 = 2 * (n \div 8) + ((n \div 4) % 2)
  <2> DEFINE h == n \div 4
  <2>1. h \div 2 \in Nat /\ h % 2 \in 0 .. 1 /\ h = 2 * (h \div 2) + (h % 2)
    BY <1>3, <1>4, Halving
  <2>2. h \div 2 = n \div 8
    BY <1>3, <1>4, <2>1
  <2> QED BY <2>1, <2>2
<1>13. n \div 2 = 2 * (n \div 4) + ((n \div 2) % 2)
  <2> DEFINE h == n \div 2
  <2>1. h \div 2 \in Nat /\ h % 2 \in 0 .. 1 /\ h = 2 * (h \div 2) + (h % 2)
    BY <1>2, <1>3, Halving
  <2>2. h \div 2 = n \div 4
    BY <1>2, <1>3, <2>1
  <2> QED BY <2>1, <2>2
<1> QED BY <1>1, <1>8, <1>9, <1>10, <1>11, <1>12, <1>13, Halving

\* A number of seven bits is told by them.
LEMMA SevenBits ==
  ASSUME NEW n \in 0 .. 127, NEW m \in 0 .. 127,
         \A i \in 0 .. 6 : HasBit(n, i) <=> HasBit(m, i)
  PROVE  n = m
<1>1. /\ n % 2 = m % 2
      /\ (n \div 2) % 2 = (m \div 2) % 2
      /\ (n \div 4) % 2 = (m \div 4) % 2
      /\ (n \div 8) % 2 = (m \div 8) % 2
      /\ (n \div 16) % 2 = (m \div 16) % 2
      /\ (n \div 32) % 2 = (m \div 32) % 2
      /\ (n \div 64) % 2 = (m \div 64) % 2
  BY DEF HasBit, Powers
<1>2. /\ n \div 64 = (n \div 64) % 2
      /\ n \div 32 = 2 * (n \div 64) + ((n \div 32) % 2)
      /\ n \div 16 = 2 * (n \div 32) + ((n \div 16) % 2)
      /\ n \div 8 = 2 * (n \div 16) + ((n \div 8) % 2)
      /\ n \div 4 = 2 * (n \div 8) + ((n \div 4) % 2)
      /\ n \div 2 = 2 * (n \div 4) + ((n \div 2) % 2)
      /\ n = 2 * (n \div 2) + (n % 2)
  BY Halves
<1>3. /\ m \div 64 = (m \div 64) % 2
      /\ m \div 32 = 2 * (m \div 64) + ((m \div 32) % 2)
      /\ m \div 16 = 2 * (m \div 32) + ((m \div 16) % 2)
      /\ m \div 8 = 2 * (m \div 16) + ((m \div 8) % 2)
      /\ m \div 4 = 2 * (m \div 8) + ((m \div 4) % 2)
      /\ m \div 2 = 2 * (m \div 4) + ((m \div 2) % 2)
      /\ m = 2 * (m \div 2) + (m % 2)
  BY Halves
<1>4. n \div 64 = m \div 64
  BY <1>1, <1>2, <1>3
<1>5. n \div 32 = m \div 32
  BY <1>1, <1>2, <1>3, <1>4
<1>6. n \div 16 = m \div 16
  BY <1>1, <1>2, <1>3, <1>5
<1>7. n \div 8 = m \div 8
  BY <1>1, <1>2, <1>3, <1>6
<1>8. n \div 4 = m \div 4
  BY <1>1, <1>2, <1>3, <1>7
<1>9. n \div 2 = m \div 2
  BY <1>1, <1>2, <1>3, <1>8
<1> QED BY <1>1, <1>2, <1>3, <1>9

\* So is a data bit by the check bits that cover it.
LEMMA BitsTold ==
  ASSUME NEW d \in Bits, NEW e \in Bits,
         \A i \in 0 .. 6 : d \in Mask[i] <=> e \in Mask[i]
  PROVE  d = e
<1>1. \A i \in 0 .. 6 : HasBit(CodeIdx(d), i) <=> HasBit(CodeIdx(e), i)
  BY DEF Mask
<1>2. CodeIdx(d) \in 0 .. 127 /\ CodeIdx(e) \in 0 .. 127
  BY CodeIdxFacts
<1>3. CodeIdx(d) = CodeIdx(e)
  BY <1>1, <1>2, SevenBits
<1> QED BY <1>3, CodeIdxFacts

\* The check bits that cover a data bit.
Covering(d) == {i \in CheckBits : d \in Mask[i]}

\* Every data bit is covered by some check bit.
LEMMA BitCovered ==
  ASSUME NEW d \in Bits
  PROVE  \E i \in 0 .. 6 : d \in Mask[i]
<1>1. SUFFICES ASSUME \A i \in 0 .. 6 : ~ HasBit(CodeIdx(d), i) PROVE FALSE
  BY DEF Mask
<1>2. \A i \in 0 .. 6 : ~ HasBit(0, i)
  BY DEF HasBit, Powers
<1>3. CodeIdx(d) \in 0 .. 127 /\ CodeIdx(d) # 0
  BY CodeIdxFacts
<1>4. 0 \in 0 .. 127
  OBVIOUS
<1>5. CodeIdx(d) = 0
  BY <1>1, <1>2, <1>3, <1>4, SevenBits, Zenon
<1> QED BY <1>3, <1>5

\* The syndrome depends on the flipped bits alone.
LEMMA SyndromeOfFlips ==
  ASSUME NEW a \in SUBSET Bits, NEW c \in SUBSET Bits
  PROVE  Syndrome(a, CalculateECC(c)) = Hamming(Xor(a, c))
<1>1. Overall \notin Hamming(a) /\ Overall \notin Hamming(c) /\ Overall \notin CheckBits
  BY DEF Hamming, Overall, CheckBits
<1>2. Syndrome(a, CalculateECC(c)) = Xor(Hamming(a), Hamming(c))
  BY <1>1 DEF Syndrome, CalculateECC, Xor
<1>3. ASSUME NEW i \in CheckBits
      PROVE  Odd(Xor(a, c) \cap Mask[i]) <=> (Odd(a \cap Mask[i]) # Odd(c \cap Mask[i]))
  <2>1. Xor(a, c) \cap Mask[i] = Xor(a \cap Mask[i], c \cap Mask[i])
    BY DEF Xor
  <2>2. IsFiniteSet(a \cap Mask[i]) /\ IsFiniteSet(c \cap Mask[i])
    BY BitsFinite
  <2> QED BY <2>1, <2>2, OddXor
<1>4. Xor(Hamming(a), Hamming(c)) \subseteq CheckBits /\ Hamming(Xor(a, c)) \subseteq CheckBits
  BY DEF Hamming, Xor
<1>5. ASSUME NEW i \in CheckBits
      PROVE  i \in Xor(Hamming(a), Hamming(c)) <=> i \in Hamming(Xor(a, c))
  <2>1. /\ i \in Hamming(a) <=> Odd(a \cap Mask[i])
        /\ i \in Hamming(c) <=> Odd(c \cap Mask[i])
        /\ i \in Hamming(Xor(a, c)) <=> Odd(Xor(a, c) \cap Mask[i])
    BY DEF Hamming
  <2>2. i \in Xor(Hamming(a), Hamming(c)) <=> ~ (i \in Hamming(a) <=> i \in Hamming(c))
    BY DEF Xor
  <2> QED BY <1>3, <2>1, <2>2 DEF Odd
<1> QED BY <1>2, <1>4, <1>5

\* The overall bit differs when the flips and the syndrome differ in parity.
LEMMA OverallOfFlips ==
  ASSUME NEW a \in SUBSET Bits, NEW c \in SUBSET Bits
  PROVE  OverallDiffers(a, CalculateECC(c)) <=> (Odd(Xor(a, c)) # Odd(Hamming(Xor(a, c))))
<1>1. Overall \notin Hamming(a) /\ Overall \notin Hamming(c)
  BY DEF Hamming, Overall, CheckBits
<1>2. OverallDiffers(a, CalculateECC(c))
        <=> ((Odd(a) # Odd(Hamming(a))) # (Odd(c) # Odd(Hamming(c))))
  BY <1>1 DEF OverallDiffers, CalculateECC, Xor
<1>3. Odd(Xor(a, c)) <=> (Odd(a) # Odd(c))
  BY BitsFinite, OddXor
<1>4. Hamming(Xor(a, c)) = Xor(Hamming(a), Hamming(c))
  <2>1. Overall \notin CheckBits
    BY DEF Overall, CheckBits
  <2> QED BY <1>1, SyndromeOfFlips DEF Syndrome, CalculateECC, Xor
<1>5. IsFiniteSet(Hamming(a)) /\ IsFiniteSet(Hamming(c))
  <2>1. IsFiniteSet(CheckBits)
    <3>1. 0 \in Int /\ 6 \in Int
      OBVIOUS
    <3> QED BY <3>1, FS_Interval, Zenon DEF CheckBits
  <2> QED BY <2>1, FS_Subset DEF Hamming
<1>6. Odd(Hamming(Xor(a, c))) <=> (Odd(Hamming(a)) # Odd(Hamming(c)))
  BY <1>4, <1>5, OddXor
<1> QED BY <1>2, <1>3, <1>6 DEF Odd

LEMMA OddTwo ==
  ASSUME NEW x, NEW y, x # y
  PROVE  ~ Odd({x, y})
<1>1. IsFiniteSet({x}) /\ Cardinality({x}) = 1
  BY FS_Singleton, Zenon
<1>2. Cardinality({x} \cup {y}) = Cardinality({x}) + 1
  BY <1>1, FS_AddElement
<1>3. {x, y} = {x} \cup {y}
  OBVIOUS
<1> QED BY <1>1, <1>2, <1>3 DEF Odd

\* What one flip does to the syndrome, and two.
LEMMA OneFlip ==
  ASSUME NEW a \in SUBSET Bits, NEW c \in SUBSET Bits, NEW d \in Bits, Xor(a, c) = {d}
  PROVE  /\ Syndrome(a, CalculateECC(c)) = Covering(d)
         /\ Syndrome(a, CalculateECC(c)) # {}
         /\ Located(Syndrome(a, CalculateECC(c))) = {d}
<1> DEFINE syndrome == Syndrome(a, CalculateECC(c))
<1>1. ASSUME NEW i \in CheckBits
      PROVE  Odd({d} \cap Mask[i]) <=> d \in Mask[i]
  <2>1. CASE d \in Mask[i]
    <3>1. {d} \cap Mask[i] = {d}
      BY <2>1
    <3> QED BY <2>1, <3>1, OddOne
  <2>2. CASE d \notin Mask[i]
    <3>1. {d} \cap Mask[i] = {}
      BY <2>2
    <3> QED BY <2>2, <3>1, OddNone
  <2> QED BY <2>1, <2>2
<1>2. syndrome = Hamming({d})
  BY SyndromeOfFlips
<1>3. syndrome = Covering(d)
  BY <1>1, <1>2 DEF Hamming, Covering
<1>4. syndrome # {}
  BY <1>3, BitCovered DEF CheckBits, Covering
<1>5. \A e \in Bits, i \in 0 .. 6 : HasBit(CodeIdx(e), i) <=> e \in Mask[i]
  BY DEF Mask
<1>6. Located(syndrome) = {e \in Bits : \A i \in 0 .. 6 : d \in Mask[i] <=> e \in Mask[i]}
  <2> HIDE DEF syndrome
  <2> QED BY <1>3, <1>5 DEF Located, CheckBits, Covering
<1>7. Located(syndrome) = {d}
  <2>1. \A e \in Bits : (\A i \in 0 .. 6 : d \in Mask[i] <=> e \in Mask[i]) <=> e = d
    BY BitsTold
  <2> HIDE DEF syndrome
  <2> QED BY <1>6, <2>1
<1> QED BY <1>3, <1>4, <1>7

LEMMA TwoFlips ==
  ASSUME NEW a \in SUBSET Bits, NEW c \in SUBSET Bits, NEW d \in Bits, NEW e \in Bits,
         d # e, Xor(a, c) = {d, e}
  PROVE  /\ Syndrome(a, CalculateECC(c)) = Xor(Covering(d), Covering(e))
         /\ Syndrome(a, CalculateECC(c)) # {}
<1>1. ASSUME NEW i \in CheckBits
      PROVE  Odd({d, e} \cap Mask[i]) <=> i \in Xor(Covering(d), Covering(e))
  <2>1. i \in Xor(Covering(d), Covering(e)) <=> ~ (d \in Mask[i] <=> e \in Mask[i])
    BY DEF Xor, Covering
  <2>2. CASE d \in Mask[i] /\ e \in Mask[i]
    <3>1. {d, e} \cap Mask[i] = {d, e}
      BY <2>2
    <3> QED BY <2>1, <2>2, <3>1, OddTwo
  <2>3. CASE d \in Mask[i] /\ e \notin Mask[i]
    <3>1. {d, e} \cap Mask[i] = {d}
      BY <2>3
    <3> QED BY <2>1, <2>3, <3>1, OddOne
  <2>4. CASE d \notin Mask[i] /\ e \in Mask[i]
    <3>1. {d, e} \cap Mask[i] = {e}
      BY <2>4
    <3> QED BY <2>1, <2>4, <3>1, OddOne
  <2>5. CASE d \notin Mask[i] /\ e \notin Mask[i]
    <3>1. {d, e} \cap Mask[i] = {}
      BY <2>5
    <3> QED BY <2>1, <2>5, <3>1, OddNone
  <2> QED BY <2>2, <2>3, <2>4, <2>5
<1>2. Xor(Covering(d), Covering(e)) \subseteq CheckBits
  BY DEF Xor, Covering
<1>3. Hamming({d, e}) = Xor(Covering(d), Covering(e))
  BY <1>1, <1>2 DEF Hamming
<1>4. PICK i \in 0 .. 6 : ~ (d \in Mask[i] <=> e \in Mask[i])
  BY BitsTold
<1>5. i \in Xor(Covering(d), Covering(e))
  BY <1>4 DEF Xor, Covering, CheckBits
<1> QED BY <1>3, <1>5, SyndromeOfFlips

\* The word read against the one the ECC byte was computed from.
LEMMA Decoding ==
  ASSUME NEW a \in SUBSET Bits, NEW c \in SUBSET Bits
  PROVE  LET decoded == DecodeAndCorrect(a, CalculateECC(c))
             errors == Cardinality(Xor(a, c))
         IN  /\ errors = 0 => decoded.code = 0 /\ decoded.data = c
             /\ errors = 1 => decoded.code = 2 \/ (decoded.code = 1 /\ decoded.data = c)
             /\ errors \in 1 .. 2 => decoded.code # 0
<1> DEFINE s == Syndrome(a, CalculateECC(c))
           o == OverallDiffers(a, CalculateECC(c))
           x == Xor(a, c)
           decoded == DecodeAndCorrect(a, CalculateECC(c))
<1>0. x \in SUBSET Bits
  BY DEF Xor
<1>1. /\ s = {} /\ ~ o => decoded = [code |-> 0, data |-> a]
      /\ o => decoded = [code |-> 1, data |-> Xor(a, Located(s))]
      /\ s # {} /\ ~ o => decoded = [code |-> 2, data |-> a]
  BY DEF DecodeAndCorrect
<1>2. CASE Cardinality(x) = 0
  <2>1. x = {}
    BY <1>0, <1>2, BitsFinite, FS_EmptySet
  <2>2. a = c
    BY <2>1 DEF Xor
  <2>3. s = {} /\ ~ o
    BY <2>2 DEF Syndrome, OverallDiffers, Xor
  <2>4. decoded = [code |-> 0, data |-> c]
    BY <1>1, <2>2, <2>3
  <2> QED BY <1>2, <2>4
<1>3. CASE Cardinality(x) = 1
  <2>1. PICK d \in Bits : x = {d}
    BY <1>0, <1>3, BitsFinite, FS_Singleton
  <2>2. s # {} /\ Located(s) = {d} /\ Xor(a, {d}) = c
    <3>1. Xor(a, c) = {d}
      BY <2>1
    <3>2. Syndrome(a, CalculateECC(c)) # {}
      BY <3>1, OneFlip
    <3>3. Located(Syndrome(a, CalculateECC(c))) = {d}
      BY <3>1, OneFlip
    <3>4. Xor(a, {d}) = c
      BY <3>1 DEF Xor
    <3> QED BY <3>2, <3>3, <3>4
  <2>3. decoded = [code |-> 1, data |-> c] \/ decoded = [code |-> 2, data |-> a]
    <3> HIDE DEF s, o, decoded
    <3> QED BY <1>1, <2>2
  <2> QED BY <1>3, <2>3
<1>4. CASE Cardinality(x) = 2
  <2>1. PICK d \in x : TRUE
    BY <1>4, FS_EmptySet
  <2>2. Cardinality(x \ {d}) = 1 /\ IsFiniteSet(x \ {d})
    BY <1>0, <1>4, <2>1, BitsFinite, FS_RemoveElement
  <2>3. PICK e : x \ {d} = {e}
    BY <2>2, FS_Singleton
  <2>4. d \in Bits /\ e \in Bits /\ d # e /\ x = {d, e}
    BY <1>0, <2>1, <2>3
  <2>5. s # {}
    BY <2>4, TwoFlips
  <2>6. decoded.code # 0
    <3>1. CASE o
      BY <1>1, <3>1
    <3>2. CASE ~ o
      BY <1>1, <2>5, <3>2
    <3> QED BY <3>1, <3>2
  <2> QED BY <1>4, <2>6
<1>5. Cardinality(x) \in Nat
  BY <1>0, BitsFinite
<1>6. Cardinality(x) \in 1 .. 2 => Cardinality(x) = 1 \/ Cardinality(x) = 2
  BY <1>5
<1> QED BY <1>2, <1>3, <1>4, <1>6

\* DecodeAndCorrect puts a single flip right where an even number of check
\* bits cover the bit, and refuses the word where an odd number do: the bit 7
\* of CalculateECC is computed over check bits that the flip changes too.
THEOREM OneFlipOutcome ==
  ASSUME NEW a \in SUBSET Bits, NEW c \in SUBSET Bits, NEW d \in Bits, Xor(a, c) = {d}
  PROVE  DecodeAndCorrect(a, CalculateECC(c))
           = IF Odd(Covering(d)) THEN [code |-> 2, data |-> a] ELSE [code |-> 1, data |-> c]
<1>1. Syndrome(a, CalculateECC(c)) = Covering(d) /\ Covering(d) # {}
  BY OneFlip
<1>2. Located(Covering(d)) = {d}
  BY <1>1, OneFlip
<1>3. OverallDiffers(a, CalculateECC(c)) <=> ~ Odd(Covering(d))
  <2>1. Hamming({d}) = Covering(d)
    BY <1>1, SyndromeOfFlips
  <2>2. Odd({d})
    BY OddOne
  <2> QED BY <2>1, <2>2, OverallOfFlips DEF Odd
<1>4. Xor(a, {d}) = c
  BY DEF Xor
<1> QED BY <1>1, <1>2, <1>3, <1>4 DEF DecodeAndCorrect

\* DecodeAndCorrect refuses two flips where the syndrome has an even number of
\* bits; where it has an odd number they are taken for one flip, and a third
\* word is returned as corrected.
THEOREM TwoFlipsOutcome ==
  ASSUME NEW a \in SUBSET Bits, NEW c \in SUBSET Bits, NEW d \in Bits, NEW e \in Bits,
         d # e, Xor(a, c) = {d, e}
  PROVE  LET decoded == DecodeAndCorrect(a, CalculateECC(c))
         IN  IF Odd(Xor(Covering(d), Covering(e)))
             THEN decoded.code = 1 /\ decoded.data # c
             ELSE decoded = [code |-> 2, data |-> a]
<1> DEFINE syndrome == Xor(Covering(d), Covering(e))
<1>1. Syndrome(a, CalculateECC(c)) = syndrome /\ syndrome # {}
  BY TwoFlips
<1>2. OverallDiffers(a, CalculateECC(c)) <=> Odd(syndrome)
  <2>1. Hamming({d, e}) = syndrome
    BY <1>1, SyndromeOfFlips
  <2>2. ~ Odd({d, e})
    BY OddTwo
  <2> QED BY <2>1, <2>2, OverallOfFlips DEF Odd
<1>3. Xor(a, Located(syndrome)) # c
  <2>1. \A f, g \in Located(syndrome) : f = g
    <3>1. SUFFICES ASSUME NEW f \in Located(syndrome), NEW g \in Located(syndrome) PROVE f = g
      OBVIOUS
    <3>2. f \in Bits /\ g \in Bits
      BY DEF Located
    <3>3. \A i \in 0 .. 6 : HasBit(CodeIdx(f), i) <=> HasBit(CodeIdx(g), i)
      BY DEF Located
    <3>4. \A i \in 0 .. 6 : f \in Mask[i] <=> g \in Mask[i]
      BY <3>2, <3>3 DEF Mask
    <3> QED BY <3>2, <3>4, BitsTold
  <2> DEFINE located == Located(syndrome)
  <2>2. d \notin located \/ e \notin located
    BY <2>1
  <2> HIDE DEF located
  <2>3. Xor(a, located) # c
    BY <2>2 DEF Xor
  <2> QED BY <2>3 DEF located
<1> HIDE DEF syndrome
<1>4. CASE Odd(syndrome)
  <2>1. DecodeAndCorrect(a, CalculateECC(c)) = [code |-> 1, data |-> Xor(a, Located(syndrome))]
    BY <1>1, <1>2, <1>4 DEF DecodeAndCorrect
  <2> QED BY <1>3, <1>4, <2>1 DEF syndrome
<1>5. CASE ~ Odd(syndrome)
  <2>1. DecodeAndCorrect(a, CalculateECC(c)) = [code |-> 2, data |-> a]
    BY <1>1, <1>2, <1>5 DEF DecodeAndCorrect
  <2> QED BY <1>5, <2>1 DEF syndrome
<1> QED BY <1>4, <1>5

-----------------------------------------------------------------------------
(* The chunk and its reads *)

LEMMA EccInvInit == EccInit => EccIInv
<1> SUFFICES ASSUME EccInit PROVE EccIInv
  OBVIOUS
<1>1. EccTypeOK
  BY DEF EccInit, EccTypeOK
<1>2. CalculateECC({}) = {}
  <2>1. \A i \in CheckBits : {} \cap Mask[i] = {}
    OBVIOUS
  <2>2. Hamming({}) = {}
    BY <2>1, OddNone DEF Hamming
  <2> QED BY <2>2, OddNone DEF CalculateECC
<1> QED BY <1>1, <1>2 DEF EccInit, EccIInv, EccOfCovered, ReadExplained

LEMMA EccInvNext ==
  ASSUME EccIInv, [EccNext]_eccVars
  PROVE  EccIInv'
<1> USE DEF EccIInv
<1>1. ASSUME NEW new \in Words, NEW mask \in Masks, WriteChunk(new, mask)
      PROVE  EccIInv'
  <2>1. new \subseteq Bits
    BY WordsAssumption
  <2>2. EccTypeOK'
    BY <1>1, <2>1 DEF WriteChunk, Merge, EccTypeOK
  <2>3. EccOfCovered' /\ ReadExplained'
    BY <1>1 DEF WriteChunk, EccOfCovered, ReadExplained, NoRead
  <2> QED BY <2>2, <2>3
<1>2. ASSUME NEW d \in Drifting, Drift(d)
      PROVE  EccIInv'
  <2>1. d \in Bits
    BY FlipsAssumption
  <2>2. EccTypeOK'
    BY <1>2, <2>1 DEF Drift, Xor, EccTypeOK
  <2>3. EccOfCovered' /\ ReadExplained'
    BY <1>2 DEF Drift, EccOfCovered, ReadExplained, NoRead
  <2> QED BY <2>2, <2>3
<1>3. ASSUME NEW flips \in Flips, Read(flips)
      PROVE  EccIInv'
  <2>1. EccTypeOK' /\ EccOfCovered'
    BY <1>3 DEF Read, EccTypeOK, EccOfCovered
  <2>2. ReadFrom(Xor(word, flips))'
    BY <1>3 DEF Read, ReadFrom
  <2>3. ReadExplained'
    BY <1>3, <2>2 DEF ReadExplained
  <2> QED BY <2>1, <2>3
<1>4. CASE UNCHANGED eccVars
  <2>1. EccTypeOK' /\ EccOfCovered' /\ ReadExplained'
    BY <1>4 DEF eccVars, EccTypeOK, EccOfCovered, ReadExplained, ReadFrom
  <2> QED BY <2>1
<1> QED BY <1>1, <1>2, <1>3, <1>4 DEF EccNext

\* The ECC byte in ecc_buffer_ stays that of the word it was computed from,
\* and the last read is a decoding of the stored word with its flips.
THEOREM EccInvariance == EccSpec => []EccIInv
<1>1. EccIInv /\ [EccNext]_eccVars => EccIInv'
  BY EccInvNext
<1> QED BY <1>1, EccInvInit, PTL DEF EccSpec

\* What the invariant says of the last read.
LEMMA ReadDecoded ==
  ASSUME EccIInv
  PROVE  /\ read.code \in -1 .. 2 /\ read.errors \in Nat
         /\ read.errors = 0 /\ read.code # -1 => read.code = 0 /\ read.data = covered
         /\ read.errors = 1 => read.code = 2 \/ (read.code = 1 /\ read.data = covered)
         /\ read.errors \in 1 .. 2 => read.code # 0
<1>1. CASE read = NoRead
  BY <1>1 DEF NoRead
<1>2. ASSUME NEW flips \in Flips, ReadFrom(Xor(word, flips))
      PROVE  /\ read.code \in 0 .. 2 /\ read.errors \in Nat
             /\ read.errors = 0 => read.code = 0 /\ read.data = covered
             /\ read.errors = 1 => read.code = 2 \/ (read.code = 1 /\ read.data = covered)
             /\ read.errors \in 1 .. 2 => read.code # 0
  <2> DEFINE a == Xor(word, flips)
             decoded == DecodeAndCorrect(a, CalculateECC(covered))
  <2>1. a \in SUBSET Bits /\ covered \in SUBSET Bits
    BY FlipsAssumption DEF EccIInv, EccTypeOK, Flips, Xor
  <2>2. /\ read.code = decoded.code /\ read.data = decoded.data
        /\ read.errors = Cardinality(Xor(a, covered))
    BY <1>2 DEF ReadFrom, EccIInv, EccOfCovered
  <2>3. decoded.code \in 0 .. 2
    BY DEF DecodeAndCorrect
  <2>4. Cardinality(Xor(a, covered)) \in Nat
    <3>1. Xor(a, covered) \in SUBSET Bits
      BY <2>1 DEF Xor
    <3> QED BY <3>1, BitsFinite
  <2> HIDE DEF a
  <2> QED BY <2>1, <2>2, <2>3, <2>4, Decoding
<1> QED BY <1>1, <1>2 DEF EccIInv, ReadExplained

\* DecodeAndCorrect never reads one or two flipped bits as clean (code 0), and
\* always reads a word without any as clean.
THEOREM ErrorsAreNoticed == EccSpec => []NoErrorUnnoticed
<1>1. EccIInv => NoErrorUnnoticed
  BY ReadDecoded DEF NoErrorUnnoticed
<1> QED BY <1>1, EccInvariance, PTL

\* DecodeAndCorrect puts a single flipped bit right or refuses the word (code
\* 2): it returns no wrong word as corrected.
THEOREM SingleErrors == EccSpec => []SingleErrorRestoredOrRefused
<1>1. EccIInv => SingleErrorRestoredOrRefused
  BY ReadDecoded DEF SingleErrorRestoredOrRefused
<1> QED BY <1>1, EccInvariance, PTL

\* A word that Read accepts with one flipped bit at most is the one the host
\* wrote, if the last Write computed the ECC over that one.
THEOREM AcceptedReads == EccSpec => []AcceptedReadsAreTheHosts
<1>1. EccIInv => AcceptedReadsAreTheHosts
  BY ReadDecoded DEF AcceptedReadsAreTheHosts
<1> QED BY <1>1, EccInvariance, PTL
=============================================================================
