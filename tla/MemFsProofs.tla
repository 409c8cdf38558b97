----------------------------- MODULE MemFsProofs -----------------------------
(***************************************************************************)
(* The name space of the virtual disk for any number of nodes, handles,    *)
(* components and levels: references are exact, no insertion finds its     *)
(* name taken, the tree is closed, and the order of the map keeps a        *)
(* directory and all that is in it together.  Names are those of MemFs, on *)
(* which the code's comparison is one order; nothing is shown of others.   *)
(***************************************************************************)
EXTENDS MemFs, FiniteSetTheorems, SequenceTheorems, WellFoundedInduction, TLAPS

-----------------------------------------------------------------------------
(* Least elements. *)

\* A finite set has an element nothing precedes.
LEMMA FirstElement ==
  ASSUME NEW S, IsFiniteSet(S), S # {}, NEW R,
         \A x, y, z \in S : <<x, y>> \in R /\ <<y, z>> \in R => <<x, z>> \in R,
         \A x \in S : <<x, x>> \notin R
  PROVE  \E x \in S : \A y \in S : <<y, x>> \notin R
<1> DEFINE pred(x) == {y \in S : <<y, x>> \in R}
           preds == {pred(x) : x \in S}
           less == StrictSubsetOrdering(S)
<1>1. preds \subseteq FiniteSubsetsOf(S) /\ preds # {}
  <2>1. ASSUME NEW x \in S
        PROVE  pred(x) \in FiniteSubsetsOf(S)
    <3>1. pred(x) \in SUBSET S
      OBVIOUS
    <3> QED BY <3>1, FS_Subset DEF FiniteSubsetsOf
  <2> HIDE DEF pred
  <2> QED BY <2>1
<1>2. IsWellFoundedOn(less, FiniteSubsetsOf(S))
  BY FS_StrictSubsetOrderingWellFounded
<1>3. PICK least \in preds : \A p \in preds : ~ (<<p, least>> \in less)
  <2> HIDE DEF preds, less
  <2> QED BY <1>1, <1>2, WFMin
<1>4. PICK x \in S : least = pred(x)
  OBVIOUS
<1>5. ASSUME NEW y \in S, <<y, x>> \in R
      PROVE  FALSE
  <2>1. pred(y) \subseteq pred(x) /\ y \in pred(x) /\ y \notin pred(y)
    BY <1>5
  <2>2. <<pred(y), pred(x)>> \in less
    BY <2>1 DEF StrictSubsetOrdering
  <2> QED BY <2>2, <1>3, <1>4
<1> QED BY <1>5

LEMMA LeastNat ==
  ASSUME NEW S \in SUBSET Nat, S # {}
  PROVE  \E x \in S : \A y \in S : x <= y
<1>1. PICK n \in S : TRUE
  OBVIOUS
<1> DEFINE below == {x \in S : x <= n}
           R == {p \in Nat \X Nat : p[1] < p[2]}
<1>2. IsFiniteSet(below) /\ n \in below
  <2>1. n \in Nat /\ 0 \in Int /\ n \in Int
    BY <1>1
  <2>2. \A x \in below : x \in 0 .. n
    BY <2>1
  <2>3. IsFiniteSet(0 .. n)
    BY <2>1, FS_Interval
  <2>4. n \in below
    BY <2>1, <1>1
  <2> HIDE DEF below
  <2> QED BY <2>2, <2>3, <2>4, FS_Subset
<1>3. \A x, y \in below : <<x, y>> \in R <=> x < y
  OBVIOUS
<1>4. /\ \A x, y, z \in below : <<x, y>> \in R /\ <<y, z>> \in R => <<x, z>> \in R
      /\ \A x \in below : <<x, x>> \notin R
  BY <1>3
<1>5. PICK x \in below : \A y \in below : <<y, x>> \notin R
  <2> HIDE DEF below, R
  <2> QED BY <1>2, <1>4, FirstElement
<1>6. \A y \in S : x <= y
  <2> TAKE y \in S
  <2>0. x \in Nat /\ y \in Nat /\ n \in Nat /\ x <= n
    BY <1>1
  <2>1. CASE y \in below
    <3>1. ~ (y < x)
      BY <2>1, <1>3, <1>5
    <3> QED BY <3>1, <2>0
  <2>2. CASE y \notin below
    <3>1. ~ (y <= n)
      BY <2>2
    <3> QED BY <3>1, <2>0
  <2> QED BY <2>1, <2>2
<1> QED BY <1>6

-----------------------------------------------------------------------------
(* Names. *)

LEMMA NamesAreSeqs ==
  ASSUME NEW a
  PROVE  a \in Names <=> a \in Seq(Component) /\ Len(a) <= MaxLen
<1>1. ASSUME a \in Names PROVE a \in Seq(Component) /\ Len(a) <= MaxLen
  <2>1. PICK k \in 0 .. MaxLen : a \in [1 .. k -> Component]
    BY <1>1 DEF Names
  <2> QED BY <2>1, MemFsAssumption
<1>2. ASSUME a \in Seq(Component), Len(a) <= MaxLen PROVE a \in Names
  BY <1>2, MemFsAssumption DEF Names
<1> QED BY <1>1, <1>2

LEMMA ParentFacts ==
  ASSUME NEW a \in Names, a # Root
  PROVE  /\ Parent(a) \in Names
         /\ Len(a) \in Nat \ {0}
         /\ Len(Parent(a)) = Len(a) - 1
         /\ \A i \in 1 .. Len(a) - 1 : Parent(a)[i] = a[i]
         /\ Back(a) \in Component
         /\ a = Append(Parent(a), Back(a))
<1>1. a \in Seq(Component) /\ Len(a) <= MaxLen /\ Len(a) \in Nat \ {0}
  BY NamesAreSeqs, EmptySeq DEF Root
<1>2. MaxLen \in Nat
  BY MemFsAssumption
<1>3. /\ Parent(a) \in Seq(Component)
      /\ Len(Parent(a)) = Len(a) - 1
      /\ \A i \in 1 .. Len(a) - 1 : Parent(a)[i] = a[i]
  <2>1. \A i \in 1 .. Len(a) - 1 : a[i] \in Component
    BY <1>1
  <2>2. Parent(a) = [i \in 1 .. Len(a) - 1 |-> a[i]]
    BY <1>1 DEF Parent
  <2> QED BY <2>1, <2>2, <1>1
<1>4. Parent(a) \in Names
  BY <1>1, <1>2, <1>3, NamesAreSeqs
<1>5. Back(a) \in Component
  BY <1>1 DEF Back
<1>6. a = Append(Parent(a), Back(a))
  <2> DEFINE p == Parent(a)  c == Back(a)
  <2>1. /\ p \in Seq(Component) /\ c \in Component /\ c = a[Len(a)]
        /\ Len(p) = Len(a) - 1 /\ \A i \in 1 .. Len(a) - 1 : p[i] = a[i]
    BY <1>3, <1>5 DEF Back
  <2> HIDE DEF p, c
  <2>2. /\ Append(p, c) \in Seq(Component) /\ Len(Append(p, c)) = Len(a)
        /\ \A i \in 1 .. Len(a) : Append(p, c)[i] = a[i]
    BY <2>1, <1>1, AppendProperties
  <2>3. Append(p, c) = a
    BY <2>2, <1>1, SeqEqual
  <2> QED BY <2>3 DEF p, c
<1> QED BY <1>1, <1>3, <1>4, <1>5, <1>6

LEMMA FoldType ==
  ASSUME NEW c \in Nat
  PROVE  Fold(c) \in Nat
BY DEF Fold

\* Folded, two names are compared position by position.
LEMMA FoldedNames ==
  ASSUME NEW a \in Seq(Nat)
  PROVE  /\ Len(a) \in Nat
         /\ \A i \in 1 .. Len(a) : a[i] \in Nat /\ Fold(a[i]) \in Nat
<1>1. Len(a) \in Nat /\ \A i \in 1 .. Len(a) : a[i] \in Nat
  BY ElementOfSeq, LenProperties
<1> QED BY <1>1, FoldType

LEMMA NamesFold ==
  ASSUME NEW a \in Names
  PROVE  a \in Seq(Nat)
BY NamesAreSeqs, SeqMonotonic, MemFsAssumption

-----------------------------------------------------------------------------
(* The order of the map. *)

LEMMA BeforeIrreflexive ==
  ASSUME NEW a \in Seq(Nat), Before(a, a)
  PROVE  FALSE
BY FoldedNames DEF Before

LEMMA BeforeTransitive ==
  ASSUME NEW a \in Seq(Nat), NEW b \in Seq(Nat), NEW c \in Seq(Nat), Before(a, b), Before(b, c)
  PROVE  Before(a, c)
<1>1. PICK i \in 1 .. Len(b) :
        /\ \A j \in 1 .. i - 1 : j <= Len(a) /\ Fold(a[j]) = Fold(b[j])
        /\ i > Len(a) \/ Fold(a[i]) < Fold(b[i])
  BY DEF Before
<1>2. PICK k \in 1 .. Len(c) :
        /\ \A j \in 1 .. k - 1 : j <= Len(b) /\ Fold(b[j]) = Fold(c[j])
        /\ k > Len(b) \/ Fold(b[k]) < Fold(c[k])
  BY DEF Before
<1>3. /\ Len(a) \in Nat /\ Len(b) \in Nat /\ Len(c) \in Nat
      /\ \A j \in 1 .. Len(a) : Fold(a[j]) \in Nat
      /\ \A j \in 1 .. Len(b) : Fold(b[j]) \in Nat
      /\ \A j \in 1 .. Len(c) : Fold(c[j]) \in Nat
  BY FoldedNames
<1>4. CASE i <= k
  <2>1. i \in 1 .. Len(c)
    BY <1>3, <1>4
  <2>2. ASSUME NEW j \in 1 .. i - 1
        PROVE  j <= Len(a) /\ Fold(a[j]) = Fold(c[j])
    <3>1. j \in 1 .. k - 1
      BY <1>3, <1>4
    <3> QED BY <3>1, <1>1, <1>2
  <2>3. i > Len(a) \/ Fold(a[i]) < Fold(c[i])
    <3>1. CASE i > Len(a)
      BY <3>1
    <3>2. CASE i <= Len(a)
      <4>1. Fold(a[i]) < Fold(b[i])
        BY <3>2, <1>1, <1>3
      <4>2. Fold(a[i]) \in Nat /\ Fold(b[i]) \in Nat /\ Fold(c[i]) \in Nat
        BY <3>2, <2>1, <1>3
      <4>3. CASE i = k
        <5>1. Fold(b[i]) < Fold(c[i])
          BY <4>3, <1>2, <1>3
        <5> QED BY <4>1, <4>2, <5>1
      <4>4. CASE i # k
        <5>1. i \in 1 .. k - 1
          BY <4>4, <1>3, <1>4
        <5>2. Fold(b[i]) = Fold(c[i])
          BY <5>1, <1>2
        <5> QED BY <4>1, <5>2
      <4> QED BY <4>3, <4>4
    <3> QED BY <3>1, <3>2, <1>3
  <2> QED BY <2>1, <2>2, <2>3 DEF Before
<1>5. CASE k < i
  <2>1. \A j \in 1 .. k - 1 : j <= Len(a) /\ Fold(a[j]) = Fold(c[j])
    <3>1. ASSUME NEW j \in 1 .. k - 1
          PROVE  j <= Len(a) /\ Fold(a[j]) = Fold(c[j])
      <4>1. j \in 1 .. i - 1
        BY <1>5
      <4> QED BY <4>1, <1>1, <1>2
    <3> QED BY <3>1
  <2>2. k <= Len(a) /\ Fold(a[k]) < Fold(c[k])
    BY <1>1, <1>2, <1>3, <1>5
  <2> QED BY <2>1, <2>2 DEF Before
<1> QED BY <1>3, <1>4, <1>5

\* A name stands before the names it is a proper prefix of.
LEMMA PrefixBefore ==
  ASSUME NEW a \in Seq(Nat), NEW b \in Seq(Nat), HasPrefix(a, b), Len(b) < Len(a)
  PROVE  Before(b, a)
<1>1. Len(b) \in Nat /\ Len(a) \in Nat
  BY FoldedNames
<1>2. Len(b) + 1 \in 1 .. Len(a)
  BY <1>1
<1>3. \A j \in 1 .. (Len(b) + 1) - 1 : j <= Len(b) /\ Fold(b[j]) = Fold(a[j])
  BY <1>1 DEF HasPrefix
<1>4. Len(b) + 1 > Len(b)
  BY <1>1
<1> QED BY <1>2, <1>3, <1>4 DEF Before

LEMMA PrefixNotBefore ==
  ASSUME NEW a \in Seq(Nat), NEW b \in Seq(Nat), HasPrefix(a, b)
  PROVE  ~ Before(a, b)
BY FoldedNames DEF Before, HasPrefix

LEMMA PrefixTransitive ==
  ASSUME NEW a \in Seq(Nat), NEW b \in Seq(Nat), NEW c \in Seq(Nat), HasPrefix(a, b), HasPrefix(b, c)
  PROVE  HasPrefix(a, c)
BY FoldedNames DEF HasPrefix

\* Of two prefixes of a name the shorter is one of the longer.
LEMMA TwoPrefixes ==
  ASSUME NEW a \in Seq(Nat), NEW b \in Seq(Nat), NEW c \in Seq(Nat),
         HasPrefix(a, b), HasPrefix(a, c), Len(b) <= Len(c)
  PROVE  HasPrefix(c, b)
BY FoldedNames DEF HasPrefix

\* The names under a name are a run: what stands between it and one of them
\* is under it too.
LEMMA PrefixIsRun ==
  ASSUME NEW a \in Seq(Nat), NEW b \in Seq(Nat), NEW nm \in Seq(Nat),
         HasPrefix(a, nm), ~ Before(b, nm), ~ Before(a, b)
  PROVE  HasPrefix(b, nm)
<1> DEFINE bad == {i \in 1 .. Len(nm) : i > Len(b) \/ Fold(b[i]) # Fold(nm[i])}
<1>0. /\ Len(a) \in Nat /\ Len(b) \in Nat /\ Len(nm) \in Nat
      /\ \A j \in 1 .. Len(a) : Fold(a[j]) \in Nat
      /\ \A j \in 1 .. Len(b) : Fold(b[j]) \in Nat
      /\ \A j \in 1 .. Len(nm) : Fold(nm[j]) \in Nat
  BY FoldedNames
<1>1. SUFFICES ASSUME bad # {} PROVE FALSE
  <2>1. CASE bad = {}
    <3>1. ASSUME NEW i \in 1 .. Len(nm)
          PROVE  i <= Len(b) /\ Fold(b[i]) = Fold(nm[i])
      <4>1. ~ (i > Len(b)) /\ Fold(b[i]) = Fold(nm[i])
        BY <2>1
      <4> QED BY <4>1, <1>0
    <3>2. Len(nm) <= Len(b)
      BY <3>1, <1>0
    <3> QED BY <3>1, <3>2 DEF HasPrefix
  <2> QED BY <1>1, <2>1
<1>2. PICK i \in bad : \A j \in bad : i <= j
  <2>1. bad \in SUBSET Nat
    BY <1>0
  <2> HIDE DEF bad
  <2> QED BY <2>1, <1>1, LeastNat
<1>3. i \in 1 .. Len(nm) /\ \A j \in 1 .. i - 1 : j <= Len(b) /\ Fold(b[j]) = Fold(nm[j])
  BY <1>0, <1>2
<1>4. i <= Len(b) /\ Fold(nm[i]) < Fold(b[i])
  <2>1. ~ (i > Len(b) \/ Fold(b[i]) < Fold(nm[i]))
    BY <1>3 DEF Before
  <2>2. i <= Len(b)
    BY <2>1, <1>0
  <2>3. Fold(b[i]) # Fold(nm[i]) /\ Fold(b[i]) \in Nat /\ Fold(nm[i]) \in Nat
    BY <2>2, <1>0, <1>2
  <2> QED BY <2>1, <2>2, <2>3
<1>5. \A j \in 1 .. i - 1 : j <= Len(a) /\ Fold(a[j]) = Fold(b[j])
  <2>1. ASSUME NEW j \in 1 .. i - 1
        PROVE  j <= Len(a) /\ Fold(a[j]) = Fold(b[j])
    <3>1. j \in 1 .. Len(nm)
      BY <1>0, <1>3
    <3>2. j <= Len(a) /\ Fold(a[j]) = Fold(nm[j])
      BY <3>1, <1>0 DEF HasPrefix
    <3> QED BY <3>2, <1>3
  <2> QED BY <2>1
<1>6. Fold(a[i]) < Fold(b[i])
  BY <1>0, <1>3, <1>4 DEF HasPrefix
<1>7. i \in 1 .. Len(b)
  BY <1>0, <1>3, <1>4
<1> QED BY <1>5, <1>6, <1>7 DEF Before

\* Two names that are the same have the same prefixes and are prefixes of the
\* same names.
LEMMA SameNameFacts ==
  ASSUME NEW a \in Seq(Nat), NEW b \in Seq(Nat)
  PROVE  /\ SameName(a, a)
         /\ SameName(a, b) => SameName(b, a) /\ HasPrefix(a, b) /\ HasPrefix(b, a)
         /\ HasPrefix(a, b) /\ Len(a) <= Len(b) => SameName(a, b)
         /\ SameName(a, b) => ~ Before(a, b)
<1>1. Len(a) \in Nat /\ Len(b) \in Nat
  BY FoldedNames
<1>2. SameName(a, a)
  BY <1>1 DEF SameName, HasPrefix
<1>3. SameName(a, b) => SameName(b, a) /\ HasPrefix(a, b) /\ HasPrefix(b, a)
  BY <1>1 DEF SameName, HasPrefix
<1>4. HasPrefix(a, b) /\ Len(a) <= Len(b) => SameName(a, b)
  BY <1>1 DEF SameName, HasPrefix
<1> QED BY <1>2, <1>3, <1>4, PrefixNotBefore

LEMMA ParentIsPrefix ==
  ASSUME NEW a \in Names, a # Root
  PROVE  HasPrefix(a, Parent(a)) /\ Len(Parent(a)) < Len(a)
<1>1. /\ Len(a) \in Nat \ {0} /\ Len(Parent(a)) = Len(a) - 1
      /\ \A i \in 1 .. Len(a) - 1 : Parent(a)[i] = a[i]
  BY ParentFacts
<1> QED BY <1>1 DEF HasPrefix

\* A name under another one, and not the same, is in a directory under it.
LEMMA ParentUnderPrefix ==
  ASSUME NEW a \in Names, NEW nm \in Seq(Nat), HasPrefix(a, nm), Len(nm) < Len(a)
  PROVE  a # Root /\ HasPrefix(Parent(a), nm)
<1>1. Len(nm) \in Nat
  BY FoldedNames
<1>2. a # Root
  BY <1>1, EmptySeq DEF Root
<1>3. /\ Len(a) \in Nat \ {0} /\ Len(Parent(a)) = Len(a) - 1
      /\ \A i \in 1 .. Len(a) - 1 : Parent(a)[i] = a[i]
  BY <1>2, ParentFacts
<1>4. \A i \in 1 .. Len(nm) : Fold(Parent(a)[i]) = Fold(nm[i])
  BY <1>1, <1>3 DEF HasPrefix
<1> QED BY <1>1, <1>2, <1>3, <1>4 DEF HasPrefix

LEMMA RootIsName == Root \in Names /\ Len(Root) = 0
<1> DEFINE r == Root
<1>1. r \in Seq(Component) /\ Len(r) = 0
  BY EmptySeq DEF Root
<1> HIDE DEF r
<1>2. Len(r) <= MaxLen
  BY <1>1, MemFsAssumption
<1>3. r \in Names
  BY <1>1, <1>2, NamesAreSeqs
<1> QED BY <1>1, <1>3 DEF r

-----------------------------------------------------------------------------
(* Searches of the map. *)

LEMMA NodeNames ==
  ASSUME TypeOK, NEW n \in Node
  PROVE  name[n] \in Names /\ name[n] \in Seq(Nat)
BY NamesFold DEF TypeOK

\* The loop of Rename over the descendants misses none.
LEMMA DescendantsAreAll ==
  ASSUME TypeOK, NEW n \in map
  PROVE  Descendants(n) = {m \in map : HasPrefix(name[m], name[n])}
<1> DEFINE nm == name[n]
           left == {m \in map : ~ Before(name[m], nm)}
<1>1. \A m \in map : m \in Node /\ name[m] \in Seq(Nat)
  BY NodeNames DEF TypeOK
<1>2. ASSUME NEW m \in Descendants(n)
      PROVE  m \in map /\ HasPrefix(name[m], nm)
  <2>1. m \in left /\ \A k \in left : ~ Before(name[m], name[k]) => HasPrefix(name[k], nm)
    BY DEF Descendants, Run
  <2>2. ~ Before(name[m], name[m])
    BY <2>1, <1>1, BeforeIrreflexive
  <2> QED BY <2>1, <2>2
<1>3. ASSUME NEW m \in map, HasPrefix(name[m], nm)
      PROVE  m \in Descendants(n)
  <2>1. m \in left
    BY <1>1, <1>3, PrefixNotBefore
  <2>2. ASSUME NEW k \in left, ~ Before(name[m], name[k])
        PROVE  HasPrefix(name[k], nm)
    BY <1>1, <1>3, <2>2, PrefixIsRun
  <2> QED BY <2>1, <2>2 DEF Descendants, Run
<1> QED BY <1>2, <1>3

\* The first name after that of a directory is in it, if anything is.
LEMMA NextIsChild ==
  ASSUME TypeOK, TreeIsClosed, NEW n \in map
  PROVE  HasChild(n) <=> \E m \in map : name[m] # Root /\ SameName(Parent(name[m]), name[n])
<1> DEFINE nm == name[n]
           after == {m \in map : Before(nm, name[m])}
           R == {p \in map \X map : Before(name[p[1]], name[p[2]])}
<1>1. \A m \in map : m \in Node /\ name[m] \in Names /\ name[m] \in Seq(Nat)
  BY NodeNames DEF TypeOK
<1>2. SUFFICES ASSUME NEW m \in map, name[m] # Root, SameName(Parent(name[m]), nm)
               PROVE  HasChild(n)
  BY DEF HasChild
<1>3. HasPrefix(name[m], nm) /\ Len(nm) < Len(name[m])
  <2>1. HasPrefix(name[m], Parent(name[m])) /\ Len(Parent(name[m])) < Len(name[m])
    BY <1>1, <1>2, ParentIsPrefix
  <2>2. Parent(name[m]) \in Seq(Nat)
    BY <1>1, <1>2, ParentFacts, NamesFold
  <2>3. HasPrefix(Parent(name[m]), nm) /\ Len(Parent(name[m])) = Len(nm)
    BY <1>1, <1>2, <2>2, SameNameFacts DEF SameName
  <2> QED BY <1>1, <2>1, <2>2, <2>3, PrefixTransitive
<1>4. m \in after
  BY <1>1, <1>3, PrefixBefore
<1>5. PICK k \in after : \A j \in after : ~ Before(name[j], name[k])
  <2>1. IsFiniteSet(after)
    BY MemFsAssumption, FS_Subset DEF TypeOK
  <2>2. \A x, y \in after : <<x, y>> \in R <=> Before(name[x], name[y])
    OBVIOUS
  <2>3. \A x, y, z \in after : <<x, y>> \in R /\ <<y, z>> \in R => <<x, z>> \in R
    BY <1>1, <2>2, BeforeTransitive
  <2>4. \A x \in after : <<x, x>> \notin R
    BY <1>1, <2>2, BeforeIrreflexive
  <2>5. \E x \in after : \A y \in after : <<y, x>> \notin R
    <3> HIDE DEF after, R
    <3> QED BY <1>4, <2>1, <2>3, <2>4, FirstElement
  <2> QED BY <2>2, <2>5
<1>6. k \in map /\ Before(nm, name[k])
  OBVIOUS
<1>7. HasPrefix(name[k], nm)
  <2>1. ~ Before(name[k], nm)
    BY <1>1, <1>6, BeforeTransitive, BeforeIrreflexive
  <2>2. ~ Before(name[m], name[k])
    BY <1>4, <1>5
  <2> QED BY <2>1, <2>2, <1>1, <1>3, <1>6, PrefixIsRun
<1>8. Len(nm) < Len(name[k])
  <2>1. Len(nm) \in Nat /\ Len(name[k]) \in Nat
    BY <1>1, <1>6, FoldedNames
  <2>2. SUFFICES ASSUME Len(name[k]) <= Len(nm) PROVE FALSE
    BY <2>1
  <2>3. SameName(name[k], nm)
    BY <2>2, <1>1, <1>6, <1>7, SameNameFacts
  <2> QED BY <2>3, <1>1, <1>6, SameNameFacts
<1>9. name[k] # Root /\ HasPrefix(Parent(name[k]), nm)
  BY <1>1, <1>6, <1>7, <1>8, ParentUnderPrefix
<1>10. PICK p \in map : name[p] = Parent(name[k])
  BY <1>6, <1>9 DEF TreeIsClosed
<1>11. Before(name[p], name[k])
  BY <1>1, <1>6, <1>9, <1>10, ParentIsPrefix, PrefixBefore
<1>12. p \notin after
  BY <1>5, <1>11
<1>13. SameName(Parent(name[k]), nm)
  <2>1. ~ (Len(nm) < Len(name[p]))
    BY <1>1, <1>9, <1>10, <1>12, PrefixBefore
  <2>2. Len(nm) \in Nat /\ Len(name[p]) \in Nat
    BY <1>1, FoldedNames
  <2> QED BY <2>1, <2>2, <1>1, <1>9, <1>10, SameNameFacts
<1> QED BY <1>5, <1>6, <1>9, <1>13 DEF HasChild

LEMMA FindIsNode ==
  ASSUME TypeOK, NamesDiffer, NEW n \in map
  PROVE  Find(name[n]) = {n}
<1>1. \A m \in map : m \in Node /\ name[m] \in Seq(Nat)
  BY NodeNames DEF TypeOK
<1>2. n \in Find(name[n])
  BY <1>1, SameNameFacts DEF Find
<1> QED BY <1>1, <1>2 DEF Find, NamesDiffer

-----------------------------------------------------------------------------
(* References. *)

LEMMA UsersFacts ==
  ASSUME NEW n
  PROVE  IsFiniteSet(UsersOf(n)) /\ Cardinality(UsersOf(n)) \in Nat
BY MemFsAssumption, FS_Subset, FS_CardinalityType DEF UsersOf

\* A node somebody has open, or that is in the map, is counted.
LEMMA ReferredFacts ==
  ASSUME References
  PROVE  /\ map \subseteq heap
         /\ \A n \in Node, h \in Handle :
              open[h] = n => ref[n] >= 1 + (IF n \in map THEN 1 ELSE 0)
         /\ \A n \in Node \ heap : UsersOf(n) = {} /\ ref[n] = 0
<1>1. \A n \in Node : /\ ref[n] \in Nat
                      /\ ref[n] = Cardinality(UsersOf(n)) + (IF n \in map THEN 1 ELSE 0)
                      /\ n \in heap <=> ref[n] > 0
  BY DEF References, TypeOK
<1>2. map \subseteq heap
  BY <1>1, UsersFacts DEF References, TypeOK
<1>3. \A n \in Node, h \in Handle : open[h] = n => ref[n] >= 1 + (IF n \in map THEN 1 ELSE 0)
  <2> SUFFICES ASSUME NEW n \in Node, NEW h \in Handle, open[h] = n
               PROVE  Cardinality(UsersOf(n)) >= 1
    BY <1>1, UsersFacts
  <2>1. UsersOf(n) # {}
    BY DEF UsersOf
  <2>2. Cardinality(UsersOf(n)) # 0
    BY <2>1, UsersFacts, FS_EmptySet
  <2> QED BY <2>2, UsersFacts
<1>4. \A n \in Node \ heap : UsersOf(n) = {} /\ ref[n] = 0
  <2> SUFFICES ASSUME NEW n \in Node \ heap PROVE UsersOf(n) = {} /\ ref[n] = 0
    OBVIOUS
  <2>1. ref[n] = 0 /\ Cardinality(UsersOf(n)) = 0
    BY <1>1, UsersFacts
  <2> QED BY <2>1, UsersFacts, FS_EmptySet
<1> QED BY <1>2, <1>3, <1>4

\* A handle is given a node, or gives it back: one user more, or one less.
LEMMA UserComes ==
  ASSUME NEW h \in Handle, NEW n \in Node, open \in [Handle -> Node \cup {None}],
         open[h] = None, open' = [open EXCEPT ![h] = n]
  PROVE  \A m \in Node : Cardinality(UsersOf(m)') =
                           Cardinality(UsersOf(m)) + (IF m = n THEN 1 ELSE 0)
<1> SUFFICES ASSUME NEW m \in Node
             PROVE  Cardinality(UsersOf(m)') = Cardinality(UsersOf(m)) + (IF m = n THEN 1 ELSE 0)
  OBVIOUS
<1>1. None \notin Node
  BY MemFsAssumption
<1>2. CASE m = n
  <2>1. UsersOf(m)' = UsersOf(m) \cup {h} /\ h \notin UsersOf(m)
    BY <1>1, <1>2 DEF UsersOf
  <2>2. Cardinality(UsersOf(m) \cup {h}) = Cardinality(UsersOf(m)) + 1
    BY <2>1, UsersFacts, FS_AddElement
  <2> QED BY <2>1, <2>2, <1>2
<1>3. CASE m # n
  <2>1. UsersOf(m)' = UsersOf(m)
    BY <1>1, <1>3 DEF UsersOf
  <2> QED BY <2>1, <1>3, UsersFacts
<1> QED BY <1>2, <1>3

LEMMA UserGoes ==
  ASSUME NEW h \in Handle, NEW n \in Node, open \in [Handle -> Node \cup {None}],
         open[h] = n, open' = [open EXCEPT ![h] = None]
  PROVE  \A m \in Node : Cardinality(UsersOf(m)') =
                           Cardinality(UsersOf(m)) - (IF m = n THEN 1 ELSE 0)
<1> SUFFICES ASSUME NEW m \in Node
             PROVE  Cardinality(UsersOf(m)') = Cardinality(UsersOf(m)) - (IF m = n THEN 1 ELSE 0)
  OBVIOUS
<1>1. None \notin Node
  BY MemFsAssumption
<1>2. CASE m = n
  <2>1. UsersOf(m)' = UsersOf(m) \ {h} /\ h \in UsersOf(m)
    BY <1>1, <1>2 DEF UsersOf
  <2>2. Cardinality(UsersOf(m) \ {h}) = Cardinality(UsersOf(m)) - 1
    BY <2>1, UsersFacts, FS_RemoveElement
  <2> QED BY <2>1, <2>2, <1>2
<1>3. CASE m # n
  <2>1. UsersOf(m)' = UsersOf(m)
    BY <1>1, <1>3 DEF UsersOf
  <2> QED BY <2>1, <1>3, UsersFacts
<1> QED BY <1>2, <1>3

LEMMA SameUsers ==
  ASSUME open' = open
  PROVE  \A m \in Node : UsersOf(m)' = UsersOf(m)
BY DEF UsersOf

LEMMA ScanTyped ==
  ASSUME TypeOK, ScanGoesOn
  PROVE  scan' \in Scans
<1>1. Idle \in Scans
  BY DEF Idle, Scans
<1> QED BY <1>1 DEF TypeOK, ScanGoesOn

-----------------------------------------------------------------------------
(* The steps that leave the map and the names of its nodes alone. *)

LEMMA QuietStep ==
  ASSUME NamesDiffer, TreeIsClosed, References', map' = map,
         UNCHANGED caseInsensitive,
         \A n \in map : name'[n] = name[n] /\ dir'[n] = dir[n]
  PROVE  NamesDiffer' /\ TreeIsClosed'
<1>1. NamesDiffer'
  BY SMTT(30) DEF NamesDiffer, SameName, HasPrefix, Fold
<1>2. TreeIsClosed'
  BY SMTT(30) DEF TreeIsClosed
<1> QED BY <1>1, <1>2

LEMMA InitEstablishes == Init => IInv
<1> SUFFICES ASSUME Init PROVE IInv
  OBVIOUS
<1>0. PICK insensitive \in BOOLEAN, root \in Node :
        \E disk \in (Node \ {root}) \cup {None} : Formatted(insensitive, root, disk)
  BY DEF Init
<1>1. PICK disk \in (Node \ {root}) \cup {None} : Formatted(insensitive, root, disk)
  BY <1>0
<1>2. NoHandles /\ None \notin Node /\ Disk \in Component /\ MaxLen \in Nat \ {0}
  BY MemFsAssumption DEF Init
<1> DEFINE made == {root, disk} \ {None}
           d == DiskName
<1>3. made \subseteq Node /\ root \in made
  BY <1>2
<1>4. d \in Names /\ d # Root /\ Parent(d) = Root /\ Len(d) = 1
  <2>1. d \in Seq(Component) /\ Len(d) = 1
    BY <1>2 DEF DiskName
  <2>2. Parent(d) = Root /\ d # Root
    BY <2>1 DEF Parent, Root
  <2> HIDE DEF d
  <2>3. Len(d) <= MaxLen
    BY <2>1, <1>2
  <2>4. d \in Names
    BY <2>1, <2>3, NamesAreSeqs
  <2> QED BY <2>1, <2>2, <2>4
<1> HIDE DEF d
<1>5. /\ heap = made /\ map = made
      /\ name = [n \in Node |-> IF n = disk THEN d ELSE Root]
      /\ dir = [n \in Node |-> n = root]
      /\ ref = [n \in Node |-> IF n \in made THEN 1 ELSE 0]
      /\ caseInsensitive \in BOOLEAN
  BY <1>1 DEF Formatted, d
<1> HIDE DEF made
<1>6. TypeOK
  <2>1. scan \in Scans
    BY <1>2 DEF NoHandles, Idle, Scans
  <2>2. Root \in Names
    BY RootIsName
  <2>3. name \in [Node -> Names]
    BY <2>2, <1>4, <1>5
  <2>4. dir \in [Node -> BOOLEAN]
    BY <1>5
  <2>5. ref \in [Node -> Nat]
    BY <1>5
  <2>6. /\ open \in [Handle -> Node \cup {None}]
        /\ cleaned \subseteq {h \in Handle : open[h] # None}
        /\ onClose \subseteq deleting /\ deleting \subseteq Node
    BY <1>2 DEF NoHandles
  <2> QED BY <2>1, <2>3, <2>4, <2>5, <2>6, <1>3, <1>5 DEF TypeOK
<1>7. References
  <2>1. \A n \in Node : UsersOf(n) = {}
    BY <1>2 DEF UsersOf, NoHandles
  <2>2. \A n \in Node : Cardinality(UsersOf(n)) = 0
    BY <2>1, FS_EmptySet
  <2>3. heap = {n \in Node : ref[n] > 0}
    BY <1>3, <1>5
  <2> QED BY <2>2, <2>3, <1>5, <1>6 DEF References
<1>8. made \subseteq {root, disk} /\ disk # root /\ name[root] = Root
  BY <1>2, <1>5 DEF made
<1>9. NamesDiffer
  <2>1. Len(name[root]) = 0
    BY <1>8, RootIsName
  <2>2. disk \in made => Len(name[disk]) = 1
    BY <1>3, <1>4, <1>5
  <2>3. ASSUME NEW m \in made, NEW n \in made, Len(name[m]) = Len(name[n])
        PROVE  m = n
    BY <2>1, <2>2, <2>3, <1>8
  <2> QED BY <2>3, <1>5 DEF NamesDiffer, SameName
<1>10. TreeIsClosed
  BY <1>3, <1>4, <1>5, <1>8 DEF TreeIsClosed
<1>11. MarksAreSound
  BY <1>2 DEF MarksAreSound, NoHandles
<1> QED BY <1>7, <1>9, <1>10, <1>11 DEF IInv

LEMMA OpenStep ==
  ASSUME IInv, NEW h \in Handle, NEW n \in Node, NEW deleteOnClose \in BOOLEAN,
         Open(h, n, deleteOnClose)
  PROVE  IInv'
<1>1. /\ References /\ TypeOK /\ NamesDiffer /\ TreeIsClosed /\ MarksAreSound
      /\ n \in map /\ open[h] = None
      /\ open' = [open EXCEPT ![h] = n]
      /\ ref' = [ref EXCEPT ![n] = @ + 1]
      /\ UNCHANGED <<caseInsensitive, heap, name, dir, map, cleaned>>
      /\ ScanGoesOn
  BY DEF IInv, References, Open
<1>2. \/ UNCHANGED pending
      \/ deleting' = deleting \cup {n} /\ onClose' = onClose \cup {n}
  BY DEF Open
<1>3. TypeOK'
  <2>1. /\ ref' \in [Node -> Nat] /\ open' \in [Handle -> Node \cup {None}]
        /\ cleaned' \subseteq {g \in Handle : open'[g] # None}
    BY <1>1, MemFsAssumption DEF TypeOK
  <2>2. onClose' \subseteq deleting' /\ deleting' \subseteq Node
    BY <1>1, <1>2 DEF TypeOK, pending
  <2> QED BY <2>1, <2>2, <1>1, ScanTyped DEF TypeOK
<1>4. References'
  <2>1. \A m \in Node : ref'[m] = ref[m] + (IF m = n THEN 1 ELSE 0)
    BY <1>1 DEF TypeOK
  <2>2. \A m \in Node : Cardinality(UsersOf(m)') = Cardinality(UsersOf(m)) + (IF m = n THEN 1 ELSE 0)
    BY <1>1, UserComes DEF TypeOK
  <2>3. ASSUME NEW m \in Node
        PROVE  ref'[m] = Cardinality(UsersOf(m)') + (IF m \in map' THEN 1 ELSE 0)
    BY <2>1, <2>2, <1>1, UsersFacts DEF References
  <2>4. n \in heap
    BY <1>1, ReferredFacts
  <2>5. heap' = {m \in Node : ref'[m] > 0}
    BY <2>1, <2>4, <1>1 DEF References, TypeOK
  <2> QED BY <2>3, <2>5, <1>3 DEF References
<1>5. NamesDiffer' /\ TreeIsClosed'
  BY <1>1, <1>4, QuietStep
<1>6. MarksAreSound'
  BY <1>1, <1>2 DEF MarksAreSound, pending
<1> QED BY <1>4, <1>5, <1>6 DEF IInv

\* CanDelete, KeepFile and Cleanup only touch the marks of WinFsp.
LEMMA MarkStep ==
  ASSUME IInv, NEW h \in Handle, CanDelete(h) \/ KeepFile(h) \/ Cleanup(h)
  PROVE  IInv'
<1>1. /\ References /\ TypeOK /\ NamesDiffer /\ TreeIsClosed /\ MarksAreSound
      /\ Usable(h)
      /\ UNCHANGED <<caseInsensitive, nodes, open>>
      /\ ScanGoesOn
  BY DEF IInv, References, CanDelete, KeepFile, Cleanup
<1>2. open[h] \in Node
  BY <1>1 DEF Usable, TypeOK
<1>3. /\ onClose' \subseteq deleting' /\ deleting' \subseteq map
      /\ \A n \in deleting' : name[n] = DiskName => n \in onClose'
      /\ cleaned' \subseteq cleaned \cup {h}
  <2>1. CASE CanDelete(h)
    BY <2>1, <1>1 DEF CanDelete, Protected, TypeOK, MarksAreSound
  <2>2. CASE KeepFile(h)
    BY <2>2, <1>1 DEF KeepFile, TypeOK, MarksAreSound
  <2>3. CASE Cleanup(h)
    BY <2>3, <1>1 DEF Cleanup, TypeOK, MarksAreSound, pending
  <2> QED BY <2>1, <2>2, <2>3
<1>4. TypeOK'
  BY <1>1, <1>2, <1>3, ScanTyped DEF TypeOK, nodes, Usable
<1>5. References'
  BY <1>1, <1>4, SameUsers DEF References, nodes
<1>6. NamesDiffer' /\ TreeIsClosed'
  BY <1>1, <1>5, QuietStep DEF nodes
<1>7. MarksAreSound'
  BY <1>1, <1>3 DEF MarksAreSound, nodes
<1> QED BY <1>5, <1>6, <1>7 DEF IInv

-----------------------------------------------------------------------------
(* Create. *)

LEMMA ParentOfAppend ==
  ASSUME NEW a \in Seq(Component), NEW c \in Component
  PROVE  /\ Append(a, c) \in Seq(Component) /\ Len(Append(a, c)) = Len(a) + 1
         /\ Len(a) \in Nat
         /\ Parent(Append(a, c)) = a
         /\ Back(Append(a, c)) = c
         /\ \A i \in 1 .. Len(a) : Append(a, c)[i] = a[i]
<1> DEFINE b == Append(a, c)
<1>1. /\ b \in Seq(Component) /\ Len(b) = Len(a) + 1 /\ Len(a) \in Nat
      /\ b[Len(a) + 1] = c
      /\ \A i \in 1 .. Len(a) : b[i] = a[i]
  BY AppendProperties, LenProperties
<1> HIDE DEF b
<1>2. Parent(b) = [i \in 1 .. Len(a) |-> b[i]]
  BY <1>1 DEF Parent
<1>3. a = [i \in 1 .. Len(a) |-> a[i]]
  BY LenProperties
<1>4. Parent(b) = a
  BY <1>1, <1>2, <1>3
<1>5. Back(b) = c
  BY <1>1 DEF Back
<1> QED BY <1>1, <1>4, <1>5 DEF b

\* A new file is in the directory that was found, spelled as it is.
LEMMA NewNameFacts ==
  ASSUME TypeOK, NEW nm \in Names, nm # Root, NEW p \in Find(Parent(nm))
  PROVE  /\ NewName(nm, p) \in Names
         /\ NewName(nm, p) # Root
         /\ SameName(NewName(nm, p), nm)
         /\ Parent(NewName(nm, p)) = name[p]
<1> DEFINE a == name[p]  c == Back(nm)
<1>1. /\ Parent(nm) \in Names /\ Len(nm) \in Nat \ {0} /\ Len(Parent(nm)) = Len(nm) - 1
      /\ \A i \in 1 .. Len(nm) - 1 : Parent(nm)[i] = nm[i]
      /\ c \in Component /\ nm = Append(Parent(nm), c)
  BY ParentFacts
<1>2. p \in map /\ SameName(a, Parent(nm))
  BY DEF Find
<1>3. a \in Names /\ a \in Seq(Component) /\ Len(nm) <= MaxLen /\ Parent(nm) \in Seq(Component)
  BY <1>1, <1>2, NodeNames, NamesAreSeqs DEF TypeOK
<1>4. Len(a) = Len(nm) - 1 /\ \A i \in 1 .. Len(nm) - 1 : Fold(a[i]) = Fold(nm[i])
  BY <1>1, <1>2 DEF SameName, HasPrefix
<1>5. CASE caseInsensitive
  <2> DEFINE x == Append(a, c)
  <2>1. /\ x \in Seq(Component) /\ Len(x) = Len(a) + 1
        /\ Parent(x) = a /\ Back(x) = c
        /\ \A i \in 1 .. Len(a) : x[i] = a[i]
    BY <1>1, <1>3, ParentOfAppend
  <2>2. NewName(nm, p) = x
    BY <1>5 DEF NewName
  <2> HIDE DEF x
  <2>3. x[Len(nm)] = nm[Len(nm)] /\ Len(x) = Len(nm)
    BY <2>1, <1>1, <1>4 DEF Back
  <2>4. SameName(x, nm)
    BY <2>1, <2>3, <1>1, <1>4 DEF SameName, HasPrefix
  <2>5. x # Root
    BY <2>3, <1>1, RootIsName
  <2>6. Len(x) <= MaxLen
    BY <2>3, <1>3
  <2>7. x \in Names
    BY <2>1, <2>6, NamesAreSeqs
  <2> QED BY <2>1, <2>2, <2>4, <2>5, <2>7
<1>6. CASE ~ caseInsensitive
  <2>1. NewName(nm, p) = nm
    BY <1>6 DEF NewName
  <2>2. \A i \in 1 .. Len(a) : a[i] = Parent(nm)[i]
    BY <1>1, <1>4, <1>6 DEF Fold
  <2>3. a = Parent(nm)
    BY <2>2, <1>1, <1>3, <1>4, SeqEqual
  <2> QED BY <2>1, <2>3, NamesFold, SameNameFacts
<1> QED BY <1>5, <1>6

LEMMA SameNameTransitive ==
  ASSUME NEW a \in Seq(Nat), NEW b \in Seq(Nat), NEW c \in Seq(Nat), SameName(a, b), SameName(b, c)
  PROVE  SameName(a, c)
BY FoldedNames DEF SameName, HasPrefix

LEMMA CreateStep ==
  ASSUME IInv, NEW h \in Handle, NEW nm \in Names, NEW isDir \in BOOLEAN, Create(h, nm, isDir)
  PROVE  IInv'
<1>1. /\ References /\ TypeOK /\ NamesDiffer /\ TreeIsClosed /\ MarksAreSound
      /\ open[h] = None /\ nm # Root /\ Find(nm) = {}
      /\ UNCHANGED <<caseInsensitive, cleaned, pending>>
      /\ ScanGoesOn
  BY DEF IInv, References, Create, MayCreate
<1>2. PICK p \in Find(Parent(nm)), n \in Node \ heap :
       /\ dir[p]
       /\ heap' = heap \cup {n}
       /\ name' = [name EXCEPT ![n] = NewName(nm, p)]
       /\ dir' = [dir EXCEPT ![n] = isDir]
       /\ map' = map \cup {n}
       /\ ref' = [ref EXCEPT ![n] = 2]
       /\ open' = [open EXCEPT ![h] = n]
  BY DEF Create
<1> DEFINE x == NewName(nm, p)
<1>3. x \in Names /\ x # Root /\ SameName(x, nm) /\ Parent(x) = name[p]
  BY <1>1, NewNameFacts
<1> HIDE DEF x
<1>4. /\ n \notin map /\ UsersOf(n) = {} /\ ref[n] = 0 /\ p \in map /\ p # n
      /\ map \subseteq heap
  BY <1>1, ReferredFacts DEF Find
<1>5. /\ name' = [name EXCEPT ![n] = x]
      /\ name'[n] = x /\ \A m \in Node : m # n => name'[m] = name[m]
      /\ \A m \in Node : m # n => dir'[m] = dir[m]
  BY <1>1, <1>2 DEF TypeOK, x
<1>6. TypeOK'
  <2>1. name' \in [Node -> Names] /\ dir' \in [Node -> BOOLEAN] /\ ref' \in [Node -> Nat]
    BY <1>1, <1>2, <1>3, <1>5 DEF TypeOK
  <2>2. /\ open' \in [Handle -> Node \cup {None}]
        /\ cleaned' \subseteq {g \in Handle : open'[g] # None}
    BY <1>1, <1>2, MemFsAssumption DEF TypeOK
  <2> QED BY <2>1, <2>2, <1>1, <1>2, ScanTyped DEF TypeOK, pending
<1>7. References'
  <2>1. \A m \in Node : Cardinality(UsersOf(m)') = Cardinality(UsersOf(m)) + (IF m = n THEN 1 ELSE 0)
    BY <1>1, <1>2, UserComes DEF TypeOK
  <2>2. Cardinality(UsersOf(n)) = 0
    BY <1>4, FS_EmptySet
  <2>3. \A m \in Node : ref'[m] = IF m = n THEN 2 ELSE ref[m]
    BY <1>1, <1>2 DEF TypeOK
  <2>4. ASSUME NEW m \in Node
        PROVE  ref'[m] = Cardinality(UsersOf(m)') + (IF m \in map' THEN 1 ELSE 0)
    BY <2>1, <2>2, <2>3, <1>1, <1>2, <1>4, UsersFacts DEF References
  <2>5. heap' = {m \in Node : ref'[m] > 0}
    BY <2>3, <1>1, <1>2 DEF References, TypeOK
  <2> QED BY <2>4, <2>5, <1>6 DEF References
<1>8. \A k \in map : k \in Node /\ k # n /\ name[k] \in Seq(Nat) /\ ~ SameName(name[k], x)
  <2> TAKE k \in map
  <2>1. k \in Node /\ k # n /\ name[k] \in Seq(Nat)
    BY <1>1, <1>4, NodeNames DEF TypeOK
  <2>2. ~ SameName(name[k], nm)
    BY <1>1 DEF Find
  <2> QED BY <2>1, <2>2, <1>3, NamesFold, SameNameTransitive
<1>9. /\ \A a, b : SameName(a, b)' <=> SameName(a, b)
      /\ \A k \in map : name'[k] = name[k] /\ dir'[k] = dir[k]
  BY <1>1, <1>5, <1>8 DEF SameName, HasPrefix, Fold
<1>10. NamesDiffer'
  <2> SUFFICES ASSUME NEW k \in map', NEW m \in map', SameName(name'[k], name'[m])
               PROVE  k = m
    BY <1>9 DEF NamesDiffer
  <2>1. CASE k \in map /\ m \in map
    BY <2>1, <1>1, <1>9 DEF NamesDiffer
  <2>2. CASE k = n /\ m \in map
    <3>1. SameName(x, name[m])
      BY <2>2, <1>5, <1>9
    <3> QED BY <3>1, <2>2, <1>3, <1>8, NamesFold, SameNameFacts
  <2>3. CASE k \in map /\ m = n
    BY <2>3, <1>5, <1>8, <1>9
  <2> QED BY <2>1, <2>2, <2>3, <1>2
<1>11. TreeIsClosed'
  <2> SUFFICES ASSUME NEW k \in map', name'[k] # Root
               PROVE  \E q \in map' : dir'[q] /\ name'[q] = Parent(name'[k])
    BY DEF TreeIsClosed
  <2>1. CASE k \in map
    BY <2>1, <1>1, <1>2, <1>9 DEF TreeIsClosed
  <2>2. CASE k = n
    <3>1. name'[p] = Parent(name'[k]) /\ dir'[p] /\ p \in map'
      BY <2>2, <1>2, <1>3, <1>4, <1>5, <1>9
    <3> QED BY <3>1
  <2> QED BY <2>1, <2>2, <1>2
<1>12. MarksAreSound'
  BY <1>1, <1>2, <1>4, <1>5 DEF MarksAreSound, pending, TypeOK
<1> QED BY <1>7, <1>10, <1>11, <1>12 DEF IInv

-----------------------------------------------------------------------------
(* Close and a deleting Cleanup. *)

\* A node that somebody else refers to too survives a dereference.
LEMMA DereferenceFacts ==
  ASSUME TypeOK, References, NEW n \in Node, ref[n] >= 1, Dereference(n)
  PROVE  /\ ref' \in [Node -> Nat] /\ name' \in [Node -> Names] /\ dir' \in [Node -> BOOLEAN]
         /\ heap' \subseteq heap
         /\ \A m \in Node : ref'[m] = ref[m] - (IF m = n THEN 1 ELSE 0)
         /\ heap' = {m \in Node : ref'[m] > 0}
         /\ \A m \in Node : m # n \/ ref[n] >= 2 => name'[m] = name[m] /\ dir'[m] = dir[m]
<1>1. /\ ref \in [Node -> Nat] /\ name \in [Node -> Names] /\ dir \in [Node -> BOOLEAN]
      /\ heap = {m \in Node : ref[m] > 0}
  BY DEF TypeOK, References
<1>2. /\ ref' = [ref EXCEPT ![n] = @ - 1]
      /\ \A m \in Node : ref'[m] = ref[m] - (IF m = n THEN 1 ELSE 0)
      /\ ref' \in [Node -> Nat]
  BY <1>1 DEF Dereference
<1>3. CASE ref[n] = 1
  <2>1. /\ heap' = heap \ {n}
        /\ name' = [name EXCEPT ![n] = Root]
        /\ dir' = [dir EXCEPT ![n] = FALSE]
    BY <1>3 DEF Dereference
  <2>2. name' \in [Node -> Names] /\ dir' \in [Node -> BOOLEAN]
    BY <2>1, <1>1, RootIsName
  <2>3. heap' = {m \in Node : ref'[m] > 0}
    BY <2>1, <1>1, <1>2, <1>3
  <2> QED BY <2>1, <2>2, <2>3, <1>1, <1>2, <1>3
<1>4. CASE ref[n] # 1
  <2>1. UNCHANGED <<heap, name, dir>>
    BY <1>4 DEF Dereference
  <2>2. heap' = {m \in Node : ref'[m] > 0}
    BY <2>1, <1>1, <1>2, <1>4
  <2> QED BY <2>1, <2>2, <1>1, <1>2
<1> QED BY <1>3, <1>4

LEMMA CloseStep ==
  ASSUME IInv, NEW h \in Handle, Close(h)
  PROVE  IInv'
<1> DEFINE n == open[h]
<1>1. /\ References /\ TypeOK /\ NamesDiffer /\ TreeIsClosed /\ MarksAreSound
      /\ h \in cleaned
      /\ Dereference(n)
      /\ open' = [open EXCEPT ![h] = None]
      /\ cleaned' = cleaned \ {h}
      /\ UNCHANGED <<caseInsensitive, map, pending>>
      /\ ScanGoesOn
  BY DEF IInv, References, Close
<1>2. n \in Node
  BY <1>1 DEF TypeOK
<1>3. ref[n] >= 1 + (IF n \in map THEN 1 ELSE 0) /\ ref[n] \in Nat
  BY <1>1, <1>2, ReferredFacts DEF TypeOK
<1>4. /\ ref[n] >= 1
      /\ n \in map => ref[n] >= 2
  BY <1>3
<1> HIDE DEF n
<1>5. /\ ref' \in [Node -> Nat] /\ name' \in [Node -> Names] /\ dir' \in [Node -> BOOLEAN]
      /\ heap' \subseteq heap
      /\ \A m \in Node : ref'[m] = ref[m] - (IF m = n THEN 1 ELSE 0)
      /\ heap' = {m \in Node : ref'[m] > 0}
      /\ \A m \in Node : m # n \/ ref[n] >= 2 => name'[m] = name[m] /\ dir'[m] = dir[m]
  BY <1>1, <1>2, <1>4, DereferenceFacts
<1>6. TypeOK'
  <2>1. /\ open' \in [Handle -> Node \cup {None}]
        /\ cleaned' \subseteq {g \in Handle : open'[g] # None}
    BY <1>1 DEF TypeOK
  <2> QED BY <2>1, <1>1, <1>5, ScanTyped DEF TypeOK, pending
<1>7. References'
  <2>1. \A m \in Node : Cardinality(UsersOf(m)') = Cardinality(UsersOf(m)) - (IF m = n THEN 1 ELSE 0)
    BY <1>1, <1>2, UserGoes DEF TypeOK, n
  <2>2. ASSUME NEW m \in Node
        PROVE  ref'[m] = Cardinality(UsersOf(m)') + (IF m \in map' THEN 1 ELSE 0)
    BY <2>1, <1>1, <1>5, UsersFacts DEF References
  <2> QED BY <2>2, <1>5, <1>6 DEF References
<1>8. \A m \in map : name'[m] = name[m] /\ dir'[m] = dir[m]
  BY <1>1, <1>4, <1>5 DEF TypeOK
<1>9. NamesDiffer' /\ TreeIsClosed'
  BY <1>1, <1>7, <1>8, QuietStep
<1>10. MarksAreSound'
  BY <1>1, <1>8 DEF MarksAreSound, pending
<1> QED BY <1>7, <1>9, <1>10 DEF IInv

LEMMA CleanupDeleteStep ==
  ASSUME IInv, NEW h \in Handle, CleanupDelete(h)
  PROVE  IInv'
<1> DEFINE n == open[h]
<1>1. /\ References /\ TypeOK /\ NamesDiffer /\ TreeIsClosed /\ MarksAreSound
      /\ n \in deleting /\ n \in map /\ n \in Node /\ n # None
      /\ cleaned' = cleaned \cup {h}
      /\ deleting' = deleting \ {n}
      /\ onClose' = onClose \ {n}
      /\ UNCHANGED <<caseInsensitive, open>>
      /\ ScanGoesOn
  BY DEF IInv, References, CleanupDelete, MarksAreSound, TypeOK, Usable
<1>2. CASE HasChild(n)
  <2>1. UNCHANGED nodes
    BY <1>2 DEF CleanupDelete
  <2>2. TypeOK'
    BY <2>1, <1>1, ScanTyped DEF TypeOK, nodes
  <2>3. References'
    BY <2>1, <2>2, <1>1, SameUsers DEF References, nodes
  <2>4. NamesDiffer' /\ TreeIsClosed'
    BY <2>1, <2>3, <1>1, QuietStep DEF nodes
  <2>5. MarksAreSound'
    BY <2>1, <1>1 DEF MarksAreSound, nodes
  <2> QED BY <2>3, <2>4, <2>5 DEF IInv
<1>3. CASE ~ HasChild(n)
  <2>1. Find(name[n]) = {n}
    BY <1>1, FindIsNode
  <2>2. map' = map \ {n} /\ Dereference(n)
    BY <1>3, <2>1 DEF CleanupDelete, MapRemove
  <2>3. ref[n] >= 2
    <3>1. ref[n] >= 1 + (IF n \in map THEN 1 ELSE 0) /\ ref[n] \in Nat
      BY <1>1, ReferredFacts DEF TypeOK
    <3> QED BY <3>1, <1>1
  <2>4. ref[n] >= 1
    BY <2>3, <1>1 DEF TypeOK
  <2>5. /\ ref' \in [Node -> Nat] /\ name' \in [Node -> Names] /\ dir' \in [Node -> BOOLEAN]
        /\ heap' \subseteq heap
        /\ \A m \in Node : ref'[m] = ref[m] - (IF m = n THEN 1 ELSE 0)
        /\ heap' = {m \in Node : ref'[m] > 0}
        /\ \A m \in Node : m # n \/ ref[n] >= 2 => name'[m] = name[m] /\ dir'[m] = dir[m]
    BY <1>1, <2>2, <2>4, DereferenceFacts
  <2>6. \A m \in map : name'[m] = name[m] /\ dir'[m] = dir[m]
    BY <2>3, <2>5, <1>1 DEF TypeOK
  <2>7. TypeOK'
    BY <2>2, <2>5, <1>1, ScanTyped DEF TypeOK
  <2>8. References'
    <3>1. ASSUME NEW m \in Node
          PROVE  ref'[m] = Cardinality(UsersOf(m)') + (IF m \in map' THEN 1 ELSE 0)
      BY <2>2, <2>5, <1>1, SameUsers, UsersFacts DEF References
    <3> QED BY <3>1, <2>5, <2>7 DEF References
  <2>9. NamesDiffer'
    BY <2>2, <2>6, <1>1 DEF NamesDiffer, SameName, HasPrefix, Fold
  <2>10. TreeIsClosed'
    <3> SUFFICES ASSUME NEW k \in map', name'[k] # Root
                 PROVE  \E q \in map' : dir'[q] /\ name'[q] = Parent(name'[k])
      BY DEF TreeIsClosed
    <3>1. k \in map /\ name'[k] = name[k] /\ name[k] # Root
      BY <2>2, <2>6
    <3>2. PICK q \in map : dir[q] /\ name[q] = Parent(name[k])
      BY <3>1, <1>1 DEF TreeIsClosed
    <3>3. q # n
      <4> SUFFICES ASSUME q = n PROVE FALSE
        OBVIOUS
      <4>1. SameName(Parent(name[k]), name[n])
        BY <3>2, <1>1, NodeNames, SameNameFacts DEF TypeOK
      <4> QED BY <4>1, <3>1, <1>1, <1>3, NextIsChild
    <3> QED BY <3>1, <3>2, <3>3, <2>2, <2>6
  <2>11. MarksAreSound'
    BY <2>2, <2>6, <1>1 DEF MarksAreSound
  <2> QED BY <2>8, <2>9, <2>10, <2>11 DEF IInv
<1> QED BY <1>2, <1>3

-----------------------------------------------------------------------------
(* Rename. *)

\* What follows the old name is kept.
LEMMA MovedFacts ==
  ASSUME TypeOK, NEW n \in map, NEW m \in map, NEW nm \in Names, HasPrefix(name[m], name[n])
  PROVE  /\ Moved(n, m, nm) \in Seq(Component)
         /\ Len(Moved(n, m, nm)) = Len(nm) + (Len(name[m]) - Len(name[n]))
         /\ \A i \in 1 .. Len(nm) : Moved(n, m, nm)[i] = nm[i]
         /\ \A i \in 1 .. Len(name[m]) - Len(name[n]) :
              Moved(n, m, nm)[Len(nm) + i] = name[m][Len(name[n]) + i]
         /\ Len(nm) \in Nat /\ Len(name[m]) \in Nat /\ Len(name[n]) \in Nat
         /\ Len(name[n]) <= Len(name[m])
<1> DEFINE a == name[m]  l == Len(name[n])  s == SubSeq(a, l + 1, Len(a))
<1>1. a \in Seq(Component) /\ nm \in Seq(Component) /\ name[n] \in Seq(Component)
  BY NodeNames, NamesAreSeqs DEF TypeOK
<1>2. Len(a) \in Nat /\ l \in Nat /\ Len(nm) \in Nat /\ l <= Len(a)
  BY <1>1 DEF HasPrefix
<1> HIDE DEF a, l
<1>3. s = [i \in 1 .. Len(a) - l |-> a[l + i]]
  BY <1>1, <1>2
<1> HIDE DEF s
<1>4. s \in Seq(Component) /\ Len(s) = Len(a) - l
  BY <1>1, <1>2, <1>3
<1>5. Moved(n, m, nm) = nm \o s
  BY DEF Moved, s, a, l
<1>6. /\ nm \o s \in Seq(Component)
      /\ Len(nm \o s) = Len(nm) + Len(s)
      /\ \A i \in 1 .. Len(nm) + Len(s) :
           (nm \o s)[i] = IF i <= Len(nm) THEN nm[i] ELSE s[i - Len(nm)]
  BY <1>1, <1>4, ConcatProperties
<1>7. \A i \in 1 .. Len(nm) : (nm \o s)[i] = nm[i]
  BY <1>2, <1>4, <1>6
<1>8. ASSUME NEW i \in 1 .. Len(a) - l
      PROVE  (nm \o s)[Len(nm) + i] = a[l + i]
  <2>1. /\ Len(nm) + i \in 1 .. Len(nm) + Len(s)
        /\ ~ (Len(nm) + i <= Len(nm))
        /\ (Len(nm) + i) - Len(nm) = i
    BY <1>2, <1>4
  <2>2. (nm \o s)[Len(nm) + i] = s[i]
    BY <2>1, <1>6
  <2> QED BY <2>2, <1>3
<1> QED BY <1>2, <1>4, <1>5, <1>6, <1>7, <1>8 DEF a, l

\* A file in a moved directory stays in it.
LEMMA MovedParent ==
  ASSUME TypeOK, NEW n \in map, NEW m \in map, NEW p \in map, NEW nm \in Names,
         HasPrefix(name[m], name[n]), HasPrefix(name[p], name[n]),
         name[m] # Root, name[p] = Parent(name[m])
  PROVE  Parent(Moved(n, m, nm)) = Moved(n, p, nm)
<1> DEFINE x == Moved(n, m, nm)  y == Moved(n, p, nm)  l == Len(name[n])  k == Len(nm)
<1>1. /\ Len(name[m]) \in Nat \ {0} /\ Len(name[p]) = Len(name[m]) - 1
      /\ \A i \in 1 .. Len(name[m]) - 1 : name[p][i] = name[m][i]
  BY NodeNames, ParentFacts DEF TypeOK
<1>2. /\ x \in Seq(Component) /\ Len(x) = k + (Len(name[m]) - l)
      /\ \A i \in 1 .. k : x[i] = nm[i]
      /\ \A i \in 1 .. Len(name[m]) - l : x[k + i] = name[m][l + i]
  BY MovedFacts
<1>3. /\ y \in Seq(Component) /\ Len(y) = k + (Len(name[p]) - l)
      /\ \A i \in 1 .. k : y[i] = nm[i]
      /\ \A i \in 1 .. Len(name[p]) - l : y[k + i] = name[p][l + i]
      /\ k \in Nat /\ l \in Nat /\ l <= Len(name[p])
  BY MovedFacts
<1> HIDE DEF x, y, l, k
<1>4. Len(y) = Len(x) - 1 /\ Len(x) \in Nat \ {0}
  BY <1>1, <1>2, <1>3
<1>5. ASSUME NEW i \in 1 .. Len(y)
      PROVE  y[i] = x[i]
  <2>1. CASE i <= k
    <3>1. i \in 1 .. k
      BY <2>1, <1>3
    <3> QED BY <3>1, <1>2, <1>3
  <2>2. CASE i > k
    <3> DEFINE j == i - k
    <3>1. j \in 1 .. Len(name[p]) - l /\ j \in 1 .. Len(name[m]) - l /\ k + j = i
      BY <2>2, <1>1, <1>3
    <3>2. l + j \in 1 .. Len(name[m]) - 1
      BY <3>1, <1>1, <1>3
    <3> HIDE DEF j
    <3>3. y[k + j] = name[p][l + j] /\ x[k + j] = name[m][l + j]
      BY <3>1, <1>2, <1>3
    <3>4. name[p][l + j] = name[m][l + j]
      BY <3>2, <1>1
    <3> QED BY <3>1, <3>3, <3>4
  <2> QED BY <2>1, <2>2, <1>3
<1>6. Parent(x) = [i \in 1 .. Len(y) |-> x[i]]
  BY <1>2, <1>4 DEF Parent
<1>7. y = [i \in 1 .. Len(y) |-> y[i]]
  BY <1>3, LenProperties
<1>8. Parent(x) = y
  BY <1>5, <1>6, <1>7
<1> QED BY <1>8 DEF x, y

\* Files that had different names still have.
LEMMA MovedDiffer ==
  ASSUME TypeOK, NEW n \in map, NEW m \in map, NEW k \in map, NEW nm \in Names,
         HasPrefix(name[m], name[n]), HasPrefix(name[k], name[n]),
         SameName(Moved(n, m, nm), Moved(n, k, nm))
  PROVE  SameName(name[m], name[k])
<1> DEFINE x == Moved(n, m, nm)  y == Moved(n, k, nm)  l == Len(name[n])  q == Len(nm)
<1>1. /\ Len(x) = q + (Len(name[m]) - l)
      /\ \A i \in 1 .. Len(name[m]) - l : x[q + i] = name[m][l + i]
      /\ Len(name[m]) \in Nat /\ q \in Nat /\ l \in Nat /\ l <= Len(name[m])
  BY MovedFacts
<1>2. /\ Len(y) = q + (Len(name[k]) - l)
      /\ \A i \in 1 .. Len(name[k]) - l : y[q + i] = name[k][l + i]
      /\ Len(name[k]) \in Nat /\ l <= Len(name[k])
  BY MovedFacts
<1>3. Len(x) = Len(y) /\ \A i \in 1 .. Len(y) : Fold(x[i]) = Fold(y[i])
  BY DEF SameName, HasPrefix
<1> HIDE DEF x, y, q
<1>4. Len(name[m]) = Len(name[k])
  BY <1>1, <1>2, <1>3
<1>5. ASSUME NEW i \in 1 .. Len(name[k])
      PROVE  Fold(name[m][i]) = Fold(name[k][i])
  <2>1. CASE i <= l
    BY <2>1, <1>1 DEF HasPrefix
  <2>2. CASE i > l
    <3> HIDE DEF l
    <3> DEFINE j == i - l
    <3>1. /\ j \in 1 .. Len(name[m]) - l /\ j \in 1 .. Len(name[k]) - l
          /\ q + j \in 1 .. Len(y) /\ l + j = i
      BY <2>2, <1>1, <1>2, <1>4
    <3> HIDE DEF j
    <3>2. x[q + j] = name[m][l + j] /\ y[q + j] = name[k][l + j]
      BY <3>1, <1>1, <1>2
    <3> QED BY <3>1, <3>2, <1>3
  <2> QED BY <2>1, <2>2, <1>1
<1> QED BY <1>4, <1>5 DEF SameName, HasPrefix

LEMMA MovedUnder ==
  ASSUME TypeOK, NEW n \in map, NEW m \in map, NEW nm \in Names, HasPrefix(name[m], name[n])
  PROVE  HasPrefix(Moved(n, m, nm), nm) /\ Moved(n, m, nm) \in Seq(Nat)
<1>1. /\ Moved(n, m, nm) \in Seq(Component)
      /\ Len(Moved(n, m, nm)) = Len(nm) + (Len(name[m]) - Len(name[n]))
      /\ \A i \in 1 .. Len(nm) : Moved(n, m, nm)[i] = nm[i]
      /\ Len(nm) \in Nat /\ Len(name[m]) \in Nat /\ Len(name[n]) \in Nat
      /\ Len(name[n]) <= Len(name[m])
  BY MovedFacts
<1>2. HasPrefix(Moved(n, m, nm), nm)
  BY <1>1 DEF HasPrefix
<1> QED BY <1>1, <1>2, SeqMonotonic, MemFsAssumption

\* The renamed directory itself gets the new name.
LEMMA MovedItself ==
  ASSUME TypeOK, NEW n \in map, NEW nm \in Names
  PROVE  Moved(n, n, nm) = nm
<1>1. name[n] \in Seq(Nat) /\ nm \in Seq(Component)
  BY NodeNames, NamesAreSeqs DEF TypeOK
<1>2. HasPrefix(name[n], name[n])
  BY <1>1, SameNameFacts
<1>3. /\ Moved(n, n, nm) \in Seq(Component)
      /\ Len(Moved(n, n, nm)) = Len(nm) + (Len(name[n]) - Len(name[n]))
      /\ \A i \in 1 .. Len(nm) : Moved(n, n, nm)[i] = nm[i]
      /\ Len(nm) \in Nat /\ Len(name[n]) \in Nat
  BY <1>2, MovedFacts
<1>4. Len(Moved(n, n, nm)) = Len(nm)
  BY <1>3
<1> QED BY <1>1, <1>3, <1>4, SeqEqual

\* No name that Rename gives is taken: the assertion of the code holds.  What
\* keeps a name under the new one is in a directory of the new name, which
\* could not be replaced; what has been renamed differs as it did before; and
\* what is still to be renamed and has a name under the new one is the node
\* itself, since the new name is not in the directory that is renamed.
LEMMA NoneLost ==
  ASSUME TypeOK, NamesDiffer, TreeIsClosed, NEW n \in map, NEW nm \in Names, nm # Root,
         NEW moving, moving = {m \in map : HasPrefix(name[m], name[n])},
         ~ HasPrefix(Parent(nm), name[n]),
         \A t \in Find(nm) \ {n} : ~ dir[t]
  PROVE  Lost(n, nm, Find(nm) \ moving, moving) = {}
<1> DEFINE others == {k \in map \ moving : HasPrefix(name[k], nm) /\ Len(nm) < Len(name[k])}
           lens == {Len(name[k]) : k \in others}
<1>0. \A m \in map : m \in Node /\ name[m] \in Names /\ name[m] \in Seq(Nat) /\ Len(name[m]) \in Nat
  BY NodeNames, FoldedNames DEF TypeOK
<1>1. nm \in Seq(Nat) /\ Len(nm) \in Nat
  BY NamesFold, FoldedNames
<1>2. n \in moving
  BY <1>0, SameNameFacts
<1>3. others = {}
  <2> SUFFICES ASSUME others # {} PROVE FALSE
    OBVIOUS
  <2>1. lens \in SUBSET Nat /\ lens # {}
    BY <1>0
  <2>2. PICK least \in lens : \A x \in lens : least <= x
    <3> HIDE DEF lens
    <3> QED BY <2>1, LeastNat
  <2>3. PICK k \in others : Len(name[k]) = least
    OBVIOUS
  <2>4. /\ k \in map /\ k \notin moving /\ HasPrefix(name[k], nm) /\ Len(nm) < Len(name[k])
        /\ \A j \in others : Len(name[k]) <= Len(name[j])
    BY <2>2, <2>3
  <2>5. name[k] # Root /\ HasPrefix(Parent(name[k]), nm)
    BY <2>4, <1>0, <1>1, ParentUnderPrefix
  <2>6. PICK p \in map : dir[p] /\ name[p] = Parent(name[k])
    BY <2>4, <2>5 DEF TreeIsClosed
  <2>7. HasPrefix(name[k], name[p]) /\ Len(name[p]) < Len(name[k])
    BY <2>4, <2>5, <2>6, <1>0, ParentIsPrefix
  <2>8. p \notin moving
    <3> SUFFICES ASSUME HasPrefix(name[p], name[n]) PROVE FALSE
      OBVIOUS
    <3>1. HasPrefix(name[k], name[n])
      BY <2>4, <2>7, <1>0, PrefixTransitive
    <3> QED BY <3>1, <2>4
  <2>9. ~ (Len(nm) < Len(name[p]))
    <3> SUFFICES ASSUME Len(nm) < Len(name[p]) PROVE FALSE
      OBVIOUS
    <3>1. p \in others
      BY <2>5, <2>6, <2>8
    <3> QED BY <3>1, <2>4, <2>7, <1>0
  <2>10. SameName(name[p], nm)
    BY <2>5, <2>6, <2>9, <1>0, <1>1, SameNameFacts
  <2>11. p \in Find(nm) /\ p # n
    BY <2>8, <2>10, <1>2 DEF Find
  <2> QED BY <2>6, <2>11
<1>4. ASSUME NEW m \in moving, NEW k \in map \ ((Find(nm) \ moving) \cup moving),
             SameName(name[k], Moved(n, m, nm))
      PROVE  FALSE
  <2>1. m \in map /\ HasPrefix(name[m], name[n])
    OBVIOUS
  <2>2. HasPrefix(Moved(n, m, nm), nm) /\ Moved(n, m, nm) \in Seq(Nat)
    BY <2>1, MovedUnder
  <2>3. HasPrefix(name[k], nm)
    BY <2>2, <1>0, <1>1, <1>4, SameNameFacts, PrefixTransitive
  <2>4. ~ (Len(nm) < Len(name[k]))
    BY <2>3, <1>3
  <2>5. SameName(name[k], nm)
    BY <2>3, <2>4, <1>0, <1>1, SameNameFacts
  <2> QED BY <2>5, <1>4 DEF Find
<1>5. ASSUME NEW m \in moving, NEW k \in moving,
             SameName(Moved(n, k, nm), Moved(n, m, nm))
      PROVE  k = m
  <2>1. /\ k \in map /\ HasPrefix(name[k], name[n])
        /\ m \in map /\ HasPrefix(name[m], name[n])
    OBVIOUS
  <2>2. SameName(name[k], name[m])
    BY <2>1, <1>5, MovedDiffer
  <2> QED BY <2>1, <2>2 DEF NamesDiffer
<1>6. ASSUME NEW m \in moving, NEW k \in moving, SameName(name[k], Moved(n, m, nm))
      PROVE  k = m
  <2>1. /\ k \in map /\ HasPrefix(name[k], name[n])
        /\ m \in map /\ HasPrefix(name[m], name[n])
    OBVIOUS
  <2>2. HasPrefix(Moved(n, m, nm), nm) /\ Moved(n, m, nm) \in Seq(Nat)
    BY <2>1, MovedUnder
  <2>3. HasPrefix(name[k], nm)
    BY <2>1, <2>2, <1>0, <1>1, <1>6, SameNameFacts, PrefixTransitive
  <2>4. CASE Len(nm) < Len(name[n])
    <3>1. HasPrefix(name[n], nm)
      BY <2>1, <2>3, <2>4, <1>0, <1>1, TwoPrefixes
    <3>2. name[n] # Root /\ HasPrefix(Parent(name[n]), nm)
      BY <3>1, <2>4, <1>0, <1>1, ParentUnderPrefix
    <3>3. PICK p \in map : dir[p] /\ name[p] = Parent(name[n])
      BY <3>2 DEF TreeIsClosed
    <3>4. Len(name[p]) < Len(name[n])
      BY <3>2, <3>3, <1>0, ParentIsPrefix
    <3>5. p \notin moving
      BY <3>4, <1>0 DEF HasPrefix
    <3>6. ~ (Len(nm) < Len(name[p]))
      BY <3>2, <3>3, <3>5, <1>3
    <3>7. SameName(name[p], nm)
      BY <3>2, <3>3, <3>6, <1>0, <1>1, SameNameFacts
    <3>8. p \in Find(nm) /\ p # n
      BY <3>5, <3>7, <1>2 DEF Find
    <3> QED BY <3>3, <3>8
  <2>5. CASE Len(name[n]) < Len(nm)
    <3>1. HasPrefix(nm, name[n])
      BY <2>1, <2>3, <2>5, <1>0, <1>1, TwoPrefixes
    <3> QED BY <3>1, <2>5, <1>0, ParentUnderPrefix
  <2>6. CASE Len(name[n]) = Len(nm)
    <3> DEFINE x == Moved(n, m, nm)
    <3>1. /\ Len(x) = Len(name[m])
          /\ \A i \in 1 .. Len(name[m]) - Len(name[n]) :
               x[Len(nm) + i] = name[m][Len(name[n]) + i]
      <4>1. /\ Len(x) = Len(nm) + (Len(name[m]) - Len(name[n]))
            /\ \A i \in 1 .. Len(name[m]) - Len(name[n]) :
                 x[Len(nm) + i] = name[m][Len(name[n]) + i]
        BY <2>1, MovedFacts
      <4> HIDE DEF x
      <4>2. Len(name[m]) \in Nat /\ Len(name[n]) \in Nat
        BY <1>0
      <4> QED BY <4>1, <4>2, <2>6
    <3>2. Len(name[k]) = Len(x) /\ \A i \in 1 .. Len(x) : Fold(name[k][i]) = Fold(x[i])
      BY <1>6 DEF SameName, HasPrefix
    <3> HIDE DEF x
    <3>3. ASSUME NEW i \in 1 .. Len(name[m])
          PROVE  Fold(name[k][i]) = Fold(name[m][i])
      <4>1. CASE i <= Len(name[n])
        <5>1. i \in 1 .. Len(name[n])
          BY <4>1, <1>0
        <5> QED BY <5>1, <2>1 DEF HasPrefix
      <4>2. CASE ~ (i <= Len(name[n]))
        <5>1. i - Len(name[n]) \in 1 .. Len(name[m]) - Len(name[n])
          BY <4>2, <2>1, <1>0
        <5>2. Len(nm) + (i - Len(name[n])) = i /\ Len(name[n]) + (i - Len(name[n])) = i
          BY <2>6, <1>0, <2>1
        <5>3. x[i] = name[m][i]
          BY <5>1, <5>2, <3>1
        <5> QED BY <5>3, <3>1, <3>2
      <4> QED BY <4>1, <4>2
    <3>4. SameName(name[k], name[m])
      BY <3>1, <3>2, <3>3, <1>0, <2>1 DEF SameName, HasPrefix
    <3> QED BY <3>4, <2>1 DEF NamesDiffer
  <2> QED BY <2>4, <2>5, <2>6, <1>0, <1>1, <2>1
<1>7. ASSUME NEW m \in Lost(n, nm, Find(nm) \ moving, moving)
      PROVE  FALSE
  <2>1. /\ m \in moving
        /\ \E k \in map \ ((Find(nm) \ moving) \cup {m}) :
             SameName(IF k \in moving /\ Before(name[k], name[m])
                      THEN Moved(n, k, nm) ELSE name[k], Moved(n, m, nm))
    BY DEF Lost
  <2>2. PICK k \in map \ ((Find(nm) \ moving) \cup {m}) :
             SameName(IF k \in moving /\ Before(name[k], name[m])
                      THEN Moved(n, k, nm) ELSE name[k], Moved(n, m, nm))
    BY <2>1
  <2>3. CASE k \notin moving
    BY <2>1, <2>2, <2>3, <1>4
  <2>4. CASE k \in moving /\ Before(name[k], name[m])
    BY <2>1, <2>2, <2>4, <1>5
  <2>5. CASE k \in moving /\ ~ Before(name[k], name[m])
    BY <2>1, <2>2, <2>5, <1>6
  <2> QED BY <2>3, <2>4, <2>5
<1> QED BY <1>7

\* What a renaming does, once nothing is lost.
LEMMA RenameFacts ==
  ASSUME IInv, NEW h \in Handle, NEW nm \in Names, NEW replace \in BOOLEAN, Rename(h, nm, replace),
         NEW n, n = open[h],
         NEW moving, moving = {m \in map : HasPrefix(name[m], name[n])},
         NEW gone, gone = Find(nm) \ moving
  PROVE  /\ n \in map \ deleting /\ name[n] # Root /\ name[n] # DiskName /\ n \in moving
         /\ nm # Root /\ ~ HasPrefix(Parent(nm), name[n])
         /\ \E p \in map : dir[p] /\ name[p] = Parent(nm)
         /\ \A t \in Find(nm) \ {n} : ~ dir[t]
         /\ \A m \in moving : Len(Moved(n, m, nm)) <= MaxLen
         /\ Moves(n, nm, gone, moving)
         /\ deleting' = deleting \ gone /\ onClose' = onClose \ gone
         /\ UNCHANGED <<caseInsensitive, open, cleaned>>
         /\ ScanGoesOn
<1>1. /\ TypeOK /\ NamesDiffer /\ TreeIsClosed
      /\ n \in map \ deleting /\ name[n] # Root /\ name[n] # DiskName
      /\ nm # Root /\ ~ HasPrefix(Parent(nm), name[n])
      /\ \E p \in map : dir[p] /\ name[p] = Parent(nm)
      /\ UNCHANGED <<caseInsensitive, open, cleaned>>
      /\ ScanGoesOn
  BY DEF IInv, References, Rename, MayRename, Protected
<1>2. Descendants(n) = moving
  BY <1>1, DescendantsAreAll
<1>3. /\ Replaceable(n, Find(nm), replace)
      /\ \A m \in moving : Len(Moved(n, m, nm)) <= MaxLen
      /\ Moves(n, nm, gone \cup Lost(n, nm, gone, moving), moving)
      /\ deleting' = deleting \ gone /\ onClose' = onClose \ gone
  BY <1>2 DEF Rename, MayRename
<1>4. \A t \in Find(nm) \ {n} : ~ dir[t]
  BY <1>3 DEF Replaceable
<1>5. Lost(n, nm, gone, moving) = {}
  BY <1>1, <1>4, NoneLost
<1>6. n \in moving
  BY <1>1, NodeNames, SameNameFacts DEF TypeOK
<1> QED BY <1>1, <1>3, <1>4, <1>5, <1>6

LEMMA RenameStep ==
  ASSUME IInv, NEW h \in Handle, NEW nm \in Names, NEW replace \in BOOLEAN, Rename(h, nm, replace)
  PROVE  IInv'
<1> DEFINE n == open[h]
           moving == {m \in map : HasPrefix(name[m], name[n])}
           gone == Find(nm) \ moving
<1>1. References /\ TypeOK /\ NamesDiffer /\ TreeIsClosed /\ MarksAreSound
  BY DEF IInv, References
<1>2. /\ n \in map \ deleting /\ name[n] # Root /\ name[n] # DiskName /\ n \in moving
      /\ nm # Root /\ ~ HasPrefix(Parent(nm), name[n])
      /\ \E p \in map : dir[p] /\ name[p] = Parent(nm)
      /\ \A t \in Find(nm) \ {n} : ~ dir[t]
      /\ \A m \in moving : Len(Moved(n, m, nm)) <= MaxLen
      /\ Moves(n, nm, gone, moving)
      /\ deleting' = deleting \ gone /\ onClose' = onClose \ gone
      /\ UNCHANGED <<caseInsensitive, open, cleaned>>
      /\ ScanGoesOn
  BY RenameFacts
<1>3. /\ gone \subseteq map /\ gone \cap moving = {} /\ moving \subseteq map
      /\ \A m \in moving : HasPrefix(name[m], name[n])
      /\ \A m \in map \ moving : ~ HasPrefix(name[m], name[n])
      /\ \A t \in gone : ~ dir[t]
  BY <1>2 DEF Find
<1>4. \A m \in map : m \in Node /\ name[m] \in Names /\ name[m] \in Seq(Nat)
  BY <1>1, NodeNames DEF TypeOK
<1>5. Lost(n, nm, gone, moving) = {}
  BY <1>1, <1>2, NoneLost
<1>6. n \in map
  BY <1>2
<1> HIDE DEF n, moving, gone
<1>7. /\ map' = map \ gone
      /\ ref' = [m \in Node |-> IF m \in gone THEN ref[m] - 1 ELSE ref[m]]
      /\ heap' = {m \in heap : ref'[m] > 0}
      /\ name' = [m \in Node |-> CASE m \notin heap' -> Root
                                   [] m \in moving \cap heap' -> Moved(n, m, nm)
                                   [] OTHER -> name[m]]
      /\ dir' = [m \in Node |-> dir[m] /\ m \in heap']
  BY <1>2 DEF Moves
<1>8. map \subseteq heap /\ \A m \in map : ref[m] \in Nat /\ ref[m] >= 1
  BY <1>1, ReferredFacts DEF References, TypeOK
<1>9. \A m \in map' : m \in heap'
  BY <1>1, <1>3, <1>7, <1>8 DEF TypeOK
<1>10. /\ \A m \in map' \cap moving : name'[m] = Moved(n, m, nm)
       /\ \A m \in map' \ moving : name'[m] = name[m]
       /\ \A m \in map' : dir'[m] = dir[m]
  BY <1>1, <1>7, <1>9 DEF TypeOK
<1>11. TypeOK'
  <2>1. ASSUME NEW m \in moving
        PROVE  Moved(n, m, nm) \in Names
    BY <1>1, <1>2, <1>3, <1>6, MovedFacts, NamesAreSeqs
  <2>2. ASSUME NEW m \in Node
        PROVE  name'[m] \in Names
    <3>1. CASE m \notin heap'
      <4>1. name'[m] = Root
        BY <3>1, <1>7
      <4> QED BY <4>1, RootIsName
    <3>2. CASE m \in heap' /\ m \in moving
      BY <3>2, <2>1, <1>7
    <3>3. CASE m \in heap' /\ m \notin moving
      BY <3>3, <1>1, <1>7 DEF TypeOK
    <3> QED BY <3>1, <3>2, <3>3
  <2>3. name' \in [Node -> Names]
    BY <2>2, <1>7
  <2>4. ref' \in [Node -> Nat]
    BY <1>1, <1>3, <1>7, <1>8 DEF TypeOK
  <2>5. dir' \in [Node -> BOOLEAN]
    BY <1>1, <1>7 DEF TypeOK
  <2>6. onClose' \subseteq deleting' /\ deleting' \subseteq Node
    BY <1>1, <1>2 DEF TypeOK
  <2> QED BY <2>3, <2>4, <2>5, <2>6, <1>1, <1>2, <1>3, <1>7, ScanTyped DEF TypeOK
<1>12. References'
  <2>1. ASSUME NEW m \in Node
        PROVE  ref'[m] = Cardinality(UsersOf(m)') + (IF m \in map' THEN 1 ELSE 0)
    BY <1>1, <1>2, <1>3, <1>7, SameUsers, UsersFacts DEF References
  <2>2. heap' = {m \in Node : ref'[m] > 0}
    BY <1>1, <1>3, <1>7, <1>8 DEF References, TypeOK
  <2> QED BY <2>1, <2>2, <1>11 DEF References
<1>13. \A a, b : SameName(a, b)' <=> SameName(a, b)
  BY <1>2 DEF SameName, HasPrefix, Fold
<1>14. NamesDiffer'
  <2>1. ASSUME NEW k \in map', NEW m \in map', SameName(name'[k], name'[m]), k \notin moving, m \in moving
        PROVE  FALSE
    <3>1. SameName(name[k], Moved(n, m, nm))
      BY <2>1, <1>10
    <3>2. k \in map \ (gone \cup moving)
      BY <2>1, <1>7
    <3> QED BY <3>1, <3>2, <2>1, <1>5 DEF Lost
  <2> SUFFICES ASSUME NEW k \in map', NEW m \in map', SameName(name'[k], name'[m])
               PROVE  k = m
    BY <1>13 DEF NamesDiffer
  <2>2. name'[k] \in Seq(Nat) /\ name'[m] \in Seq(Nat)
    BY <1>11, NamesFold DEF TypeOK
  <2>3. SameName(name'[m], name'[k])
    BY <2>2, SameNameFacts
  <2>4. k \in moving <=> m \in moving
    BY <2>1, <2>3
  <2>5. CASE k \notin moving /\ m \notin moving
    BY <2>5, <1>1, <1>7, <1>10 DEF NamesDiffer
  <2>6. CASE k \in moving /\ m \in moving
    <3>1. SameName(Moved(n, k, nm), Moved(n, m, nm))
      BY <2>6, <1>10
    <3>2. SameName(name[k], name[m])
      BY <3>1, <2>6, <1>1, <1>3, <1>6, MovedDiffer
    <3> QED BY <3>2, <2>6, <1>1, <1>3 DEF NamesDiffer
  <2> QED BY <2>4, <2>5, <2>6
<1>15. TreeIsClosed'
  <2> SUFFICES ASSUME NEW m \in map', name'[m] # Root
               PROVE  \E q \in map' : dir'[q] /\ name'[q] = Parent(name'[m])
    BY DEF TreeIsClosed
  <2>0. m \in map
    BY <1>7
  <2>1. CASE m \notin moving
    <3>1. name'[m] = name[m]
      BY <2>1, <1>10
    <3>2. PICK q \in map : dir[q] /\ name[q] = Parent(name[m])
      BY <3>1, <2>0, <1>1 DEF TreeIsClosed
    <3>3. q \notin moving
      <4> SUFFICES ASSUME q \in moving PROVE FALSE
        OBVIOUS
      <4>1. HasPrefix(name[m], name[q]) /\ HasPrefix(name[q], name[n])
        BY <3>1, <3>2, <2>0, <1>3, <1>4, ParentIsPrefix
      <4>2. HasPrefix(name[m], name[n])
        BY <4>1, <2>0, <3>2, <1>4, <1>6, PrefixTransitive
      <4> QED BY <4>2, <2>0, <2>1, <1>3
    <3>4. q \in map' /\ dir'[q] /\ name'[q] = name[q]
      BY <3>2, <3>3, <1>3, <1>7, <1>10
    <3> QED BY <3>1, <3>2, <3>4
  <2>2. CASE m = n
    <3>1. name'[m] = nm
      BY <2>2, <1>1, <1>2, <1>6, <1>10, MovedItself
    <3>2. PICK q \in map : dir[q] /\ name[q] = Parent(nm)
      BY <1>2
    <3>3. q \notin moving
      BY <3>2, <1>2, <1>3
    <3>4. q \in map' /\ dir'[q] /\ name'[q] = name[q]
      BY <3>2, <3>3, <1>3, <1>7, <1>10
    <3> QED BY <3>1, <3>2, <3>4
  <2>3. CASE m \in moving /\ m # n
    <3>1. HasPrefix(name[m], name[n]) /\ Len(name[m]) \in Nat /\ Len(name[n]) \in Nat
      BY <2>0, <2>3, <1>3, <1>4, <1>6, FoldedNames
    <3>2. Len(name[n]) < Len(name[m])
      <4> SUFFICES ASSUME Len(name[m]) <= Len(name[n]) PROVE FALSE
        BY <3>1
      <4>1. SameName(name[m], name[n])
        BY <2>0, <3>1, <1>4, <1>6, SameNameFacts
      <4> QED BY <4>1, <2>0, <2>3, <1>1, <1>6 DEF NamesDiffer
    <3>3. name[m] # Root /\ HasPrefix(Parent(name[m]), name[n])
      BY <2>0, <3>1, <3>2, <1>4, <1>6, ParentUnderPrefix
    <3>4. PICK q \in map : dir[q] /\ name[q] = Parent(name[m])
      BY <2>0, <3>3, <1>1 DEF TreeIsClosed
    <3>5. q \in moving /\ q \in map'
      BY <3>3, <3>4, <1>3, <1>7
    <3>6. name'[q] = Moved(n, q, nm) /\ name'[m] = Moved(n, m, nm) /\ dir'[q]
      BY <3>4, <3>5, <2>3, <1>10
    <3>7. Parent(Moved(n, m, nm)) = Moved(n, q, nm)
      BY <2>0, <3>1, <3>3, <3>4, <1>1, <1>6, MovedParent
    <3> QED BY <3>5, <3>6, <3>7
  <2> QED BY <2>1, <2>2, <2>3
<1>16. MarksAreSound'
  <2>1. deleting' \subseteq map'
    BY <1>1, <1>2, <1>7 DEF MarksAreSound
  <2>2. ASSUME NEW m \in deleting', name'[m] = DiskName
        PROVE  m \in onClose'
    <3>0. m \in deleting /\ m \in map /\ m \notin gone /\ m \in map' /\ m # n
      BY <2>1, <1>1, <1>2 DEF MarksAreSound
    <3>1. CASE m \notin moving
      BY <3>0, <3>1, <2>2, <1>1, <1>2, <1>10 DEF MarksAreSound
    <3>2. CASE m \in moving
      <4>1. /\ Len(Moved(n, m, nm)) = Len(nm) + (Len(name[m]) - Len(name[n]))
            /\ Len(name[m]) \in Nat /\ Len(name[n]) \in Nat
        BY <3>0, <3>2, <1>1, <1>3, <1>6, MovedFacts
      <4>2. Moved(n, m, nm) = DiskName /\ Len(DiskName) = 1
        BY <3>0, <3>2, <2>2, <1>10 DEF DiskName
      <4>3. Len(nm) \in Nat \ {0}
        BY <1>2, ParentFacts
      <4>4. Len(name[m]) <= Len(name[n])
        <5>1. Len(Moved(n, m, nm)) = 1
          BY <4>2
        <5>2. Len(nm) + (Len(name[m]) - Len(name[n])) = 1
          BY <5>1, <4>1
        <5> QED BY <5>2, <4>1, <4>3
      <4>5. SameName(name[m], name[n])
        BY <4>4, <3>0, <3>2, <1>3, <1>4, <1>6, SameNameFacts
      <4> QED BY <4>5, <3>0, <1>1, <1>6 DEF NamesDiffer
    <3> QED BY <3>1, <3>2
  <2> QED BY <2>1, <2>2 DEF MarksAreSound
<1> QED BY <1>12, <1>14, <1>15, <1>16 DEF IInv

-----------------------------------------------------------------------------
(* Reading a directory. *)

LEMMA ChildrenFacts ==
  ASSUME TypeOK, NEW n \in Node, NEW marker \in Component \cup {Dot, DotDot, None},
         NEW m \in ChildrenAfter(n, marker)
  PROVE  /\ m \in map /\ m \in Node /\ name[m] \in Names
         /\ name[m] # Root /\ SameName(Parent(name[m]), name[n])
         /\ Back(name[m]) \in Component
<1>1. /\ m \in map
      /\ \E start : Before(start, name[m])
      /\ SameName(Parent(name[m]), name[n])
  BY DEF ChildrenAfter, Run
<1>2. m \in Node /\ name[m] \in Names
  BY <1>1, NodeNames DEF TypeOK
<1>3. name[m] # Root
  BY <1>1, RootIsName DEF Before
<1> QED BY <1>1, <1>2, <1>3, ParentFacts

\* Two children of a directory with the same last component are one.
LEMMA SameChild ==
  ASSUME TypeOK, NamesDiffer, NEW n \in Node, NEW a \in map, NEW b \in map,
         name[a] # Root, name[b] # Root,
         SameName(Parent(name[a]), name[n]), SameName(Parent(name[b]), name[n]),
         Fold(Back(name[a])) = Fold(Back(name[b]))
  PROVE  a = b
<1>1. name[n] \in Seq(Nat) /\ name[a] \in Names /\ name[b] \in Names
  BY NodeNames DEF TypeOK
<1>2. /\ Len(name[a]) \in Nat \ {0} /\ Len(Parent(name[a])) = Len(name[a]) - 1
      /\ \A i \in 1 .. Len(name[a]) - 1 : Parent(name[a])[i] = name[a][i]
      /\ Len(name[b]) \in Nat \ {0} /\ Len(Parent(name[b])) = Len(name[b]) - 1
      /\ \A i \in 1 .. Len(name[b]) - 1 : Parent(name[b])[i] = name[b][i]
      /\ Parent(name[a]) \in Seq(Nat) /\ Parent(name[b]) \in Seq(Nat)
  BY <1>1, ParentFacts, NamesFold
<1>3. SameName(Parent(name[a]), Parent(name[b]))
  BY <1>1, <1>2, SameNameFacts, SameNameTransitive
<1>4. Len(name[a]) = Len(name[b])
  BY <1>2, <1>3 DEF SameName
<1>5. \A i \in 1 .. Len(name[b]) - 1 : Fold(name[a][i]) = Fold(name[b][i])
  BY <1>2, <1>3, <1>4 DEF SameName, HasPrefix
<1>6. Fold(name[a][Len(name[b])]) = Fold(name[b][Len(name[b])])
  BY <1>4 DEF Back
<1>7. SameName(name[a], name[b])
  BY <1>2, <1>4, <1>5, <1>6 DEF SameName, HasPrefix
<1> QED BY <1>7 DEF NamesDiffer

\* Which children come after a marker.
LEMMA ChildrenAfterMarker ==
  ASSUME TypeOK, NEW n \in Node, NEW m \in map, name[m] # Root,
         SameName(Parent(name[m]), name[n]), NEW marker \in Component \cup {DotDot, None}
  PROVE  m \in ChildrenAfter(n, marker) <=>
           marker = None \/ Fold(marker) < Fold(Back(name[m]))
<1> DEFINE nm == name[n]
           x == name[m]
           start == IF marker = None THEN nm ELSE Append(nm, marker)
           after == {k \in map : Before(start, name[k])}
<1>1. /\ nm \in Seq(Nat) /\ x \in Seq(Nat) /\ x \in Names
      /\ \A k \in map : name[k] \in Seq(Nat)
  BY NodeNames DEF TypeOK
<1>2. /\ Len(nm) \in Nat /\ Len(x) = Len(nm) + 1
      /\ \A i \in 1 .. Len(nm) : Fold(x[i]) = Fold(nm[i])
      /\ \A i \in 1 .. Len(nm) : Fold(nm[i]) \in Nat
  <2>1. /\ Len(x) \in Nat \ {0} /\ Len(Parent(x)) = Len(x) - 1
        /\ \A i \in 1 .. Len(x) - 1 : Parent(x)[i] = x[i]
    BY <1>1, ParentFacts
  <2>2. /\ Len(nm) \in Nat /\ \A i \in 1 .. Len(nm) : Fold(nm[i]) \in Nat
    BY <1>1, FoldedNames
  <2> QED BY <2>1, <2>2 DEF SameName, HasPrefix
<1>3. HasPrefix(x, nm)
  BY <1>2 DEF HasPrefix
<1>4. marker # None => /\ marker \in Nat /\ start \in Seq(Nat) /\ Len(start) = Len(nm) + 1
                       /\ start[Len(nm) + 1] = marker
                       /\ \A i \in 1 .. Len(nm) : start[i] = nm[i]
  <2>1. marker # None => marker \in Nat
    BY MemFsAssumption
  <2> QED BY <2>1, <1>1, AppendProperties
<1>5. Before(start, x) <=> marker = None \/ Fold(marker) < Fold(Back(x))
  <2>1. CASE marker = None
    BY <2>1, <1>1, <1>2, <1>3, PrefixBefore
  <2>2. CASE marker # None
    <3>1. Fold(marker) \in Nat /\ Back(x) = x[Len(nm) + 1]
      BY <2>2, <1>2, <1>4, FoldType DEF Back
    <3>2. ASSUME Fold(marker) < Fold(Back(x)) PROVE Before(start, x)
      <4> HIDE DEF x, start, nm
      <4>1. Len(nm) + 1 \in 1 .. Len(x)
        BY <1>2
      <4>2. \A j \in 1 .. (Len(nm) + 1) - 1 : j <= Len(start) /\ Fold(start[j]) = Fold(x[j])
        BY <1>2, <1>4, <2>2
      <4>3. Fold(start[Len(nm) + 1]) < Fold(x[Len(nm) + 1])
        BY <3>1, <3>2, <1>4, <2>2
      <4> QED BY <4>1, <4>2, <4>3 DEF Before
    <3>3. ASSUME Before(start, x) PROVE Fold(marker) < Fold(Back(x))
      <4> HIDE DEF x, start, nm
      <4>1. PICK i \in 1 .. Len(x) : i > Len(start) \/ Fold(start[i]) < Fold(x[i])
        BY <3>3 DEF Before
      <4>2. i \in 1 .. Len(nm) \/ i = Len(nm) + 1
        BY <1>2
      <4>3. i \notin 1 .. Len(nm)
        <5> SUFFICES ASSUME i \in 1 .. Len(nm) PROVE FALSE
          OBVIOUS
        <5>1. ~ (i > Len(start))
          BY <1>2, <1>4, <2>2
        <5>2. Fold(nm[i]) < Fold(nm[i]) /\ Fold(nm[i]) \in Nat
          BY <5>1, <4>1, <1>2, <1>4, <2>2
        <5> QED BY <5>2
      <4>4. i = Len(nm) + 1 /\ ~ (i > Len(start))
        BY <4>2, <4>3, <1>2, <1>4, <2>2
      <4> QED BY <4>1, <4>4, <3>1, <1>4, <2>2
    <3> QED BY <3>2, <3>3, <2>2
  <2> QED BY <2>1, <2>2
<1>6. ASSUME NEW k \in after PROVE ~ Before(name[k], nm)
  <2>1. Before(start, name[k]) /\ name[k] \in Seq(Nat)
    BY <1>1
  <2>2. Before(nm, name[k])
    <3>1. CASE marker = None
      BY <3>1, <2>1
    <3>2. CASE marker # None
      <4>1. HasPrefix(start, nm) /\ Len(nm) < Len(start)
        BY <3>2, <1>2, <1>4 DEF HasPrefix
      <4>2. Before(nm, start)
        BY <4>1, <3>2, <1>1, <1>4, PrefixBefore
      <4> QED BY <4>2, <2>1, <3>2, <1>1, <1>4, BeforeTransitive
    <3> QED BY <3>1, <3>2
  <2> QED BY <2>1, <2>2, <1>1, BeforeTransitive, BeforeIrreflexive
<1>7. m \in after => m \in Run(nm, after)
  <2> SUFFICES ASSUME m \in after, NEW k \in after, ~ Before(x, name[k])
               PROVE  HasPrefix(name[k], nm)
    BY DEF Run
  <2> QED BY <1>1, <1>3, <1>6, PrefixIsRun
<1>8. m \in ChildrenAfter(n, marker) <=> m \in after
  <2>1. ChildrenAfter(n, marker) = {k \in Run(nm, after) : SameName(Parent(name[k]), nm)}
    BY DEF ChildrenAfter
  <2>2. Run(nm, after) \subseteq after
    BY DEF Run
  <2> QED BY <2>1, <2>2, <1>7
<1> QED BY <1>5, <1>8

\* Two entries of a directory have their places in a reply.
LEMMA EntriesOrdered ==
  ASSUME TypeOK, NamesDiffer, NEW n \in Node, NEW marker \in Component \cup {Dot, DotDot, None}
  PROVE  /\ Entries(n, marker) \subseteq Component \cup {Dot, DotDot}
         /\ IsFiniteSet(Entries(n, marker))
         /\ \A e, f \in Entries(n, marker) : e # f => Earlier(e, f) \/ Earlier(f, e)
<1> DEFINE mark == ChildMarker(n, marker)
           children == ChildrenAfter(n, mark)
           backs == {Back(name[m]) : m \in children}
<1>1. mark \in Component \cup {Dot, DotDot, None}
  BY DEF ChildMarker
<1>2. Dots(n, marker) \subseteq {Dot, DotDot} /\ Entries(n, marker) = Dots(n, marker) \cup backs
  BY DEF Dots, Entries
<1>3. \A m \in children : /\ m \in map /\ m \in Node /\ name[m] \in Names
                          /\ name[m] # Root /\ SameName(Parent(name[m]), name[n])
                          /\ Back(name[m]) \in Component
  BY <1>1, ChildrenFacts
<1> HIDE DEF mark, children
<1>4. backs \subseteq Component
  BY <1>3
<1>5. IsFiniteSet(backs)
  <2> DEFINE f == [m \in children |-> Back(name[m])]
  <2>1. IsFiniteSet(children)
    BY <1>3, MemFsAssumption, FS_Subset
  <2>2. f \in Surjection(children, backs)
    BY DEF Surjection
  <2> HIDE DEF f, backs
  <2> QED BY <2>1, <2>2, FS_Surjection
<1>6. IsFiniteSet(Entries(n, marker))
  <2>1. IsFiniteSet({Dot}) /\ IsFiniteSet({Dot} \cup {DotDot})
    BY FS_Singleton, FS_AddElement
  <2>2. IsFiniteSet({Dot, DotDot})
    <3>1. {Dot, DotDot} = {Dot} \cup {DotDot}
      OBVIOUS
    <3> QED BY <2>1, <3>1
  <2>3. IsFiniteSet(Dots(n, marker))
    BY <2>2, <1>2, FS_Subset
  <2> HIDE DEF backs
  <2> QED BY <2>3, <1>2, <1>5, FS_Union
<1>7. ASSUME NEW e \in backs, NEW f \in backs, e # f
      PROVE  Fold(e) # Fold(f) /\ Fold(e) \in Nat /\ Fold(f) \in Nat
  <2>1. PICK a \in children : e = Back(name[a])
    OBVIOUS
  <2>2. PICK b \in children : f = Back(name[b])
    OBVIOUS
  <2>3. e \in Nat /\ f \in Nat
    BY <1>4, MemFsAssumption
  <2>4. Fold(e) # Fold(f)
    BY <2>1, <2>2, <1>3, <1>7, SameChild
  <2> QED BY <2>3, <2>4, FoldType
<1>8. Dot \notin Component /\ DotDot \notin Component /\ Dot # DotDot
  BY MemFsAssumption
<1>9. \A e, f \in Entries(n, marker) : e # f => Earlier(e, f) \/ Earlier(f, e)
  <2> SUFFICES ASSUME NEW e \in Entries(n, marker), NEW f \in Entries(n, marker), e # f
               PROVE  Earlier(e, f) \/ Earlier(f, e)
    OBVIOUS
  <2>1. CASE e \in {Dot, DotDot} \/ f \in {Dot, DotDot}
    BY <2>1, <1>8 DEF Earlier
  <2>2. CASE e \notin {Dot, DotDot} /\ f \notin {Dot, DotDot}
    <3>1. e \in backs /\ f \in backs
      BY <2>2, <1>2
    <3>2. Fold(e) # Fold(f) /\ Fold(e) \in Nat /\ Fold(f) \in Nat
      BY <3>1, <1>7
    <3>3. Fold(e) < Fold(f) \/ Fold(f) < Fold(e)
      BY <3>2
    <3> QED BY <3>3, <2>2 DEF Earlier
  <2> QED BY <2>1, <2>2
<1> QED BY <1>2, <1>4, <1>6, <1>9

\* Which children of a directory a call of ReadDirectory has to offer.
LEMMA EntryOfChild ==
  ASSUME TypeOK, NamesDiffer, NEW n \in Node, NEW m \in map, name[m] # Root,
         SameName(Parent(name[m]), name[n]), NEW marker \in Component \cup {Dot, DotDot, None},
         marker = Dot => name[n] # Root
  PROVE  Back(name[m]) \in Entries(n, marker) <=>
           marker \in {None, Dot} \/ Fold(marker) < Fold(Back(name[m]))
<1> DEFINE mark == ChildMarker(n, marker)
           children == ChildrenAfter(n, mark)
<1>1. mark \in Component \cup {DotDot, None}
  BY DEF ChildMarker
<1>2. m \in Node /\ name[m] \in Names /\ Back(name[m]) \in Component
  BY NodeNames, ParentFacts DEF TypeOK
<1>3. Back(name[m]) \notin Dots(n, marker)
  BY <1>2, MemFsAssumption DEF Dots
<1>4. Back(name[m]) \in Entries(n, marker) <=> m \in children
  <2>1. Entries(n, marker) = Dots(n, marker) \cup {Back(name[k]) : k \in children}
    BY DEF Entries
  <2>2. ASSUME NEW k \in children, Back(name[k]) = Back(name[m]) PROVE k = m
    <3>1. /\ k \in map /\ name[k] # Root /\ SameName(Parent(name[k]), name[n])
      BY <1>1, ChildrenFacts
    <3> QED BY <3>1, <2>2, SameChild
  <2> HIDE DEF children
  <2> QED BY <2>1, <2>2, <1>3
<1>5. m \in children <=> mark = None \/ Fold(mark) < Fold(Back(name[m]))
  BY <1>1, ChildrenAfterMarker
<1>6. CASE marker = Dot
  BY <1>4, <1>5, <1>6 DEF ChildMarker
<1>7. CASE marker # Dot
  <2>1. mark = marker
    BY <1>7 DEF ChildMarker
  <2> HIDE DEF mark
  <2> QED BY <2>1, <1>4, <1>5, <1>7
<1> QED BY <1>6, <1>7

\* After a marker that is not ".", there are only files, all behind it.
LEMMA EntriesAfter ==
  ASSUME TypeOK, NamesDiffer, NEW n \in Node, NEW marker \in Component \cup {DotDot},
         NEW e \in Entries(n, marker)
  PROVE  e \in Component /\ Fold(marker) < Fold(e)
<1>1. marker # None /\ marker # Dot
  BY MemFsAssumption
<1>2. Dots(n, marker) = {} /\ ChildMarker(n, marker) = marker
  BY <1>1 DEF Dots, ChildMarker
<1>3. PICK k \in ChildrenAfter(n, marker) : e = Back(name[k])
  BY <1>2 DEF Entries
<1>4. /\ k \in map /\ name[k] # Root /\ SameName(Parent(name[k]), name[n])
      /\ Back(name[k]) \in Component
  BY <1>3, ChildrenFacts
<1> QED BY <1>1, <1>3, <1>4, ChildrenAfterMarker

LEMMA EarlierFacts ==
  LET E == Component \cup {Dot, DotDot} IN
  /\ \A e, f, g \in E : Earlier(e, f) /\ Earlier(f, g) => Earlier(e, g)
  /\ \A e \in E : ~ Earlier(e, e)
<1> DEFINE E == Component \cup {Dot, DotDot}
<1>1. Dot \notin Component /\ DotDot \notin Component /\ Dot # DotDot
  BY MemFsAssumption
<1>2. \A e \in Component : Fold(e) \in Nat
  BY FoldType, MemFsAssumption
<1>3. ASSUME NEW e \in E, NEW f \in E, NEW g \in E, Earlier(e, f), Earlier(f, g)
      PROVE  Earlier(e, g)
  <2>1. CASE e = Dot
    BY <2>1, <1>1, <1>3 DEF Earlier
  <2>2. CASE e = DotDot
    BY <2>2, <1>1, <1>3 DEF Earlier
  <2>3. CASE e \in Component
    <3>1. /\ f \in Component /\ g \in Component
          /\ Fold(e) < Fold(f) /\ Fold(f) < Fold(g)
      BY <2>3, <1>1, <1>3 DEF Earlier
    <3>2. Fold(e) < Fold(g)
      BY <3>1, <2>3, <1>2
    <3> QED BY <3>1, <3>2, <2>3, <1>1 DEF Earlier
  <2> QED BY <2>1, <2>2, <2>3
<1>4. ASSUME NEW e \in E, Earlier(e, e)
      PROVE  FALSE
  <2>1. CASE e \in Component
    <3>1. Fold(e) < Fold(e) /\ Fold(e) \in Nat
      BY <2>1, <1>1, <1>2, <1>4 DEF Earlier
    <3> QED BY <3>1
  <2> QED BY <2>1, <1>1, <1>4 DEF Earlier
<1> QED BY <1>3, <1>4

\* A reply that is not all has a last entry, which is the next marker.
LEMMA ReplyHasLast ==
  ASSUME NEW entries, entries \subseteq Component \cup {Dot, DotDot}, IsFiniteSet(entries),
         \A e, f \in entries : e # f => Earlier(e, f) \/ Earlier(f, e),
         NEW room \in Nat \ {0},
         NEW reply, reply = Reply(entries, room), reply # entries
  PROVE  /\ reply \subseteq entries
         /\ LastOf(reply) \in reply
         /\ \A f \in reply \ {LastOf(reply)} : Earlier(f, LastOf(reply))
<1> DEFINE R == {p \in entries \X entries : Earlier(p[1], p[2])}
           Q == {p \in entries \X entries : Earlier(p[2], p[1])}
<1>1. reply \subseteq entries /\ entries # {}
  BY DEF Reply
<1>2. /\ \A e, f, g \in entries : Earlier(e, f) /\ Earlier(f, g) => Earlier(e, g)
      /\ \A e \in entries : ~ Earlier(e, e)
  BY EarlierFacts
<1>3. /\ \A e, f \in entries : <<e, f>> \in R <=> Earlier(e, f)
      /\ \A e, f \in entries : <<e, f>> \in Q <=> Earlier(f, e)
  OBVIOUS
<1> HIDE DEF R, Q
<1>4. reply # {}
  <2>1. PICK e \in entries : \A f \in entries : <<f, e>> \notin R
    <3>1. \A x, y, z \in entries : <<x, y>> \in R /\ <<y, z>> \in R => <<x, z>> \in R
      BY <1>2, <1>3
    <3>2. \A x \in entries : <<x, x>> \notin R
      BY <1>2, <1>3
    <3> QED BY <3>1, <3>2, <1>1, FirstElement
  <2>2. {f \in entries : Earlier(f, e)} = {}
    BY <2>1, <1>3
  <2>3. Cardinality({f \in entries : Earlier(f, e)}) < room
    <3>1. Cardinality({f \in entries : Earlier(f, e)}) = 0
      BY <2>2, FS_EmptySet
    <3> QED BY <3>1
  <2> QED BY <2>3 DEF Reply
<1>5. PICK e \in reply : \A f \in reply : <<f, e>> \notin Q
  <2>1. IsFiniteSet(reply)
    BY <1>1, FS_Subset
  <2>2. \A x, y, z \in reply : <<x, y>> \in Q /\ <<y, z>> \in Q => <<x, z>> \in Q
    BY <1>1, <1>2, <1>3
  <2>3. \A x \in reply : <<x, x>> \notin Q
    BY <1>1, <1>2, <1>3
  <2> QED BY <2>1, <2>2, <2>3, <1>4, FirstElement
<1>6. \A f \in reply \ {e} : Earlier(f, e)
  BY <1>1, <1>3, <1>5
<1> QED BY <1>1, <1>6 DEF LastOf

\* A reply is the beginning of the entries.
LEMMA ReplyIsFirst ==
  ASSUME NEW entries, entries \subseteq Component \cup {Dot, DotDot}, IsFiniteSet(entries),
         NEW room \in Nat \ {0}, NEW reply, reply = Reply(entries, room),
         NEW e \in reply, NEW f \in entries, Earlier(f, e)
  PROVE  f \in reply
<1> DEFINE before(g) == {d \in entries : Earlier(d, g)}
<1>1. e \in entries /\ Cardinality(before(e)) < room
  BY DEF Reply
<1>2. before(f) \subseteq before(e)
  BY <1>1, EarlierFacts
<1>3. IsFiniteSet(before(e))
  BY FS_Subset
<1> HIDE DEF before
<1>4. /\ Cardinality(before(f)) \in Nat /\ Cardinality(before(e)) \in Nat
      /\ Cardinality(before(f)) <= Cardinality(before(e))
  BY <1>2, <1>3, FS_Subset, FS_CardinalityType
<1>5. Cardinality(before(f)) < room
  BY <1>1, <1>4
<1> QED BY <1>5 DEF Reply, before

LEMMA ReadStep ==
  ASSUME IInv, NEW h \in Handle, NEW room \in Room, NEW sofar \in Scans, sofar.by \in Handle,
         ReadDirectory(h, room, sofar)
  PROVE  IInv'
<1> DEFINE n == open[h]
           entries == Entries(n, sofar.marker)
           reply == Reply(entries, room)
<1>1. /\ References /\ TypeOK /\ NamesDiffer /\ TreeIsClosed /\ MarksAreSound
      /\ n \in Node
      /\ UNCHANGED <<caseInsensitive, nodes, open, cleaned, pending>>
  BY DEF IInv, References, ReadDirectory, Usable, TypeOK
<1>2. scan' = [sofar EXCEPT
                 !.stage = IF reply = entries THEN "done" ELSE "reading",
                 !.marker = IF reply = entries THEN None ELSE LastOf(reply),
                 !.told = IF Back(name[sofar.watched]) \in reply THEN @ + 1 ELSE @,
                 !.dotted = @ \/ (reply # entries /\ LastOf(reply) = DotDot)]
  BY DEF ReadDirectory
<1>3. sofar.marker \in Component \cup {Dot, DotDot, None}
  BY DEF Scans
<1>4. /\ entries \subseteq Component \cup {Dot, DotDot}
      /\ IsFiniteSet(entries)
      /\ \A e, f \in entries : e # f => Earlier(e, f) \/ Earlier(f, e)
  BY <1>1, <1>3, EntriesOrdered
<1>5. room \in Nat \ {0}
  BY MemFsAssumption
<1> HIDE DEF n, entries
<1>6. reply # entries => LastOf(reply) \in Component \cup {Dot, DotDot}
  BY <1>4, <1>5, ReplyHasLast
<1> HIDE DEF reply
<1>7. scan' \in Scans
  <2> DEFINE stage == IF reply = entries THEN "done" ELSE "reading"
             marker == IF reply = entries THEN None ELSE LastOf(reply)
             told == IF Back(name[sofar.watched]) \in reply THEN sofar.told + 1 ELSE sofar.told
             dotted == sofar.dotted \/ (reply # entries /\ LastOf(reply) = DotDot)
  <2>1. /\ sofar \in [stage : {"idle", "reading", "done"}, by : Handle \cup {None},
                      marker : Component \cup {Dot, DotDot, None}, watched : Node \cup {None},
                      told : Nat, dotted : BOOLEAN]
        /\ sofar.by \in Handle
    BY DEF Scans
  <2>2. scan' = [sofar EXCEPT !.stage = stage, !.marker = marker, !.told = told,
                             !.dotted = dotted]
    BY <1>2
  <2>3. stage \in {"idle", "reading", "done"}
    OBVIOUS
  <2>4. marker \in Component \cup {Dot, DotDot, None}
    BY <1>6
  <2>5. sofar.told \in Nat
    BY <2>1
  <2>6. told \in Nat
    BY <2>5
  <2>7. dotted \in BOOLEAN
    OBVIOUS
  <2> HIDE DEF stage, marker, told, dotted
  <2>8. scan' \in [stage : {"idle", "reading", "done"}, by : Handle \cup {None},
                   marker : Component \cup {Dot, DotDot, None}, watched : Node \cup {None},
                   told : Nat, dotted : BOOLEAN]
    BY <2>1, <2>2, <2>3, <2>4, <2>6, <2>7
  <2>9. scan'.by = sofar.by
    BY <2>1, <2>2
  <2> QED BY <2>1, <2>8, <2>9 DEF Scans
<1>8. TypeOK'
  BY <1>1, <1>7 DEF TypeOK, nodes, pending
<1>9. References'
  BY <1>1, <1>8, SameUsers DEF References, nodes
<1>10. NamesDiffer' /\ TreeIsClosed'
  BY <1>1, <1>9, QuietStep DEF nodes
<1>11. MarksAreSound'
  BY <1>1 DEF MarksAreSound, nodes, pending
<1> QED BY <1>9, <1>10, <1>11 DEF IInv

LEMMA ReadingStep ==
  ASSUME IInv, NEW h \in Handle, NEW room \in Room,
         GoOnReading(room) \/ \E m \in Node : StartReading(h, room, m)
  PROVE  IInv'
<1>1. scan \in Scans
  BY DEF IInv, References, TypeOK
<1>2. CASE GoOnReading(room)
  <2>1. scan.by \in Handle
    BY <1>1, <1>2 DEF Scans, GoOnReading
  <2> QED BY <2>1, <1>1, <1>2, ReadStep DEF GoOnReading
<1>3. CASE \E m \in Node : StartReading(h, room, m)
  <2>1. PICK m \in Node : StartReading(h, room, m)
    BY <1>3
  <2>2. [Idle EXCEPT !.by = h, !.watched = m] \in Scans
    BY DEF Idle, Scans
  <2>3. [Idle EXCEPT !.by = h, !.watched = m].by = h
    BY DEF Idle
  <2> QED BY <2>1, <2>2, <2>3, ReadStep DEF StartReading
<1> QED BY <1>2, <1>3

-----------------------------------------------------------------------------
(* What a reading has told of the file that is watched. *)

\* A call of ReadDirectory that has come to "sofar" leaves the reading as it
\* should be: told of the file if it is past it, and complete at the end.
LEMMA ReadKeeps ==
  ASSUME IInv, NEW room \in Room, NEW sofar \in Scans, sofar.by \in Handle,
         Watches(sofar), ToldRightly(sofar), ReadDirectory(sofar.by, room, sofar)
  PROVE  ReadInv'
<1> DEFINE n == open[sofar.by]
           mk == sofar.marker
           entries == Entries(n, mk)
           reply == Reply(entries, room)
           last == LastOf(reply)
           m == sofar.watched
           x == Back(name[m])
<1>1. /\ TypeOK /\ NamesDiffer /\ n \in Node
      /\ UNCHANGED <<caseInsensitive, nodes, open, cleaned, pending>>
  BY DEF IInv, References, ReadDirectory, Usable, TypeOK
<1>2. /\ m \in map /\ name[m] # Root /\ SameName(Parent(name[m]), name[n])
      /\ mk = Dot => name[n] # Root
      /\ Usable(sofar.by)
  BY DEF Watches
<1>3. /\ mk \in Component \cup {Dot, DotDot, None} /\ sofar.told \in Nat
      /\ room \in Nat \ {0} /\ sofar.dotted \in BOOLEAN
      /\ Dot \notin Component /\ DotDot \notin Component /\ Dot # DotDot /\ None \notin Nat
      /\ Component \cup {Dot, DotDot} \subseteq Nat
  BY MemFsAssumption DEF Scans
<1>4. x \in Component
  BY <1>1, <1>2, NodeNames, ParentFacts DEF TypeOK
<1>5. /\ Fold(x) \in Nat /\ Fold(DotDot) \in Nat /\ Fold(x) # Fold(DotDot)
      /\ \A c \in Component : Fold(c) \in Nat
  <2>1. \A c \in Component \cup {DotDot} : Fold(c) \in Nat
    BY <1>3, FoldType
  <2>2. Fold(x) # Fold(DotDot)
    BY <1>3, <1>4, MemFsAssumption DEF Fold
  <2> QED BY <2>1, <2>2, <1>4
<1>6. /\ scan'.stage = IF reply = entries THEN "done" ELSE "reading"
      /\ scan'.marker = IF reply = entries THEN None ELSE last
      /\ scan'.told = IF x \in reply THEN sofar.told + 1 ELSE sofar.told
      /\ scan'.dotted = (sofar.dotted \/ (reply # entries /\ last = DotDot))
      /\ scan'.by = sofar.by /\ scan'.watched = m
  BY DEF ReadDirectory, Scans
<1>7. /\ entries \subseteq Component \cup {Dot, DotDot} /\ IsFiniteSet(entries)
      /\ \A e, f \in entries : e # f => Earlier(e, f) \/ Earlier(f, e)
  BY <1>1, <1>3, EntriesOrdered
<1>8. x \in entries <=> mk \in {None, Dot} \/ Fold(mk) < Fold(x)
  BY <1>1, <1>2, <1>3, EntryOfChild
<1>9. x \in entries <=> ~ Passed(sofar)
  <2>1. CASE mk \in {None, Dot}
    <3>1. mk \notin Component /\ mk # DotDot
      BY <2>1, <1>3
    <3> QED BY <2>1, <3>1, <1>8 DEF Passed
  <2>2. CASE mk \in Component
    <3>1. mk # DotDot /\ mk \notin {None, Dot} /\ Fold(mk) \in Nat
      BY <2>2, <1>3, <1>5
    <3>2. Passed(sofar) <=> Fold(x) <= Fold(mk)
      BY <2>2, <3>1 DEF Passed
    <3>3. Fold(x) <= Fold(mk) <=> ~ (Fold(mk) < Fold(x))
      BY <3>1, <1>5
    <3> QED BY <3>1, <3>2, <3>3, <1>8
  <2>3. CASE mk = DotDot
    <3>1. mk \notin {None, Dot} /\ mk \notin Component
      BY <2>3, <1>3
    <3>2. Passed(sofar) <=> Fold(x) < Fold(DotDot)
      BY <2>3, <3>1 DEF Passed
    <3>3. Fold(x) < Fold(DotDot) <=> ~ (Fold(DotDot) < Fold(x))
      BY <1>5
    <3> QED BY <2>3, <3>1, <3>2, <3>3, <1>8
  <2> QED BY <2>1, <2>2, <2>3, <1>3
<1>10. reply \subseteq entries
  BY DEF Reply
<1>11. \A e \in reply, f \in entries : Earlier(f, e) => f \in reply
  BY <1>3, <1>7, ReplyIsFirst
<1>12. reply # entries => /\ last \in reply
                          /\ \A f \in reply \ {last} : Earlier(f, last)
  <2> HIDE DEF entries
  <2> QED BY <1>3, <1>7, ReplyHasLast
<1>13. /\ Passed(sofar) => sofar.told = 1 \/ Hidden(sofar)
       /\ ~ Passed(sofar) => sofar.told = 0
  BY DEF ToldRightly
<1>14. last = Dot /\ last \in entries => name[n] # Root
  <2>1. ASSUME Dot \in entries, name[n] = Root PROVE FALSE
    <3>1. Dots(n, mk) = {}
      BY <2>1 DEF Dots
    <3>2. ChildMarker(n, mk) \in Component \cup {Dot, DotDot, None}
      BY <1>3 DEF ChildMarker
    <3>3. PICK k \in ChildrenAfter(n, ChildMarker(n, mk)) : Dot = Back(name[k])
      BY <2>1, <3>1 DEF Entries
    <3> QED BY <3>2, <3>3, <1>1, <1>3, ChildrenFacts
  <2> QED BY <2>1
<1>15. mk \in Component \cup {DotDot} =>
         \A e \in entries : e \in Component /\ Fold(mk) < Fold(e)
  BY <1>1, EntriesAfter
<1>16. ReadingIsComplete'
  <2>1. ASSUME reply = entries
        PROVE  \/ scan'.told = 1
               \/ scan'.told = 0 /\ scan'.dotted /\ Fold(x) < Fold(DotDot)
    <3>1. CASE Passed(sofar)
      <4>1. scan'.told = sofar.told /\ (sofar.dotted => scan'.dotted)
        BY <3>1, <2>1, <1>6, <1>9
      <4> QED BY <4>1, <3>1, <1>13 DEF Hidden
    <3>2. CASE ~ Passed(sofar)
      BY <3>2, <2>1, <1>6, <1>9, <1>13
    <3> QED BY <3>1, <3>2
  <2>2. /\ Back(name'[scan'.watched]) = x /\ caseInsensitive' = caseInsensitive
    BY <1>1, <1>6 DEF nodes
  <2>3. scan'.stage = "done" => reply = entries
    BY <1>6
  <2> HIDE DEF x, reply, entries
  <2> QED BY <2>1, <2>2, <2>3 DEF ReadingIsComplete, Fold
<1>17. reply # entries => Watches(scan') /\ ToldRightly(scan')
  <2> SUFFICES ASSUME reply # entries PROVE Watches(scan') /\ ToldRightly(scan')
    OBVIOUS
  <2>0. /\ scan'.marker = last /\ scan'.by = sofar.by /\ scan'.watched = m
        /\ last \in reply /\ last \in entries
        /\ last \in Component \cup {Dot, DotDot}
        /\ scan'.dotted = (sofar.dotted \/ last = DotDot)
    BY <1>6, <1>7, <1>10, <1>12
  <2>1. Watches(scan')
    BY <2>0, <1>2, <1>14 DEF Watches
  <2> HIDE DEF x, m, reply, entries, last, n, mk
  <2>2. CASE x \in reply
    <3>1. ~ Passed(sofar) /\ scan'.told = 1
      BY <2>2, <1>6, <1>9, <1>10, <1>13
    <3>2. last \in Component /\ Fold(x) <= Fold(last)
      <4>1. CASE x = last
        BY <4>1, <1>4, <1>5
      <4>2. CASE x # last
        <5>1. Earlier(x, last)
          BY <4>2, <2>2, <1>12
        <5>2. last \in Component /\ Fold(x) < Fold(last)
          BY <5>1, <2>0, <1>3, <1>4 DEF Earlier
        <5> QED BY <5>2, <1>5
      <4> QED BY <4>1, <4>2
    <3>3. Passed(scan') /\ last # DotDot
      BY <3>2, <2>0, <1>3 DEF Passed, x, m
    <3> QED BY <3>1, <3>3, <2>0, <2>1 DEF ToldRightly
  <2>3. CASE x \in entries \ reply
    <3>1. ~ Passed(sofar) /\ scan'.told = 0
      BY <2>3, <1>6, <1>9, <1>13
    <3>2. Earlier(last, x)
      <4>1. ~ Earlier(x, last) /\ x # last
        BY <2>3, <2>0, <1>11
      <4> QED BY <4>1, <2>0, <2>3, <1>7
    <3>3. CASE last \in Component
      <4>1. Fold(last) < Fold(x)
        BY <3>2, <3>3, <1>3, <1>4 DEF Earlier
      <4>2. ~ (Fold(x) <= Fold(last)) /\ last # DotDot
        BY <4>1, <3>3, <1>3, <1>5
      <4>3. ~ Passed(scan')
        BY <4>2, <2>0, <3>3 DEF Passed, x, m
      <4> QED BY <4>2, <4>3, <3>1, <2>0, <2>1 DEF ToldRightly
    <3>4. CASE last = DotDot
      <4>1. Passed(scan') => Hidden(scan')
        BY <3>1, <3>4, <2>0, <1>3 DEF Passed, Hidden
      <4> QED BY <4>1, <3>1, <3>4, <2>0, <2>1 DEF ToldRightly
    <3>5. CASE last = Dot
      <4>1. ~ Passed(scan') /\ last # DotDot
        BY <3>5, <2>0, <1>3 DEF Passed
      <4> QED BY <4>1, <3>1, <2>0, <2>1 DEF ToldRightly
    <3> QED BY <3>3, <3>4, <3>5, <2>0
  <2>4. CASE x \notin entries
    <3>1. Passed(sofar) /\ scan'.told = sofar.told
      BY <2>4, <1>6, <1>9, <1>10
    <3>2. mk \in Component \cup {DotDot}
      BY <2>4, <1>3, <1>8
    <3>3. last \in Component /\ Fold(mk) < Fold(last) /\ last # DotDot /\ Fold(mk) \in Nat
      BY <3>2, <2>0, <1>3, <1>5, <1>15
    <3>4. Fold(x) <= Fold(mk)
      BY <3>2, <3>3, <2>4, <1>5, <1>8
    <3>5. Fold(x) <= Fold(last)
      BY <3>3, <3>4, <1>5
    <3>6. Passed(scan')
      BY <3>3, <3>5, <2>0 DEF Passed, x, m
    <3>7. scan'.told = 1 \/ Hidden(scan')
      BY <3>1, <1>13, <2>0 DEF Hidden, m
    <3> QED BY <3>3, <3>6, <3>7, <2>0, <2>1 DEF ToldRightly
  <2> QED BY <2>1, <2>2, <2>3, <2>4
<1>18. ReadingGoesOn'
  <2>1. scan'.stage = "reading" => reply # entries
    BY <1>6
  <2> HIDE DEF reply, entries
  <2> QED BY <2>1, <1>1, <1>17 DEF ReadingGoesOn, Watches, ToldRightly, Passed, Hidden, Usable,
            Fold, SameName, HasPrefix, nodes
<1> QED BY <1>16, <1>18 DEF ReadInv

\* A node that a renaming moves is not the root afterwards.
LEMMA MovedIsNotRoot ==
  ASSUME IInv, NEW h \in Handle, NEW nm \in Names, NEW replace \in BOOLEAN, Rename(h, nm, replace),
         NEW n \in Node, n \in heap', name[n] # Root
  PROVE  name'[n] # Root
<1> DEFINE k == open[h]
           moving == {m \in map : HasPrefix(name[m], name[k])}
           gone == Find(nm) \ moving
<1>0. TypeOK
  BY DEF IInv, References
<1>1. k \in map /\ nm # Root /\ Moves(k, nm, gone, moving)
  <2>1. /\ k \in map \ deleting /\ name[k] # Root /\ name[k] # DiskName /\ k \in moving
        /\ nm # Root /\ ~ HasPrefix(Parent(nm), name[k])
        /\ \E p \in map : dir[p] /\ name[p] = Parent(nm)
        /\ \A t \in Find(nm) \ {k} : ~ dir[t]
        /\ \A m \in moving : Len(Moved(k, m, nm)) <= MaxLen
        /\ Moves(k, nm, gone, moving)
        /\ deleting' = deleting \ gone /\ onClose' = onClose \ gone
        /\ UNCHANGED <<caseInsensitive, open, cleaned>>
        /\ ScanGoesOn
    BY RenameFacts
  <2> HIDE DEF k, moving, gone
  <2> QED BY <2>1
<1>2. CASE n \in moving
  <2>1. name'[n] = Moved(k, n, nm)
    BY <1>1, <1>2, <1>0 DEF Moves
  <2>2. Len(Moved(k, n, nm)) = Len(nm) + (Len(name[n]) - Len(name[k]))
    BY <1>1, <1>2, <1>0, MovedFacts
  <2>3. Len(nm) \in Nat \ {0} /\ Len(name[n]) \in Nat /\ Len(name[k]) \in Nat
        /\ Len(name[k]) <= Len(name[n])
    <3>1. name[n] \in Seq(Nat) /\ name[k] \in Seq(Nat)
      BY <1>1, <1>0, NodeNames DEF TypeOK
    <3>2. Len(name[k]) <= Len(name[n])
      BY <1>2 DEF HasPrefix
    <3> QED BY <3>1, <3>2, <1>1, FoldedNames, ParentFacts
  <2>4. Len(name'[n]) # 0
    BY <2>1, <2>2, <2>3
  <2> QED BY <2>4, RootIsName
<1>3. CASE n \notin moving
  BY <1>1, <1>3 DEF Moves
<1> QED BY <1>2, <1>3

\* A node that stays allocated is not renamed to the root.
LEMMA NamesStay ==
  ASSUME IInv, NEW h \in Handle,
         \/ \E nm \in Names, isDir \in BOOLEAN : Create(h, nm, isDir)
         \/ \E k \in Node, deleteOnClose \in BOOLEAN : Open(h, k, deleteOnClose)
         \/ CanDelete(h) \/ KeepFile(h) \/ Cleanup(h)
         \/ CleanupDelete(h)
         \/ Close(h)
         \/ \E nm \in Names, replace \in BOOLEAN : Rename(h, nm, replace),
         NEW n \in Node, n \in heap, n \in heap', name[n] # Root
  PROVE  name'[n] # Root
<1>1. References /\ TypeOK /\ NamesDiffer
  BY DEF IInv, References
<1>2. CASE name' = name
  BY <1>2
<1>3. ASSUME NEW k, Dereference(k)
      PROVE  name'[n] # Root
  BY <1>1, <1>3 DEF Dereference, TypeOK
<1>4. ASSUME NEW nm \in Names, NEW isDir \in BOOLEAN, Create(h, nm, isDir)
      PROVE  name'[n] # Root
  BY <1>1, <1>4 DEF Create, TypeOK
<1>5. ASSUME CleanupDelete(h)
      PROVE  name'[n] # Root
  BY <1>3, <1>5 DEF CleanupDelete, MapRemove, nodes
<1>6. ASSUME NEW nm \in Names, NEW replace \in BOOLEAN, Rename(h, nm, replace)
      PROVE  name'[n] # Root
  BY <1>6, MovedIsNotRoot
<1>7. CASE Close(h)
  BY <1>3, <1>7 DEF Close
<1>8. CASE \E k \in Node, deleteOnClose \in BOOLEAN : Open(h, k, deleteOnClose)
  BY <1>2, <1>8 DEF Open
<1>9. CASE CanDelete(h) \/ KeepFile(h) \/ Cleanup(h)
  BY <1>2, <1>9 DEF CanDelete, KeepFile, Cleanup, nodes
<1> QED BY <1>4, <1>5, <1>6, <1>7, <1>8, <1>9

\* A call in between leaves a reading as it was, if it goes on.
LEMMA ReadingGoesOnStep ==
  ASSUME IInv, IInv', ReadInv, NEW h \in Handle,
         \/ \E nm \in Names, isDir \in BOOLEAN : Create(h, nm, isDir)
         \/ \E k \in Node, deleteOnClose \in BOOLEAN : Open(h, k, deleteOnClose)
         \/ CanDelete(h) \/ KeepFile(h) \/ Cleanup(h)
         \/ CleanupDelete(h)
         \/ Close(h)
         \/ \E nm \in Names, replace \in BOOLEAN : Rename(h, nm, replace)
  PROVE  ReadInv'
<1>1. ScanGoesOn /\ caseInsensitive' = caseInsensitive
  <2>1. \A nm, isDir : Create(h, nm, isDir) => ScanGoesOn /\ caseInsensitive' = caseInsensitive
    BY DEF Create
  <2>2. \A k, d : Open(h, k, d) => ScanGoesOn /\ caseInsensitive' = caseInsensitive
    BY DEF Open
  <2>3. CanDelete(h) \/ KeepFile(h) \/ Cleanup(h) \/ CleanupDelete(h) \/ Close(h)
          => ScanGoesOn /\ caseInsensitive' = caseInsensitive
    BY DEF CanDelete, KeepFile, Cleanup, CleanupDelete, Close
  <2>4. \A nm, replace : Rename(h, nm, replace) => ScanGoesOn /\ caseInsensitive' = caseInsensitive
    BY DEF Rename
  <2> QED BY <2>1, <2>2, <2>3, <2>4
<1>2. CASE ~ Followed
  <2>1. scan'.stage = "idle"
    BY <1>1, <1>2 DEF ScanGoesOn, Idle
  <2> QED BY <2>1 DEF ReadInv, ReadingGoesOn, ReadingIsComplete
<1>3. CASE Followed
  <2>0. PICK b, m, n : b = scan.by /\ m = scan.watched /\ n = open[b]
    OBVIOUS
  <2>1. /\ scan' = scan /\ scan.stage = "reading"
        /\ b \notin cleaned' /\ m \in map' /\ Back(name'[m]) = Back(name[m])
        /\ SameName(Parent(name'[m]), name'[n])
    BY <2>0, <1>1, <1>3 DEF ScanGoesOn, Followed
  <2>2. Watches(scan) /\ ToldRightly(scan)
    BY <2>1 DEF ReadInv, ReadingGoesOn
  <2>3. /\ TypeOK /\ References /\ TypeOK' /\ References'
        /\ n # None /\ b \notin cleaned /\ m \in map /\ name[m] # Root
        /\ scan.marker = Dot => name[n] # Root
        /\ b \in Handle /\ n \in Node /\ m \in Node
    <3>1. TypeOK /\ References /\ TypeOK' /\ References'
      BY DEF IInv, References
    <3>2. b \in Handle
      BY <2>0, <2>1, <3>1 DEF TypeOK, Scans
    <3> QED BY <2>0, <2>2, <3>1, <3>2 DEF TypeOK, Watches, Usable
  <2>4. open'[b] = n
    <3>1. \A nm, isDir : Create(h, nm, isDir) => open'[b] = n
      BY <2>0, <2>3 DEF Create, MayCreate, TypeOK
    <3>2. \A k, d : Open(h, k, d) => open'[b] = n
      BY <2>0, <2>3 DEF Open, TypeOK
    <3>3. CanDelete(h) \/ KeepFile(h) \/ Cleanup(h) \/ CleanupDelete(h) => open'[b] = n
      BY <2>0 DEF CanDelete, KeepFile, Cleanup, CleanupDelete
    <3>4. Close(h) => open'[b] = n
      BY <2>0, <2>3 DEF Close, TypeOK
    <3>5. \A nm, replace : Rename(h, nm, replace) => open'[b] = n
      BY <2>0 DEF Rename
    <3> QED BY <3>1, <3>2, <3>3, <3>4, <3>5
  <2>5. n \in heap /\ n \in heap' /\ m \in heap /\ m \in heap'
    <3>1. map \subseteq heap /\ (UsersOf(n) # {} => n \in heap)
      BY <2>3, ReferredFacts
    <3>2. b \in UsersOf(n) /\ b \in UsersOf(n)'
      BY <2>0, <2>3, <2>4 DEF UsersOf
    <3>3. \A k \in Node : /\ Cardinality(UsersOf(k)') \in Nat
                          /\ UsersOf(k)' # {} => Cardinality(UsersOf(k)') # 0
      <4> SUFFICES ASSUME NEW k \in Node
                   PROVE  /\ Cardinality(UsersOf(k)') \in Nat
                          /\ UsersOf(k)' # {} => Cardinality(UsersOf(k)') # 0
        OBVIOUS
      <4>1. UsersOf(k)' \subseteq Handle
        BY DEF UsersOf
      <4>2. IsFiniteSet(UsersOf(k)')
        BY <4>1, MemFsAssumption, FS_Subset
      <4> QED BY <4>2, FS_CardinalityType, FS_EmptySet
    <3>4. \A k \in Node : /\ ref'[k] = Cardinality(UsersOf(k)') + (IF k \in map' THEN 1 ELSE 0)
                          /\ k \in heap' <=> ref'[k] > 0
      BY <2>3 DEF References
    <3>5. n \in heap'
      BY <3>2, <3>3, <3>4, <2>3
    <3>6. m \in heap'
      BY <3>3, <3>4, <2>1, <2>3
    <3> QED BY <3>1, <3>2, <3>5, <3>6, <2>3
  <2>6. name'[m] # Root
    BY <2>3, <2>5, NamesStay
  <2>7. name[n] # Root => name'[n] # Root
    BY <2>3, <2>5, NamesStay
  <2>8. Watches(scan)'
    <3>1. scan'.by = b /\ scan'.watched = m /\ scan'.marker = scan.marker
      BY <2>0, <2>1
    <3>2. SameName(Parent(name[m]), name[n])'
      BY <2>1, <1>1 DEF SameName, HasPrefix, Fold
    <3>3. SameName(Parent(name[scan.watched]), name[open[scan.by]])'
      BY <3>1, <3>2, <2>4 DEF SameName, HasPrefix, Fold
    <3> QED BY <3>1, <3>3, <2>1, <2>3, <2>4, <2>6, <2>7 DEF Watches, Usable
  <2>9. ToldRightly(scan)'
    BY <2>0, <2>1, <2>2, <1>1 DEF ToldRightly, Passed, Hidden, Fold
  <2>10. ReadingIsComplete'
    BY <2>1 DEF ReadingIsComplete
  <2> QED BY <2>8, <2>9, <2>10 DEF ReadInv, ReadingGoesOn
<1> QED BY <1>2, <1>3

\* Reading a directory, from its beginning or from its marker.
LEMMA ReadingStepKeeps ==
  ASSUME IInv, ReadInv, NEW h \in Handle, NEW room \in Room,
         GoOnReading(room) \/ \E m \in Node : StartReading(h, room, m)
  PROVE  ReadInv'
<1>1. TypeOK /\ scan \in Scans
  BY DEF IInv, References, TypeOK
<1>2. CASE GoOnReading(room)
  <2>1. scan.by \in Handle /\ Watches(scan) /\ ToldRightly(scan)
    BY <1>1, <1>2 DEF Scans, GoOnReading, ReadInv, ReadingGoesOn
  <2> QED BY <2>1, <1>1, <1>2, ReadKeeps DEF GoOnReading
<1>3. CASE \E m \in Node : StartReading(h, room, m)
  <2>1. PICK m \in Node : StartReading(h, room, m)
    BY <1>3
  <2>2. PICK first : first = [Idle EXCEPT !.by = h, !.watched = m]
    OBVIOUS
  <2>3. /\ first \in Scans /\ first.by = h /\ first.watched = m
        /\ first.marker = None /\ first.told = 0
    BY <2>2 DEF Idle, Scans
  <2>4. None \notin Component /\ None # Dot /\ None # DotDot
    BY MemFsAssumption
  <2>5. /\ m \in map /\ name[m] # Root /\ SameName(Parent(name[m]), name[open[h]])
        /\ ReadDirectory(h, room, first)
    BY <2>1, <2>2 DEF StartReading
  <2>6. Usable(h)
    BY <2>5 DEF ReadDirectory
  <2>7. Watches(first)
    BY <2>3, <2>4, <2>5, <2>6 DEF Watches
  <2>8. ToldRightly(first)
    BY <2>3, <2>4 DEF ToldRightly, Passed
  <2> QED BY <2>3, <2>5, <2>7, <2>8, ReadKeeps
<1> QED BY <1>2, <1>3

-----------------------------------------------------------------------------
(* Theorems. *)

\* No call breaks the invariant.
THEOREM Invariance == Spec => []IInv
<1>1. Init => IInv
  BY InitEstablishes
<1>2. IInv /\ [Next]_vars => IInv'
  <2> SUFFICES ASSUME IInv, [Next]_vars PROVE IInv'
    OBVIOUS
  <2>1. CASE UNCHANGED vars
    BY <2>1 DEF vars, nodes, pending, IInv, References, TypeOK, UsersOf, NamesDiffer,
       TreeIsClosed, MarksAreSound, SameName, HasPrefix, Fold
  <2>2. CASE Next
    <3>1. PICK h \in Handle :
            \/ \E nm \in Names, isDir \in BOOLEAN : Create(h, nm, isDir)
            \/ \E n \in Node, deleteOnClose \in BOOLEAN : Open(h, n, deleteOnClose)
            \/ CanDelete(h) \/ KeepFile(h) \/ Cleanup(h)
            \/ CleanupDelete(h)
            \/ Close(h)
            \/ \E nm \in Names, replace \in BOOLEAN : Rename(h, nm, replace)
            \/ \E room \in Room : GoOnReading(room) \/ \E m \in Node : StartReading(h, room, m)
      BY <2>2 DEF Next
    <3> QED BY <3>1, CreateStep, OpenStep, MarkStep, CleanupDeleteStep, CloseStep, RenameStep,
               ReadingStep
  <2> QED BY <2>1, <2>2
<1> QED BY <1>1, <1>2, PTL DEF Spec

\* The reference count of a node is the number of its handles, and one for
\* the map: MemfsFileNodeDereference frees it with the last of them, never
\* before and never twice, whatever is deleted, replaced or renamed.
THEOREM ReferencesExact == Spec => []References
<1>1. IInv => References
  BY DEF IInv
<1> QED BY <1>1, Invariance, PTL

\* The name Create inserts, which is not quite the one it looked for, is not
\* taken.
LEMMA CreateInserts ==
  ASSUME IInv, NEW h \in Handle, NEW nm \in Names, MayCreate(h, nm), NEW p \in Find(Parent(nm))
  PROVE  Find(NewName(nm, p)) = {}
<1>1. TypeOK /\ nm # Root /\ Find(nm) = {}
  BY DEF IInv, References, MayCreate
<1>2. NewName(nm, p) \in Names /\ SameName(NewName(nm, p), nm)
  BY <1>1, NewNameFacts
<1>3. ASSUME NEW k \in map, SameName(name[k], NewName(nm, p))
      PROVE  FALSE
  <2>1. name[k] \in Seq(Nat)
    BY <1>1, NodeNames DEF TypeOK
  <2>2. SameName(name[k], nm)
    BY <2>1, <1>2, <1>3, NamesFold, SameNameTransitive
  <2> QED BY <2>2, <1>1 DEF Find
<1> QED BY <1>3 DEF Find

\* Nor is any name that Rename inserts, when it lets the request through.
LEMMA RenameInserts ==
  ASSUME IInv, NEW h \in Handle, NEW nm \in Names, MayRename(h, nm, TRUE)
  PROVE  Lost(open[h], nm, Find(nm) \ Descendants(open[h]), Descendants(open[h])) = {}
<1> DEFINE n == open[h]
           moving == {m \in map : HasPrefix(name[m], name[n])}
<1>1. /\ TypeOK /\ NamesDiffer /\ TreeIsClosed
      /\ n \in map /\ nm # Root /\ ~ HasPrefix(Parent(nm), name[n])
      /\ \A t \in Find(nm) \ {n} : ~ dir[t]
  BY DEF IInv, References, MayRename, Replaceable
<1>2. Descendants(n) = moving
  BY <1>1, DescendantsAreAll
<1>3. Lost(n, nm, Find(nm) \ moving, moving) = {}
  <2> HIDE DEF n
  <2> QED BY <1>1, NoneLost
<1> QED BY <1>2, <1>3

\* MemfsFileNodeMapInsert succeeds whenever Create or Rename calls it, as the
\* assertion in Rename says: no file is lost because its name is taken.
THEOREM InsertionsNeverFail == Spec => []InsertionsSucceed
<1>1. IInv => InsertionsSucceed
  BY CreateInserts, RenameInserts DEF InsertionsSucceed
<1> QED BY <1>1, Invariance, PTL

\* Every file is in a directory of the volume, through every deletion and
\* through the renaming of whole directories.
THEOREM NoOrphans == Spec => []TreeIsClosed
<1>1. IInv => TreeIsClosed
  BY DEF IInv
<1> QED BY <1>1, Invariance, PTL

\* MemfsFileNodeMapHasChild, which looks at one node only, is right, on names
\* that the comparison of the map puts in one order: all names of a
\* case-sensitive volume, the ASCII names of a case-insensitive one.
THEOREM HasChildCorrect == Spec => []EmptyIsEmpty
<1>1. IInv => EmptyIsEmpty
  BY NextIsChild DEF IInv, References, EmptyIsEmpty
<1> QED BY <1>1, Invariance, PTL

\* MemfsFileNodeMapEnumerateDescendants, which stops at the first name
\* without the prefix, misses no file of the directory, on names with one
\* order, as above.
THEOREM DescendantsComplete == Spec => []MovesWhole
<1>1. IInv => MovesWhole
  BY DescendantsAreAll DEF IInv, References, MovesWhole
<1> QED BY <1>1, Invariance, PTL

\* A renaming leaves the disk file where it is, or puts another in its place.
LEMMA DiskRename ==
  ASSUME IInv, NEW h \in Handle, NEW nm \in Names, NEW replace \in BOOLEAN, Rename(h, nm, replace)
  PROVE  \A d \in map :
           name[d] = DiskName =>
             \/ d \in map' /\ name'[d] = DiskName
             \/ \E m \in map' : m # d /\ SameName(name'[m], DiskName)
<1> DEFINE n == open[h]
           moving == {m \in map : HasPrefix(name[m], name[n])}
           gone == Find(nm) \ moving
<1>1. /\ n \in map /\ name[n] # Root /\ name[n] # DiskName /\ n \in moving
      /\ nm # Root
      /\ Moves(n, nm, gone, moving)
      /\ caseInsensitive' = caseInsensitive
  <2>1. /\ n \in map \ deleting /\ name[n] # Root /\ name[n] # DiskName /\ n \in moving
        /\ nm # Root /\ ~ HasPrefix(Parent(nm), name[n])
        /\ \E p \in map : dir[p] /\ name[p] = Parent(nm)
        /\ \A t \in Find(nm) \ {n} : ~ dir[t]
        /\ \A m \in moving : Len(Moved(n, m, nm)) <= MaxLen
        /\ Moves(n, nm, gone, moving)
        /\ deleting' = deleting \ gone /\ onClose' = onClose \ gone
        /\ UNCHANGED <<caseInsensitive, open, cleaned>>
        /\ ScanGoesOn
    BY RenameFacts
  <2> HIDE DEF n, moving, gone
  <2> QED BY <2>1
<1> SUFFICES ASSUME NEW d \in map, name[d] = DiskName
             PROVE  \/ d \in map' /\ name'[d] = DiskName
                    \/ \E m \in map' : m # d /\ SameName(name'[m], DiskName)
  OBVIOUS
<1>0. /\ References /\ TypeOK /\ NamesDiffer /\ MarksAreSound
      /\ d \in Node /\ d \in heap
  BY ReferredFacts DEF IInv, References, TypeOK
<1>2. /\ name[n] \in Seq(Nat) /\ name[n] \in Names
      /\ name[d] \in Seq(Nat) /\ Len(name[d]) = 1
      /\ nm \in Seq(Nat)
  BY <1>1, <1>0, NodeNames, NamesFold DEF TypeOK, DiskName
<1>3. d \notin moving
  <2> SUFFICES ASSUME HasPrefix(name[d], name[n]) PROVE FALSE
    OBVIOUS
  <2>1. Len(name[n]) \in Nat \ {0}
    BY <1>1, <1>2, ParentFacts
  <2>2. Len(name[d]) <= Len(name[n])
    BY <1>2, <2>1
  <2>3. SameName(name[d], name[n])
    BY <1>2, <2>2, SameNameFacts
  <2>4. d = n
    BY <2>3, <1>1, <1>0 DEF NamesDiffer
  <2> QED BY <2>4, <1>1
<1> HIDE DEF n, moving
<1>4. CASE d \notin gone
  <2>1. d \in map' /\ d \in heap'
    BY <1>1, <1>4, <1>0 DEF Moves, References, TypeOK
  <2> QED BY <2>1, <1>1, <1>3, <1>0 DEF Moves
<1>5. CASE d \in gone
  <2>1. SameName(name[d], nm)
    BY <1>5 DEF Find
  <2>2. n \in map' /\ n # d
    BY <1>1, <1>3 DEF Moves
  <2>3. n \in heap' /\ n \in Node
    <3>1. n \in heap /\ n \in Node /\ n \notin gone
      BY <1>1, <2>2, <1>0, ReferredFacts DEF TypeOK, Moves
    <3> QED BY <3>1, <1>1, <1>0 DEF Moves, References, TypeOK
  <2>4. name'[n] = Moved(n, n, nm)
    BY <1>1, <2>3 DEF Moves
  <2>5. name'[n] = nm
    BY <2>4, <1>1, <1>0, MovedItself
  <2>6. SameName(nm, DiskName)
    BY <2>1, <1>2, SameNameFacts
  <2> QED BY <2>2, <2>5, <2>6
<1> QED BY <1>4, <1>5

\* A step of any call keeps the disk file, or was one of the two ways around
\* its protection: a file renamed onto it, or a deletion on close.
LEMMA DiskStep ==
  ASSUME IInv, [Next]_vars, IInv', NEW n \in map, name[n] = DiskName
  PROVE  \/ n \in map' /\ name'[n] = DiskName
         \/ \E m \in map' : m # n /\ SameName(name'[m], DiskName)
         \/ n \in onClose
<1>1. /\ References /\ TypeOK /\ NamesDiffer /\ MarksAreSound /\ References' /\ TypeOK'
      /\ n \in Node /\ n \in heap
  BY ReferredFacts DEF IInv, References, TypeOK
<1>2. CASE UNCHANGED nodes
  BY <1>2 DEF nodes
<1>3. ASSUME NEW h \in Handle, NEW nm \in Names, NEW isDir \in BOOLEAN, Create(h, nm, isDir)
      PROVE  n \in map' /\ name'[n] = DiskName
  BY <1>1, <1>3 DEF Create, TypeOK
<1>4. ASSUME NEW h \in Handle, Close(h)
      PROVE  n \in map' /\ name'[n] = DiskName
  <2>1. map' = map /\ Dereference(open[h])
    BY <1>4 DEF Close
  <2>2. CASE open[h] = n
    <3>1. ref[n] >= 1 + (IF n \in map THEN 1 ELSE 0) /\ ref[n] \in Nat
      BY <2>2, <1>1, ReferredFacts DEF TypeOK
    <3>2. ref[n] # 1
      BY <3>1
    <3> QED BY <2>1, <2>2, <3>2 DEF Dereference
  <2>3. CASE open[h] # n
    BY <2>1, <2>3, <1>1 DEF Dereference, TypeOK
  <2> QED BY <2>2, <2>3
<1>5. ASSUME NEW h \in Handle, CleanupDelete(h), ~ (n \in onClose)
      PROVE  n \in map' /\ name'[n] = DiskName
  <2>1. open[h] # n /\ open[h] \in map
    BY <1>1, <1>5 DEF CleanupDelete, MarksAreSound
  <2>2. Find(name[open[h]]) = {open[h]}
    BY <2>1, <1>1, FindIsNode
  <2>3. CASE HasChild(open[h])
    BY <2>3, <1>5 DEF CleanupDelete, nodes
  <2>4. CASE ~ HasChild(open[h])
    <3>1. map' = map \ {open[h]} /\ Dereference(open[h])
      BY <2>2, <2>4, <1>5 DEF CleanupDelete, MapRemove
    <3> QED BY <3>1, <2>1, <1>1 DEF Dereference, TypeOK
  <2> QED BY <2>3, <2>4
<1>6. ASSUME NEW h \in Handle, NEW nm \in Names, NEW replace \in BOOLEAN, Rename(h, nm, replace)
      PROVE  \/ n \in map' /\ name'[n] = DiskName
             \/ \E m \in map' : m # n /\ SameName(name'[m], DiskName)
  BY <1>6, DiskRename
<1>7. CASE UNCHANGED vars
  BY <1>2, <1>7 DEF vars
<1>8. CASE Next
  <2>1. PICK h \in Handle :
          \/ \E nm \in Names, isDir \in BOOLEAN : Create(h, nm, isDir)
          \/ \E m \in Node, deleteOnClose \in BOOLEAN : Open(h, m, deleteOnClose)
          \/ CanDelete(h) \/ KeepFile(h) \/ Cleanup(h)
          \/ CleanupDelete(h)
          \/ Close(h)
          \/ \E nm \in Names, replace \in BOOLEAN : Rename(h, nm, replace)
          \/ \E room \in Room : GoOnReading(room) \/ \E m \in Node : StartReading(h, room, m)
    BY <1>8 DEF Next
  <2>2. CASE \E m \in Node, deleteOnClose \in BOOLEAN : Open(h, m, deleteOnClose)
    BY <2>2 DEF Open
  <2>3. CASE CanDelete(h) \/ KeepFile(h) \/ Cleanup(h)
    BY <2>3, <1>2 DEF CanDelete, KeepFile, Cleanup
  <2>4. CASE \E room \in Room : GoOnReading(room) \/ \E m \in Node : StartReading(h, room, m)
    BY <2>4, <1>2 DEF GoOnReading, StartReading, ReadDirectory
  <2> QED BY <2>1, <2>2, <2>3, <2>4, <1>3, <1>4, <1>5, <1>6
<1> QED BY <1>7, <1>8

\* The disk file leaves the volume in two ways only.
THEOREM DiskProtected == Spec => DiskStays
<1>1. IInv /\ IInv' /\ [Next]_vars =>
        [\A n \in map :
           name[n] = DiskName =>
             \/ n \in map' /\ name'[n] = DiskName
             \/ \E m \in map' : m # n /\ SameName(name'[m], DiskName)
             \/ n \in onClose]_vars
  BY DiskStep
<1> QED BY <1>1, Invariance, PTL DEF Spec, DiskStays

\* A reading of a directory in any number of calls, with anything created,
\* deleted and renamed between them, tells of a file that stays there once,
\* unless a reply that ended with ".." hid it; on names with one order, as
\* above.
THEOREM ReadingsComplete == Spec => []ReadingIsComplete
<1>1. Init => ReadInv
  BY DEF Init, NoHandles, Idle, ReadInv, ReadingGoesOn, ReadingIsComplete
<1>2. IInv /\ IInv' /\ ReadInv /\ [Next]_vars => ReadInv'
  <2> SUFFICES ASSUME IInv, IInv', ReadInv, [Next]_vars PROVE ReadInv'
    OBVIOUS
  <2>1. CASE UNCHANGED vars
    BY <2>1 DEF vars, nodes, pending, ReadInv, ReadingGoesOn, ReadingIsComplete, Watches,
       ToldRightly, Passed, Hidden, Usable, SameName, HasPrefix, Fold
  <2>2. CASE Next
    <3>1. PICK h \in Handle :
            \/ \E nm \in Names, isDir \in BOOLEAN : Create(h, nm, isDir)
            \/ \E n \in Node, deleteOnClose \in BOOLEAN : Open(h, n, deleteOnClose)
            \/ CanDelete(h) \/ KeepFile(h) \/ Cleanup(h)
            \/ CleanupDelete(h)
            \/ Close(h)
            \/ \E nm \in Names, replace \in BOOLEAN : Rename(h, nm, replace)
            \/ \E room \in Room : GoOnReading(room) \/ \E m \in Node : StartReading(h, room, m)
      BY <2>2 DEF Next
    <3>2. CASE \E room \in Room : GoOnReading(room) \/ \E m \in Node : StartReading(h, room, m)
      BY <3>2, ReadingStepKeeps
    <3> QED BY <3>1, <3>2, ReadingGoesOnStep
  <2> QED BY <2>1, <2>2
<1>3. ReadInv => ReadingIsComplete
  BY DEF ReadInv
<1> QED BY <1>1, <1>2, <1>3, Invariance, PTL DEF Spec
=============================================================================
