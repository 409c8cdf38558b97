---------------------------- MODULE ChipTopProofs ----------------------------
(***************************************************************************)
(* Theorems about ChipTop, for every length of runs, words and tables: a   *)
(* burst is answered once and never ahead of the host, blocks are shared   *)
(* only when worn, offers stand but for those OffersStand leaves out, and  *)
(* of the bytes the host sends none is lost, until the stream is garbled,  *)
(* but those OnlyKnownLosses names.  Each stage has lemmas of its own      *)
(* about its next-state function; a step of the chip puts them together.   *)
(***************************************************************************)
EXTENDS ChipTop, TLAPS, SequenceTheorems, WellFoundedInduction

\* How many of some things are true: what each of them needs to be counted.
LEMMA OneFacts == \A b \in BOOLEAN : One(b) \in {0, 1} /\ (b <=> One(b) = 1) /\ (~ b <=> One(b) = 0)
BY DEF One

LEMMA OneOfTwo ==
  ASSUME NEW a \in BOOLEAN, NEW b \in BOOLEAN, NEW d \in BOOLEAN, NEW f \in BOOLEAN,
         ~ (a /\ b), a \/ b => d \/ f
  PROVE  One(a) + One(b) <= One(d) + One(f)
<1>1. /\ One(a) \in {0, 1} /\ One(b) \in {0, 1} /\ One(d) \in {0, 1} /\ One(f) \in {0, 1}
  BY OneFacts
<1>2. One(a) = 0 \/ One(b) = 0
  BY OneFacts
<1>3. (One(a) = 0 /\ One(b) = 0) \/ One(d) = 1 \/ One(f) = 1
  BY OneFacts
<1> QED BY <1>1, <1>2, <1>3

LEMMA TwoOfTwo ==
  ASSUME NEW a \in BOOLEAN, NEW b \in BOOLEAN, NEW d \in BOOLEAN, NEW f \in BOOLEAN,
         b => d, a => f \/ (d /\ ~ b)
  PROVE  One(a) + One(b) <= One(d) + One(f)
<1>1. /\ One(a) \in {0, 1} /\ One(b) \in {0, 1} /\ One(d) \in {0, 1} /\ One(f) \in {0, 1}
  BY OneFacts
<1>2. One(b) = 0 \/ One(d) = 1
  BY OneFacts
<1>3. One(a) = 0 \/ One(f) = 1 \/ (One(d) = 1 /\ One(b) = 0)
  BY OneFacts
<1> QED BY <1>1, <1>2, <1>3

\* What is new, taken and left of something that is due at most once.
LEMMA Balance ==
  ASSUME NEW new \in BOOLEAN, NEW old \in BOOLEAN, NEW come \in BOOLEAN, NEW gone \in BOOLEAN,
         new <=> come \/ (old /\ ~ gone), come => ~ old, gone => old
  PROVE  One(new) + One(gone) = One(old) + One(come)
<1>1. /\ One(new) \in {0, 1} /\ One(old) \in {0, 1} /\ One(come) \in {0, 1} /\ One(gone) \in {0, 1}
  BY OneFacts
<1>2. \/ One(new) = 1 /\ One(come) = 1 /\ One(old) = 0 /\ One(gone) = 0
      \/ One(new) = 1 /\ One(come) = 0 /\ One(old) = 1 /\ One(gone) = 0
      \/ One(new) = 0 /\ One(come) = 0 /\ One(old) = 1 /\ One(gone) = 1
      \/ One(new) = 0 /\ One(come) = 0 /\ One(old) = 0 /\ One(gone) = 0
  BY OneFacts
<1> QED BY <1>1, <1>2

-----------------------------------------------------------------------------
(* The serializer *)

\* The ends of bursts that leave or stay come in or were there, and a byte
\* that is not taken stays, unless it is the last.
SerKeeps(s, in_valid, last, out_ready, t) ==
  /\ SerEnds(t) + One(s.out_valid /\ s.out_last /\ out_ready)
       <= SerEnds(s) + One(in_valid /\ s.in_ready /\ last)
  /\ s.out_valid /\ ~ out_ready /\ ~ s.out_last =>
       t.out_valid /\ t.out_data = s.out_data

\* One step of the serializer keeps its shape, and makes an end of a burst
\* only from a word that is the last of one; an end that is taken leaves.
LEMMA SerStep ==
  ASSUME NEW s \in SerRegs, SerShape(s),
         NEW in_valid \in BOOLEAN, NEW word \in Seq(Nat), NEW last \in BOOLEAN,
         NEW out_ready \in BOOLEAN, in_valid => word # << >>,
         NEW t, t = SerNext(s, in_valid, word, last, out_ready)
  PROVE  t \in SerRegs /\ SerShape(t) /\ SerKeeps(s, in_valid, last, out_ready, t)
<1> DEFINE a == t.state = "stream" /\ t.last_latch
           b == t.out_valid /\ t.out_last
           c == s.out_valid /\ s.out_last /\ out_ready
           d == s.state = "stream" /\ s.last_latch
           e == s.out_valid /\ s.out_last
           f == in_valid /\ s.in_ready /\ last
           Typed == t \in SerRegs /\ SerShape(t)
           Stands == s.out_valid /\ ~ out_ready /\ ~ s.out_last =>
                       t.out_valid /\ t.out_data = s.out_data
           Counted == \/ ~ d /\ (a => f) /\ (b => e) /\ (c => e) /\ ~ (b /\ c)
                      \/ (a => d) /\ (b => d) /\ ~ (a /\ b) /\ (c => e)
                      \/ (a => d) /\ (b => e) /\ ~ c
<1>1. ASSUME s.state = "idle" /\ in_valid /\ s.in_ready
      PROVE  Typed /\ Stands /\ Counted
  <2>1. /\ t.state = "stream" /\ t.in_ready = FALSE /\ t.rest = word /\ t.last_latch = last
        /\ t.out_data = s.out_data
        /\ t.out_valid = (s.out_valid /\ ~ out_ready)
        /\ t.out_last = (s.out_last /\ ~ (s.out_valid /\ out_ready))
        /\ t \in SerRegs
    BY <1>1 DEF SerNext, SerIdle, SerTaken, SerRegs
  <2> QED BY <2>1, <1>1 DEF SerRegs, SerShape
<1>2. ASSUME s.state = "idle" /\ ~ (in_valid /\ s.in_ready)
      PROVE  Typed /\ Stands /\ Counted
  <2>1. /\ t.state = s.state /\ t.in_ready = TRUE /\ t.rest = s.rest /\ t.last_latch = s.last_latch
        /\ t.out_data = s.out_data
        /\ t.out_valid = (s.out_valid /\ ~ out_ready)
        /\ t.out_last = (s.out_last /\ ~ (s.out_valid /\ out_ready))
        /\ t \in SerRegs
    BY <1>2 DEF SerNext, SerIdle, SerTaken, SerRegs
  <2> QED BY <2>1, <1>2 DEF SerRegs, SerShape
<1>3. ASSUME s.state = "stream" /\ s.out_valid /\ ~ out_ready
      PROVE  Typed /\ Stands /\ Counted
  <2>1. t = s
    BY <1>3 DEF SerNext, SerStream
  <2> QED BY <1>3, <2>1 DEF SerRegs
<1>4. ASSUME s.state = "stream" /\ ~ (s.out_valid /\ ~ out_ready)
      PROVE  Typed /\ Stands /\ Counted
  <2> DEFINE end == Len(s.rest) = 1
  <2>1. s.rest \in Seq(Nat) /\ s.rest # << >>
    BY <1>4 DEF SerRegs, SerShape
  <2>2. /\ Head(s.rest) \in Nat /\ Tail(s.rest) \in Seq(Nat)
        /\ Tail(s.rest) = << >> <=> end
    <3>1. Len(s.rest) \in Nat \ {0} /\ Head(s.rest) \in Nat /\ Tail(s.rest) \in Seq(Nat)
          /\ Len(Tail(s.rest)) = Len(s.rest) - 1
      BY <2>1
    <3>2. \A q \in Seq(Nat) : q = << >> <=> Len(q) = 0
      OBVIOUS
    <3>3. Tail(s.rest) = << >> <=> Len(Tail(s.rest)) = 0
      BY <3>1, <3>2
    <3>4. Len(Tail(s.rest)) = 0 <=> Len(s.rest) = 1
      BY <3>1
    <3> QED BY <3>1, <3>3, <3>4
  <2>3. /\ t.state = IF end THEN (IF s.last_latch THEN "done" ELSE "idle") ELSE "stream"
        /\ t.in_ready = end /\ t.rest = Tail(s.rest) /\ t.last_latch = s.last_latch
        /\ t.out_valid = TRUE /\ t.out_data = Head(s.rest)
        /\ t.out_last = (s.last_latch /\ end)
        /\ t \in SerRegs
    BY <1>4, <2>2 DEF SerNext, SerStream, SerOffer, SerRegs
  <2>4. SerShape(t)
    BY <2>2, <2>3 DEF SerShape
  <2>5. (a => d) /\ (b => d) /\ ~ (a /\ b) /\ (c => e)
    <3> HIDE DEF end
    <3> QED BY <1>4, <2>3
  <2>6. Stands
    BY <1>4 DEF SerRegs
  <2> QED BY <2>3, <2>4, <2>5, <2>6
<1>5. ASSUME s.state = "done"
      PROVE  Typed /\ Stands /\ Counted
  <2>1. /\ t.state = "idle" /\ t.in_ready = TRUE /\ t.rest = s.rest /\ t.last_latch = s.last_latch
        /\ t.out_valid = FALSE /\ t.out_last = FALSE /\ t.out_data = s.out_data
        /\ t \in SerRegs
    BY <1>5 DEF SerNext, SerDone, SerRegs
  <2> QED BY <2>1, <1>5 DEF SerRegs, SerShape
<1>6. Typed /\ Stands /\ Counted
  BY <1>1, <1>2, <1>3, <1>4, <1>5 DEF SerRegs
<1>7. /\ a \in BOOLEAN /\ b \in BOOLEAN /\ c \in BOOLEAN
      /\ d \in BOOLEAN /\ e \in BOOLEAN /\ f \in BOOLEAN
  OBVIOUS
<1> HIDE DEF a, b, c, d, e, f
<1>8. One(a) + One(b) + One(c) <= One(d) + One(e) + One(f)
  <2>1. /\ One(a) \in {0, 1} /\ One(b) \in {0, 1} /\ One(c) \in {0, 1}
        /\ One(d) \in {0, 1} /\ One(e) \in {0, 1} /\ One(f) \in {0, 1}
    BY <1>7, OneFacts
  <2>2. CASE ~ d /\ (a => f) /\ (b => e) /\ (c => e) /\ ~ (b /\ c)
    <3>1. /\ One(a) = 0 \/ One(f) = 1
          /\ One(b) = 0 \/ One(e) = 1
          /\ One(c) = 0 \/ One(e) = 1
          /\ One(b) = 0 \/ One(c) = 0
      BY <1>7, <2>2, OneFacts
    <3> QED BY <2>1, <3>1
  <2>3. CASE (a => d) /\ (b => d) /\ ~ (a /\ b) /\ (c => e)
    <3>1. /\ One(a) = 0 \/ One(d) = 1
          /\ One(b) = 0 \/ One(d) = 1
          /\ One(a) = 0 \/ One(b) = 0
          /\ One(c) = 0 \/ One(e) = 1
      BY <1>7, <2>3, OneFacts
    <3> QED BY <2>1, <3>1
  <2>4. CASE (a => d) /\ (b => e) /\ ~ c
    <3>1. /\ One(a) = 0 \/ One(d) = 1
          /\ One(b) = 0 \/ One(e) = 1
          /\ One(c) = 0
      BY <1>7, <2>4, OneFacts
    <3> QED BY <2>1, <3>1
  <2> QED BY <1>6, <2>2, <2>3, <2>4
<1>9. SerEnds(t) = One(a) + One(b) /\ SerEnds(s) = One(d) + One(e)
  BY DEF SerEnds, a, b, d, e
<1>10. One(c) = One(s.out_valid /\ s.out_last /\ out_ready)
       /\ One(f) = One(in_valid /\ s.in_ready /\ last)
  BY DEF c, f
<1>11. SerEnds(t) + One(c) <= SerEnds(s) + One(f)
  <2>1. /\ One(a) \in {0, 1} /\ One(b) \in {0, 1} /\ One(c) \in {0, 1}
        /\ One(d) \in {0, 1} /\ One(e) \in {0, 1} /\ One(f) \in {0, 1}
    BY <1>7, OneFacts
  <2> QED BY <1>8, <1>9, <2>1
<1> QED BY <1>6, <1>10, <1>11 DEF SerKeeps

-----------------------------------------------------------------------------
(* The compressor *)

\* One step of the compressor, whose output is always taken: an end it offers
\* or keeps came in or was there.
LEMMA CmpStep ==
  ASSUME NEW c \in CmpRegs,
         NEW in_valid \in BOOLEAN, NEW data \in Nat, NEW last \in BOOLEAN,
         NEW t, t = CmpNext(c, in_valid, data, last, TRUE)
  PROVE  /\ t \in CmpRegs
         /\ CmpEnds(t) + One(c.out_valid /\ c.out_last)
              <= CmpEnds(c) + One(in_valid /\ last /\ c.in_ready)
<1> DEFINE a == t.state = "flush" /\ t.pending_last
           b == t.out_valid /\ t.out_last
           d == c.state = "flush" /\ c.pending_last
           e == c.out_valid /\ c.out_last
           f == in_valid /\ last /\ c.in_ready
           Kept == t \in CmpRegs /\ ~ (a /\ b) /\ (a \/ b => d \/ f)
<1>1. MaxRun \in Nat \ {0} /\ 0 \in 0 .. MaxRun /\ 1 \in 0 .. MaxRun
  BY ChipTopAssumption
<1>2. c.run \in Nat /\ c.run <= MaxRun
  BY <1>1 DEF CmpRegs
<1>3. ASSUME c.state = "idle" /\ ~ (in_valid /\ c.in_ready)
      PROVE  Kept
  <2>1. t = [CmpTaken(c, TRUE) EXCEPT !.in_ready = TRUE]
    BY <1>3 DEF CmpNext, CmpIdle
  <2>2. /\ t \in CmpRegs /\ t.state = "idle"
        /\ t.out_valid = FALSE
    BY <1>3, <2>1 DEF CmpTaken, CmpRegs
  <2> QED BY <1>3, <2>2 DEF CmpRegs
<1>4. ASSUME c.state = "idle" /\ in_valid /\ c.in_ready /\ data = 0
      PROVE  Kept
  <2>1. /\ t \in CmpRegs /\ t.state = (IF last THEN "flush" ELSE "stream")
        /\ t.out_valid = FALSE /\ t.pending_last = last
    BY <1>4, <1>1 DEF CmpNext, CmpIdle, CmpTaken, CmpRegs
  <2> QED BY <1>4, <2>1 DEF CmpRegs
<1>5. ASSUME c.state = "idle" /\ in_valid /\ c.in_ready /\ data # 0
      PROVE  Kept
  <2>1. /\ t \in CmpRegs /\ t.state = (IF last THEN "done" ELSE "idle")
        /\ t.out_valid = TRUE /\ t.out_last = last
    BY <1>5 DEF CmpNext, CmpIdle, CmpTaken, CmpRegs
  <2> QED BY <1>5, <2>1 DEF CmpRegs
<1>6. ASSUME c.state = "stream" /\ ~ (in_valid /\ c.in_ready)
      PROVE  Kept
  <2>1. /\ t \in CmpRegs /\ t.state = "stream" /\ t.out_valid = FALSE
    BY <1>6 DEF CmpNext, CmpStream, CmpTaken, CmpRegs
  <2> QED BY <1>6, <2>1 DEF CmpRegs
<1>7. ASSUME c.state = "stream" /\ in_valid /\ c.in_ready /\ CountsOn(c, data)
      PROVE  Kept
  <2>1. c.run + 1 \in 0 .. MaxRun
    BY <1>1, <1>2, <1>7 DEF CountsOn
  <2>2. CASE last
    <3>1. /\ t \in CmpRegs /\ t.state = "flush" /\ t.pending_last = TRUE
          /\ t.out_valid = TRUE /\ t.out_last = FALSE
      BY <1>7, <2>1, <2>2 DEF CmpNext, CmpStream, CmpTaken, Marked, CmpRegs
    <3> QED BY <1>7, <2>2, <3>1 DEF CmpRegs
  <2>3. CASE ~ last
    <3>1. t \in CmpRegs /\ t.state = "stream" /\ t.out_valid = FALSE
      BY <1>7, <2>1, <2>3 DEF CmpNext, CmpStream, CmpTaken, CmpRegs
    <3> QED BY <1>7, <3>1 DEF CmpRegs
  <2> QED BY <2>2, <2>3
<1>8. ASSUME c.state = "stream" /\ in_valid /\ c.in_ready /\ ~ CountsOn(c, data)
      PROVE  Kept
  <2>1. /\ t \in CmpRegs /\ t.state = "flush" /\ t.pending_last = last
        /\ t.out_valid = TRUE /\ t.out_last = FALSE
    BY <1>8 DEF CmpNext, CmpStream, CmpTaken, Marked, CmpRegs
  <2> QED BY <1>8, <2>1 DEF CmpRegs
<1>9. ASSUME c.state = "flush"
      PROVE  Kept
  <2>1. /\ t \in CmpRegs /\ t.state = (IF c.pending_last THEN "done" ELSE "idle")
        /\ t.out_valid = TRUE /\ t.out_last = c.pending_last
    BY <1>9, <1>1, <1>2 DEF CmpNext, CmpFlush, CmpRegs
  <2> QED BY <1>9, <2>1 DEF CmpRegs
<1>10. ASSUME c.state = "done"
      PROVE  Kept
  <2>1. t \in CmpRegs /\ t.state = "idle" /\ t.out_valid = FALSE
    BY <1>10 DEF CmpNext, CmpDone, CmpRegs
  <2> QED BY <1>10, <2>1 DEF CmpRegs
<1>11. Kept
  BY <1>3, <1>4, <1>5, <1>6, <1>7, <1>8, <1>9, <1>10 DEF CmpRegs
<1>12. a \in BOOLEAN /\ b \in BOOLEAN /\ d \in BOOLEAN /\ e \in BOOLEAN /\ f \in BOOLEAN
  OBVIOUS
<1> HIDE DEF a, b, d, e, f
<1>13. One(a) + One(b) <= One(d) + One(f)
  BY <1>11, <1>12, OneOfTwo
<1>14. CmpEnds(t) = One(a) + One(b) /\ CmpEnds(c) = One(d) + One(e)
  BY DEF CmpEnds, a, b, d, e
<1>15. One(e) = One(c.out_valid /\ c.out_last) /\ One(f) = One(in_valid /\ last /\ c.in_ready)
  BY DEF e, f
<1>16. CmpEnds(t) + One(e) <= CmpEnds(c) + One(f)
  <2>1. /\ One(a) \in {0, 1} /\ One(b) \in {0, 1} /\ One(d) \in {0, 1}
        /\ One(e) \in {0, 1} /\ One(f) \in {0, 1}
    BY <1>12, OneFacts
  <2> DEFINE A == One(a)  B == One(b)  D == One(d)  E == One(e)  F == One(f)
  <2>2. \A i, j, k, l, n \in {0, 1} : i + j <= k + n => i + j + l <= k + l + n
    OBVIOUS
  <2> QED BY <1>13, <1>14, <2>1, <2>2
<1> QED BY <1>11, <1>15, <1>16

-----------------------------------------------------------------------------
(* The assembler *)

\* Words stay short, and the end that leaves or stays came in or was there.
Short(a) == Len(a.buf) < WordBytes /\ Len(a.out_word) <= WordBytes
AsmKeeps(a, in_valid, last, out_ready, t) ==
  AsmEnds(t) + One(a.out_valid /\ out_ready /\ a.out_last) <= AsmEnds(a) + One(in_valid /\ last)

\* One step of the assembler: words stay short, and the end it offers came in
\* or was there and not taken.
LEMMA AsmStep ==
  ASSUME NEW a \in AsmRegs, Short(a),
         NEW in_valid \in BOOLEAN, NEW data \in Nat, NEW last \in BOOLEAN,
         NEW out_ready \in BOOLEAN,
         NEW t, t = AsmNext(a, in_valid, data, last, out_ready)
  PROVE  t \in AsmRegs /\ Short(t) /\ AsmKeeps(a, in_valid, last, out_ready, t)
<1>1. WordBytes \in Nat \ {0}
  BY ChipTopAssumption
<1>2. /\ a.buf \in Seq(Nat) /\ Append(a.buf, data) \in Seq(Nat)
      /\ Len(Append(a.buf, data)) = Len(a.buf) + 1 /\ Len(a.buf) \in Nat
      /\ a.out_word \in Seq(Nat) /\ a.out_valid \in BOOLEAN /\ a.out_last \in BOOLEAN
      /\ Len(a.buf) < WordBytes /\ Len(a.out_word) <= WordBytes
  BY DEF AsmRegs, Short
<1> DEFINE taken == AsmTaken(a, out_ready)
           m == t.out_valid /\ t.out_last
           b == a.out_valid /\ out_ready /\ a.out_last
           d == a.out_valid /\ a.out_last
           f == in_valid /\ last
<1>3. /\ taken.buf = a.buf /\ taken \in AsmRegs
      /\ taken.out_word = IF a.out_valid /\ out_ready THEN << >> ELSE a.out_word
      /\ taken.out_valid = (a.out_valid /\ ~ out_ready)
      /\ taken.out_last = (a.out_last /\ ~ (a.out_valid /\ out_ready))
  <2>1. CASE a.out_valid /\ out_ready
    <3>1. taken = [a EXCEPT !.out_valid = FALSE, !.out_word = << >>, !.out_last = FALSE]
      BY <2>1 DEF AsmTaken
    <3>2. << >> \in Seq(Nat)
      OBVIOUS
    <3> HIDE DEF taken
    <3>3. /\ taken.buf = a.buf /\ taken.out_word = << >>
          /\ taken.out_valid = FALSE /\ taken.out_last = FALSE
      BY <3>1 DEF AsmRegs
    <3>4. taken \in AsmRegs
      BY <3>1, <3>2 DEF AsmRegs
    <3> QED BY <2>1, <3>3, <3>4
  <2>2. CASE ~ (a.out_valid /\ out_ready)
    <3>1. taken = a
      BY <2>2 DEF AsmTaken
    <3> HIDE DEF taken
    <3> QED BY <1>2, <2>2, <3>1
  <2> QED BY <2>1, <2>2
<1>4. Len(taken.out_word) <= WordBytes
  <2>1. CASE a.out_valid /\ out_ready
    BY <1>1, <1>3, <2>1
  <2>2. CASE ~ (a.out_valid /\ out_ready)
    BY <1>2, <1>3, <2>2
  <2> QED BY <2>1, <2>2
<1> HIDE DEF taken
<1>5. ASSUME ~ in_valid
      PROVE  t \in AsmRegs /\ Short(t) /\ (b => d) /\ (m => f \/ (d /\ ~ b))
  <2>1. t = taken
    BY <1>5 DEF AsmNext, taken
  <2>2. t \in AsmRegs /\ Short(t)
    BY <1>2, <1>3, <1>4, <2>1 DEF Short
  <2>3. m => d /\ ~ b
    BY <1>2, <1>3, <2>1
  <2> QED BY <2>2, <2>3
<1>6. ASSUME in_valid /\ Complete(a, last)
      PROVE  t \in AsmRegs /\ Short(t) /\ (b => d) /\ (m => f \/ (d /\ ~ b))
  <2>1. t = [buf |-> << >>, out_valid |-> TRUE, out_word |-> Append(a.buf, data),
             out_last |-> last]
    BY <1>6 DEF AsmNext
  <2>2. /\ t \in AsmRegs /\ t.buf = << >> /\ t.out_word = Append(a.buf, data)
        /\ t.out_valid = TRUE /\ t.out_last = last
    BY <1>2, <2>1 DEF AsmRegs
  <2>3. Short(t)
    BY <1>1, <1>2, <2>2 DEF Short
  <2> QED BY <1>6, <2>2, <2>3
<1>7. ASSUME in_valid /\ ~ Complete(a, last)
      PROVE  t \in AsmRegs /\ Short(t) /\ (b => d) /\ (m => f \/ (d /\ ~ b))
  <2>1. t = [taken EXCEPT !.buf = Append(taken.buf, data)]
    BY <1>7 DEF AsmNext, taken
  <2>2. /\ t \in AsmRegs /\ t.buf = Append(a.buf, data) /\ t.out_word = taken.out_word
        /\ t.out_valid = taken.out_valid /\ t.out_last = taken.out_last
    BY <1>2, <1>3, <2>1 DEF AsmRegs
  <2>3. Len(a.buf) # WordBytes - 1
    BY <1>7 DEF Complete
  <2>4. Short(t)
    BY <1>1, <1>2, <1>4, <2>2, <2>3 DEF Short
  <2>5. m => d /\ ~ b
    BY <1>2, <1>3, <2>2
  <2> QED BY <2>2, <2>4, <2>5
<1>8. t \in AsmRegs /\ Short(t) /\ (b => d) /\ (m => f \/ (d /\ ~ b))
  BY <1>5, <1>6, <1>7
<1>9. m \in BOOLEAN /\ b \in BOOLEAN /\ d \in BOOLEAN /\ f \in BOOLEAN
  OBVIOUS
<1> HIDE DEF m, b, d, f
<1>10. One(m) + One(b) <= One(d) + One(f)
  BY <1>8, <1>9, TwoOfTwo
<1>11. /\ AsmEnds(t) = One(m) /\ AsmEnds(a) = One(d)
       /\ One(b) = One(a.out_valid /\ out_ready /\ a.out_last) /\ One(f) = One(in_valid /\ last)
  BY DEF AsmEnds, m, b, d, f
<1> QED BY <1>8, <1>10, <1>11 DEF AsmKeeps
-----------------------------------------------------------------------------
(* The controller *)

\* What one step of the controller does with the handshakes of a burst: the
\* address is taken, then words until the last, then the answer is given.
Flow(c, aw_valid, ends, go, t) ==
  /\ t.awready => aw_valid /\ ~ c.awready
  /\ t.wready <=> c.awready \/ (c.wready /\ ~ ends)
  /\ Owes(t) <=> (c.wready /\ ends) \/ (Owes(c) /\ ~ (c.bvalid /\ go))
  /\ c.bvalid => t.bvalid \/ go
  /\ c.rvalid => t.rvalid \/ t.state = "idle"
  /\ c.state \notin {"page_program", "prog_wait", "wl_remap"} =>
       t.map = c.map /\ t.pe = c.pe /\ t.state \notin {"prog_wait", "wl_remap"}

LEMMA CtlStep ==
  ASSUME NEW c \in CtlRegs, CtlShape(c),
         NEW w_aw \in Channel, NEW w_ar \in Channel, NEW valid \in BOOLEAN, NEW last \in BOOLEAN,
         NEW go \in BOOLEAN, c.awready => w_aw.valid,
         NEW t, t = CtlNext(c, w_aw, w_ar, [valid |-> valid, last |-> last], go)
  PROVE  t \in CtlRegs /\ CtlShape(t) /\ Flow(c, w_aw.valid, valid /\ last, go, t)
<1> DEFINE Good == t \in CtlRegs /\ CtlShape(t) /\ Flow(c, w_aw.valid, valid /\ last, go, t)
<1>1. /\ w_aw.lba \in Lbas /\ w_ar.lba \in Lbas /\ w_aw.valid \in BOOLEAN /\ w_ar.valid \in BOOLEAN
      /\ c.map[c.lba] \in 0 .. Blocks - 1
  BY DEF Channel, CtlRegs
<1>2. (c.free + 1) % FreeRange \in 0 .. FreeRange - 1
  BY TopControllerAssumption DEF CtlRegs
<1>3. ASSUME c.state = "idle"
      PROVE  Good
  <2>1. t = CtlIdle(c, w_aw.valid, w_ar)
    BY <1>3 DEF CtlNext, Waits
  <2>2. CASE t = [c EXCEPT !.state = "gc_select"]
    BY <1>3, <2>2 DEF CtlRegs, CtlShape, Flow, Owes, Served, Waits
  <2>3. CASE w_aw.valid /\ t = [c EXCEPT !.awready = TRUE, !.state = "fetch"]
    BY <1>3, <2>3 DEF CtlRegs, CtlShape, Flow, Owes, Served, Waits
  <2>4. CASE t = [c EXCEPT !.arready = TRUE, !.write = FALSE, !.lba = w_ar.lba,
                           !.state = "translate"]
    BY <1>1, <1>3, <2>4 DEF CtlRegs, CtlShape, Flow, Owes, Served, Waits
  <2>5. CASE t = c
    BY <1>3, <2>5 DEF CtlRegs, CtlShape, Flow, Owes, Served, Waits
  <2>6. c.free \in Nat /\ GcThreshold \in Nat
    BY TopControllerAssumption DEF CtlRegs
  <2>7. \/ c.free < GcThreshold
        \/ c.free >= GcThreshold /\ w_aw.valid
        \/ c.free >= GcThreshold /\ ~ w_aw.valid /\ w_ar.valid
        \/ ~ (c.free < GcThreshold) /\ ~ (c.free >= GcThreshold /\ w_aw.valid)
           /\ ~ (c.free >= GcThreshold /\ ~ w_aw.valid /\ w_ar.valid)
    BY <2>6
  <2>8. ~ (c.free < GcThreshold /\ c.free >= GcThreshold)
    BY <2>6
  <2> QED BY <2>1, <2>2, <2>3, <2>4, <2>5, <2>7, <2>8 DEF CtlIdle
<1>4. ASSUME c.state = "fetch"
      PROVE  Good
  <2>1. t = CtlFetch(c, w_aw.lba)
    BY <1>4 DEF CtlNext, Waits
  <2>2. t = [c EXCEPT !.lba = w_aw.lba, !.awready = FALSE, !.wready = TRUE, !.write = TRUE,
                      !.state = "coalesce"]
    BY <2>1 DEF CtlFetch
  <2>3. t \in CtlRegs
    BY <1>1, <2>2 DEF CtlRegs
  <2>4. c.awready /\ ~ c.wready /\ ~ c.bvalid /\ ~ c.rvalid /\ ~ Owes(c)
    BY <1>4 DEF CtlShape, CtlRegs, Owes, Served
  <2>5. /\ t.state = "coalesce" /\ ~ t.awready /\ t.wready /\ t.write
        /\ t.bvalid = c.bvalid /\ t.rvalid = c.rvalid /\ t.map = c.map /\ t.pe = c.pe
    BY <2>2 DEF CtlRegs
  <2>6. CtlShape(t)
    BY <2>4, <2>5 DEF CtlShape
  <2>7. Flow(c, w_aw.valid, valid /\ last, go, t)
    BY <2>4, <2>5 DEF Flow, Owes, Served
  <2> QED BY <2>3, <2>6, <2>7
<1>5. ASSUME c.state = "coalesce"
      PROVE  Good
  <2>1. t = CtlCoalesce(c, valid, last)
    BY <1>5 DEF CtlNext, Waits
  <2>2. CASE valid /\ last
    <3>1. t = [c EXCEPT !.wready = FALSE, !.state = "translate"]
      BY <2>1, <2>2 DEF CtlCoalesce
    <3> QED BY <1>5, <2>2, <3>1 DEF CtlRegs, CtlShape, Flow, Owes, Served, Waits
  <2>3. CASE ~ (valid /\ last)
    <3>1. t = c
      BY <2>1, <2>3 DEF CtlCoalesce
    <3> QED BY <1>5, <2>3, <3>1 DEF CtlRegs, CtlShape, Flow, Owes, Served, Waits
  <2> QED BY <2>2, <2>3
<1>6. ASSUME c.state = "translate"
      PROVE  Good
  <2>1. t = CtlTranslate(c)
    BY <1>6 DEF CtlNext, Waits
  <2>2. t = [c EXCEPT !.arready = FALSE, !.pba = c.map[c.lba],
                      !.state = IF c.write THEN "ecc_gen" ELSE "page_read"]
    BY <2>1 DEF CtlTranslate
  <2> QED BY <1>1, <1>6, <2>2 DEF CtlRegs, CtlShape, Flow, Owes, Served, Waits
<1>7. ASSUME c.state = "ecc_gen"
      PROVE  Good
  <2>1. t = [c EXCEPT !.state = "page_program"]
    BY <1>7 DEF CtlNext, Waits
  <2> QED BY <1>7, <2>1 DEF CtlRegs, CtlShape, Flow, Owes, Served, Waits
<1>8. ASSUME c.state = "page_program"
      PROVE  Good
  <2>1. t = CtlProgram(c)
    BY <1>8 DEF CtlNext, Waits
  <2>2. t = [c EXCEPT !.pe = [c.pe EXCEPT ![c.pba] = @ + 1], !.wl_needed = c.pe[c.pba] > MaxPe,
                      !.state = "prog_wait"]
    BY <2>1 DEF CtlProgram, CtlRegs
  <2> DEFINE worn == c.pe[c.pba] > MaxPe
             pe == [c.pe EXCEPT ![c.pba] = @ + 1]
  <2>3. pe \in [0 .. Blocks - 1 -> Nat]
    <3>1. c.pe \in [0 .. Blocks - 1 -> Nat] /\ c.pba \in 0 .. Blocks - 1
      BY DEF CtlRegs
    <3>2. c.pe[c.pba] \in Nat
      BY <3>1
    <3>3. c.pe[c.pba] + 1 \in Nat
      BY <3>2
    <3> QED BY <3>1, <3>3
  <2>4. worn \in BOOLEAN
    OBVIOUS
  <2>5. t = [c EXCEPT !.pe = pe, !.wl_needed = worn, !.state = "prog_wait"]
    BY <2>2
  <2> HIDE DEF worn, pe
  <2> QED BY <1>8, <2>3, <2>4, <2>5 DEF CtlRegs, CtlShape, Flow, Owes, Served, Waits
<1>9. ASSUME c.state = "page_read"
      PROVE  Good
  <2>1. t = [c EXCEPT !.state = "read_wait"]
    BY <1>9 DEF CtlNext, Waits
  <2> QED BY <1>9, <2>1 DEF CtlRegs, CtlShape, Flow, Owes, Served, Waits
<1>10. ASSUME c.state = "afe_sense"
      PROVE  Good
  <2>1. t = [c EXCEPT !.rvalid = TRUE, !.state = "respond"]
    BY <1>10 DEF CtlNext, Waits
  <2> QED BY <1>10, <2>1 DEF CtlRegs, CtlShape, Flow, Owes, Served, Waits
<1>11. ASSUME c.state = "respond"
      PROVE  Good
  <2>1. t = CtlRespond(c, go)
    BY <1>11 DEF CtlNext, Waits
  <2>2. CASE c.write /\ ~ c.bvalid
    <3>1. t = [c EXCEPT !.bvalid = TRUE]
      BY <2>1, <2>2 DEF CtlRespond
    <3> QED BY <1>11, <2>2, <3>1 DEF CtlRegs, CtlShape, Flow, Owes, Served, Waits
  <2>3. CASE c.write /\ c.bvalid /\ go
    <3>1. t = [c EXCEPT !.bvalid = FALSE, !.state = "idle"]
      BY <2>1, <2>3 DEF CtlRespond
    <3> QED BY <1>11, <2>3, <3>1 DEF CtlRegs, CtlShape, Flow, Owes, Served, Waits
  <2>4. CASE ~ c.write /\ c.rvalid /\ go
    <3>1. t = [c EXCEPT !.rvalid = FALSE, !.state = "idle"]
      BY <2>1, <2>4 DEF CtlRespond
    <3> QED BY <1>11, <2>4, <3>1 DEF CtlRegs, CtlShape, Flow, Owes, Served, Waits
  <2>5. CASE ~ (c.write /\ ~ c.bvalid) /\ ~ (c.write /\ c.bvalid /\ go) /\ ~ (~ c.write /\ c.rvalid /\ go)
    <3>1. t = c
      BY <2>1, <2>5 DEF CtlRespond
    <3> QED BY <1>11, <2>5, <3>1 DEF CtlRegs, CtlShape, Flow, Owes, Served, Waits
  <2> QED BY <2>2, <2>3, <2>4, <2>5
<1>12. ASSUME c.state \in Waits
      PROVE  Good
  <2>1. t = IF go THEN CtlWait(c) ELSE c
    BY <1>12 DEF CtlNext, Waits
  <2>2. CASE ~ go
    <3>1. t = c
      BY <2>1, <2>2
    <3> QED BY <1>12, <2>2, <3>1 DEF CtlRegs, CtlShape, Flow, Owes, Served, Waits
  <2>3. CASE go /\ c.state \in {"init", "erase_wait"}
    <3>1. t = [c EXCEPT !.state = "idle"]
      BY <2>1, <2>3 DEF CtlWait
    <3> QED BY <2>3, <3>1 DEF CtlRegs, CtlShape, Flow, Owes, Served, Waits
  <2>4. CASE go /\ c.state = "gc_select"
    <3>1. t = [c EXCEPT !.free = (c.free + 1) % FreeRange, !.state = "erase_wait"]
      BY <2>1, <2>4 DEF CtlWait
    <3>2. (c.free + 1) % FreeRange \in 0 .. FreeRange - 1
      BY <1>2
    <3> DEFINE f == (c.free + 1) % FreeRange
    <3> HIDE DEF f
    <3>3. t = [c EXCEPT !.free = f, !.state = "erase_wait"] /\ f \in 0 .. FreeRange - 1
      BY <3>1, <3>2 DEF f
    <3> QED BY <2>4, <3>3 DEF CtlRegs, CtlShape, Flow, Owes, Served, Waits
  <2>5. CASE go /\ c.state = "prog_wait"
    <3>1. t = [c EXCEPT !.state = IF c.wl_needed THEN "wl_remap" ELSE "respond"]
      BY <2>1, <2>5 DEF CtlWait
    <3> QED BY <2>5, <3>1 DEF CtlRegs, CtlShape, Flow, Owes, Served, Waits
  <2>6. CASE go /\ c.state = "wl_remap"
    <3> DEFINE m == Remapped(c)
    <3>1. m \in [Lbas -> 0 .. Blocks - 1]
      BY DEF Remapped, CtlRegs
    <3>2. t = [c EXCEPT !.map = m, !.state = "respond"]
      BY <2>1, <2>6 DEF CtlWait
    <3> HIDE DEF m
    <3> QED BY <2>6, <3>1, <3>2 DEF CtlRegs, CtlShape, Flow, Owes, Served, Waits
  <2>7. CASE go /\ c.state = "read_wait"
    <3>1. t = [c EXCEPT !.state = "afe_sense"]
      BY <2>1, <2>7 DEF CtlWait
    <3> QED BY <2>7, <3>1 DEF CtlRegs, CtlShape, Flow, Owes, Served, Waits
  <2> QED BY <1>12, <2>2, <2>3, <2>4, <2>5, <2>6, <2>7 DEF Waits
<1> QED BY <1>3, <1>4, <1>5, <1>6, <1>7, <1>8, <1>9, <1>10, <1>11, <1>12 DEF CtlRegs

\* Writes only wear blocks out, and a block is shared after it was found worn.
LEMMA CtlWorn ==
  ASSUME NEW c \in CtlRegs, Worn(c), CtlShape(c),
         NEW w_aw \in Channel, NEW w_ar \in Channel, NEW valid \in BOOLEAN, NEW last \in BOOLEAN,
         NEW go \in BOOLEAN, c.awready => w_aw.valid,
         NEW t, t = CtlNext(c, w_aw, w_ar, [valid |-> valid, last |-> last], go)
  PROVE  Worn(t)
<1>1. /\ c.map \in [Lbas -> 0 .. Blocks - 1] /\ c.pe \in [0 .. Blocks - 1 -> Nat]
      /\ c.pba \in 0 .. Blocks - 1 /\ MaxPe \in Nat
  BY TopControllerAssumption DEF CtlRegs
<1>2. CASE c.state \notin {"page_program", "prog_wait", "wl_remap"}
  <2>1. Flow(c, w_aw.valid, valid /\ last, go, t)
    BY CtlStep
  <2>2. t.map = c.map /\ t.pe = c.pe /\ t.state \notin {"prog_wait", "wl_remap"}
    BY <1>2, <2>1 DEF Flow
  <2> QED BY <2>2 DEF Worn
<1>3. CASE c.state = "page_program"
  <2>1. t = CtlProgram(c)
    BY <1>3 DEF CtlNext, Waits
  <2>2. /\ t.map = c.map /\ t.pba = c.pba /\ t.state = "prog_wait"
        /\ t.pe = [c.pe EXCEPT ![c.pba] = @ + 1]
        /\ t.wl_needed = (c.pe[c.pba] > MaxPe)
    BY <2>1 DEF CtlProgram, CtlRegs
  <2>3. /\ \A b \in 0 .. Blocks - 1 : t.pe[b] \in Nat /\ c.pe[b] \in Nat /\ t.pe[b] >= c.pe[b]
        /\ t.pe[c.pba] = c.pe[c.pba] + 1
    <3>1. \A b \in 0 .. Blocks - 1 : c.pe[b] \in Nat
      BY <1>1
    <3>2. \A b \in 0 .. Blocks - 1 : t.pe[b] = IF b = c.pba THEN c.pe[b] + 1 ELSE c.pe[b]
      BY <1>1, <2>2
    <3> QED BY <1>1, <3>1, <3>2
  <2>4. ASSUME NEW k \in Lbas, NEW l \in Lbas, k # l, t.map[k] = t.map[l]
        PROVE  t.pe[t.map[k]] > MaxPe + 1
    <3>1. c.pe[c.map[k]] > MaxPe + 1 /\ c.map[k] \in 0 .. Blocks - 1
      BY <1>1, <2>2, <2>4 DEF Worn
    <3> DEFINE b == c.map[k]
    <3>2. t.map[k] = b
      BY <2>2
    <3> HIDE DEF b
    <3>3. t.pe[b] \in Nat /\ c.pe[b] \in Nat /\ t.pe[b] >= c.pe[b]
      BY <2>3, <3>1 DEF b
    <3>4. c.pe[b] > MaxPe + 1
      BY <3>1 DEF b
    <3>5. t.pe[b] > MaxPe + 1
      BY <1>1, <3>3, <3>4
    <3> QED BY <3>2, <3>5
  <2>5. ASSUME t.wl_needed
        PROVE  t.pe[t.pba] > MaxPe + 1
    <3>1. c.pe[c.pba] > MaxPe /\ c.pe[c.pba] \in Nat
      BY <1>1, <2>2, <2>5
    <3> QED BY <1>1, <2>2, <2>3, <3>1
  <2> QED BY <2>2, <2>4, <2>5 DEF Worn
<1>4. CASE c.state \in {"prog_wait", "wl_remap"}
  <2>1. t = IF go THEN CtlWait(c) ELSE c
    BY <1>4 DEF CtlNext, Waits
  <2>2. CASE ~ go
    BY <2>1, <2>2
  <2>3. CASE go /\ c.state = "prog_wait"
    <3>1. t = [c EXCEPT !.state = IF c.wl_needed THEN "wl_remap" ELSE "respond"]
      BY <2>1, <2>3 DEF CtlWait
    <3>2. /\ t.map = c.map /\ t.pe = c.pe /\ t.pba = c.pba
          /\ (t.state = "wl_remap" /\ c.wl_needed) \/ t.state = "respond"
      BY <3>1 DEF CtlRegs
    <3>3. c.wl_needed => c.pe[c.pba] > MaxPe + 1
      BY <2>3 DEF Worn
    <3>4. t.state = "wl_remap" \/ (t.state = "prog_wait" /\ t.wl_needed) => t.pe[t.pba] > MaxPe + 1
      BY <3>2, <3>3
    <3>5. \A k, l \in Lbas : k # l /\ t.map[k] = t.map[l] => t.pe[t.map[k]] > MaxPe + 1
      BY <3>2 DEF Worn
    <3> QED BY <3>4, <3>5 DEF Worn
  <2>4. CASE go /\ c.state = "wl_remap"
    <3> DEFINE cold == Coldest(c) % NumLbas
    <3>1. t = [c EXCEPT !.map = [c.map EXCEPT ![cold] = c.pba], !.state = "respond"]
      BY <2>1, <2>4 DEF CtlWait, Remapped
    <3> HIDE DEF cold
    <3>2. /\ t.map = [c.map EXCEPT ![cold] = c.pba] /\ t.pe = c.pe /\ t.state = "respond"
      BY <3>1 DEF CtlRegs
    <3>3. c.pe[c.pba] > MaxPe + 1
      BY <2>4 DEF Worn
    <3>4. ASSUME NEW k \in Lbas, NEW l \in Lbas, k # l, t.map[k] = t.map[l]
          PROVE  t.pe[t.map[k]] > MaxPe + 1
      <4>1. t.map[k] = c.pba \/ (t.map[k] = c.map[k] /\ t.map[l] = c.map[l])
        BY <1>1, <3>2, <3>4
      <4> QED BY <3>2, <3>3, <3>4, <4>1 DEF Worn
    <3> QED BY <3>2, <3>4 DEF Worn
  <2> QED BY <1>4, <2>2, <2>3, <2>4
<1> QED BY <1>2, <1>3, <1>4 DEF CtlRegs

-----------------------------------------------------------------------------
(* The chip *)

\* What holds of the registers after a reset.
LEMMA ResetFacts ==
  /\ SerReset \in SerRegs /\ SerShape(SerReset) /\ SerEnds(SerReset) = 0
  /\ CmpReset \in CmpRegs /\ CmpEnds(CmpReset) = 0
  /\ AsmReset \in AsmRegs /\ AsmEnds(AsmReset) = 0
  /\ Len(AsmReset.buf) < WordBytes /\ Len(AsmReset.out_word) <= WordBytes
  /\ CtlReset \in CtlRegs /\ CtlShape(CtlReset) /\ Worn(CtlReset)
  /\ ~ CtlReset.awready /\ ~ CtlReset.wready /\ ~ Owes(CtlReset)
  /\ NoAddress \in Channel /\ ~ NoAddress.valid
<1>1. /\ MaxRun \in Nat \ {0} /\ WordBytes \in Nat \ {0} /\ Blocks \in Nat \ {0, 1}
      /\ FreeRange \in Nat \ {0} /\ NumLbas \in 1 .. Blocks
  BY ChipTopAssumption, TopControllerAssumption
<1>2. SerReset \in SerRegs /\ SerShape(SerReset) /\ SerEnds(SerReset) = 0
  BY DEF SerReset, SerRegs, SerShape, SerEnds, One
<1>3. CmpReset \in CmpRegs /\ CmpEnds(CmpReset) = 0
  BY <1>1 DEF CmpReset, CmpRegs, CmpEnds, One
<1>4. AsmReset \in AsmRegs /\ AsmEnds(AsmReset) = 0 /\ AsmReset.buf = << >> /\ AsmReset.out_word = << >>
  BY DEF AsmReset, AsmRegs, AsmEnds, One
<1>5. Len(AsmReset.buf) < WordBytes /\ Len(AsmReset.out_word) <= WordBytes
  BY <1>1, <1>4
<1>6. 0 \in Lbas /\ 0 \in 0 .. Blocks - 1 /\ Lbas \subseteq 0 .. Blocks - 1
  BY <1>1 DEF Lbas
<1>7. CtlReset \in CtlRegs
  <2> DEFINE free == Blocks % FreeRange
  <2>1. free \in 0 .. FreeRange - 1
    BY <1>1
  <2>2. CtlReset =
          [state |-> "init", free |-> free,
           map |-> [l \in Lbas |-> l], pe |-> [b \in 0 .. Blocks - 1 |-> 0],
           write |-> FALSE, lba |-> 0, pba |-> 0, wl_needed |-> FALSE,
           awready |-> FALSE, wready |-> FALSE, bvalid |-> FALSE,
           arready |-> FALSE, rvalid |-> FALSE]
    BY DEF CtlReset
  <2> HIDE DEF free
  <2>3. /\ [l \in Lbas |-> l] \in [Lbas -> 0 .. Blocks - 1]
        /\ [b \in 0 .. Blocks - 1 |-> 0] \in [0 .. Blocks - 1 -> Nat]
    BY <1>6
  <2> QED BY <1>6, <2>1, <2>2, <2>3 DEF CtlRegs, Waits
<1>8. /\ CtlShape(CtlReset) /\ ~ CtlReset.awready /\ ~ CtlReset.wready /\ ~ Owes(CtlReset)
  BY DEF CtlReset, CtlShape, Owes
<1>9. Worn(CtlReset)
  BY DEF CtlReset, Worn
<1>10. NoAddress \in Channel /\ ~ NoAddress.valid
  BY <1>6 DEF NoAddress, Channel
<1> QED BY <1>2, <1>3, <1>4, <1>5, <1>7, <1>8, <1>9, <1>10

LEMMA InitHolds == Init => IInv
<1> SUFFICES ASSUME Init PROVE IInv
  OBVIOUS
<1>1. /\ ser = SerReset /\ cmp = CmpReset /\ asm = AsmReset /\ ctl = CtlReset
      /\ aw = NoAddress /\ ar = NoAddress
      /\ bursts = [asked |-> 0, ended |-> 0, seen |-> 0, answered |-> 0]
      /\ words = 0
  BY DEF Init
<1>2. Registers
  BY <1>1, ResetFacts DEF Registers
<1>3. EndsUnderWay
  BY <1>1, ResetFacts DEF EndsUnderWay
<1>4. One(FALSE) = 0
  BY DEF One
<1>5. One(aw.valid) = 0 /\ One(ctl.wready) = 0 /\ One(Owes(ctl)) = 0
  BY <1>1, ResetFacts DEF One
<1>6. Handshakes
  BY <1>1, <1>5, ResetFacts DEF Handshakes
<1>7. TypeOK
  <2>1. words \in 0 .. MaxWords
    BY <1>1, ChipTopAssumption
  <2> QED BY <1>1, <1>2, <2>1, ResetFacts DEF TypeOK, Registers, SerRegs, CmpRegs, AsmRegs, CtlRegs, SerShape
<1> QED BY <1>1, <1>2, <1>3, <1>6, <1>7, ResetFacts DEF IInv

LEMMA ResetStep == Reset => IInv'
<1> SUFFICES ASSUME Reset PROVE IInv'
  OBVIOUS
<1>1. /\ ser' = SerReset /\ cmp' = CmpReset /\ asm' = AsmReset /\ ctl' = CtlReset
      /\ aw' = NoAddress /\ ar' = NoAddress
      /\ bursts' = [asked |-> 0, ended |-> 0, seen |-> 0, answered |-> 0]
      /\ words' = 0
  BY DEF Reset
<1>2. Registers'
  BY <1>1, ResetFacts DEF Registers
<1>3. EndsUnderWay'
  BY <1>1, ResetFacts DEF EndsUnderWay
<1>5. One(aw'.valid) = 0 /\ One(ctl'.wready) = 0 /\ One(Owes(ctl')) = 0
  BY <1>1, ResetFacts DEF One
<1>6. Handshakes'
  BY <1>1, <1>5, ResetFacts DEF Handshakes
<1>7. TypeOK'
  <2>1. words' \in 0 .. MaxWords
    BY <1>1, ChipTopAssumption
  <2> QED BY <1>1, <1>2, <2>1, ResetFacts DEF TypeOK, Registers, SerRegs, CmpRegs, AsmRegs, CtlRegs, SerShape
<1> QED BY <1>1, <1>2, <1>3, <1>6, <1>7, ResetFacts DEF IInv

\* What each stage does in a cycle, from the lemmas about the stages.
LEMMA TickFacts ==
  ASSUME IInv, NEW w \in Offers, NEW go \in BOOLEAN, Tick(w, go)
  PROVE  /\ ser' \in SerRegs /\ SerShape(ser') /\ cmp' \in CmpRegs /\ asm' \in AsmRegs
         /\ Len(asm'.buf) < WordBytes /\ Len(asm'.out_word) <= WordBytes
         /\ ctl' \in CtlRegs /\ CtlShape(ctl') /\ Worn(ctl')
         /\ SerEnds(ser') + One(ser.out_valid /\ ser.out_last /\ cmp.in_ready)
              <= SerEnds(ser) + One(w.valid /\ ser.in_ready /\ w.last)
         /\ CmpEnds(cmp') + One(cmp.out_valid /\ cmp.out_last)
              <= CmpEnds(cmp) + One(ser.out_valid /\ ser.out_last /\ cmp.in_ready)
         /\ AsmEnds(asm') + One(asm.out_valid /\ ctl.wready /\ asm.out_last)
              <= AsmEnds(asm) + One(cmp.out_valid /\ cmp.out_last)
         /\ Flow(ctl, aw.valid, asm.out_valid /\ asm.out_last, go, ctl')
         /\ ser.out_valid /\ ~ cmp.in_ready /\ ~ ser.out_last =>
              ser'.out_valid /\ ser'.out_data = ser.out_data
<1>1. /\ TypeOK /\ Registers /\ SerShape(ser) /\ CtlShape(ctl) /\ Handshakes /\ Worn(ctl)
  BY DEF IInv
<1>2. /\ ser \in SerRegs /\ cmp \in CmpRegs /\ asm \in AsmRegs /\ ctl \in CtlRegs
      /\ aw \in Channel /\ ar \in Channel
  BY <1>1 DEF Registers
<1>3. /\ w.valid \in BOOLEAN /\ w.bytes \in Seq(Nat) /\ w.last \in BOOLEAN
      /\ w.valid => w.bytes # << >>
  <2>1. CASE w = NoWord
    BY <2>1 DEF NoWord
  <2>2. CASE w \in [valid : {TRUE}, bytes : Words, last : BOOLEAN]
    BY <2>2, ChipTopAssumption
  <2> QED BY <2>1, <2>2 DEF Offers
<1>4. /\ ser.out_valid \in BOOLEAN /\ ser.out_data \in Nat /\ ser.out_last \in BOOLEAN
      /\ cmp.in_ready \in BOOLEAN
      /\ cmp.out_valid \in BOOLEAN /\ cmp.out_data \in Nat /\ cmp.out_last \in BOOLEAN
      /\ asm.out_valid \in BOOLEAN /\ asm.out_last \in BOOLEAN /\ ctl.wready \in BOOLEAN
  BY <1>2 DEF SerRegs, CmpRegs, AsmRegs, CtlRegs
<1>5. /\ ser' = SerNext(ser, w.valid, w.bytes, w.last, cmp.in_ready)
      /\ cmp' = CmpNext(cmp, ser.out_valid, ser.out_data, ser.out_last, TRUE)
      /\ asm' = AsmNext(asm, cmp.out_valid, cmp.out_data, cmp.out_last, ctl.wready)
      /\ ctl' = CtlNext(ctl, aw, ar, [valid |-> asm.out_valid, last |-> asm.out_last], go)
  BY DEF Tick, WritePath, Controller
<1>6. /\ ser' \in SerRegs /\ SerShape(ser')
      /\ SerEnds(ser') + One(ser.out_valid /\ ser.out_last /\ cmp.in_ready)
           <= SerEnds(ser) + One(w.valid /\ ser.in_ready /\ w.last)
      /\ ser.out_valid /\ ~ cmp.in_ready /\ ~ ser.out_last =>
           ser'.out_valid /\ ser'.out_data = ser.out_data
  <2>1. /\ ser \in SerRegs /\ SerShape(ser)
        /\ w.valid \in BOOLEAN /\ w.bytes \in Seq(Nat) /\ w.last \in BOOLEAN
        /\ cmp.in_ready \in BOOLEAN /\ (w.valid => w.bytes # << >>)
        /\ ser' = SerNext(ser, w.valid, w.bytes, w.last, cmp.in_ready)
    BY <1>1, <1>2, <1>3, <1>4, <1>5
  <2>2. ser' \in SerRegs /\ SerShape(ser') /\ SerKeeps(ser, w.valid, w.last, cmp.in_ready, ser')
    BY <2>1, SerStep
  <2> QED BY <2>2 DEF SerKeeps
<1>7. /\ cmp' \in CmpRegs
      /\ CmpEnds(cmp') + One(cmp.out_valid /\ cmp.out_last)
           <= CmpEnds(cmp) + One(ser.out_valid /\ ser.out_last /\ cmp.in_ready)
  BY <1>2, <1>4, <1>5, CmpStep
<1>8. /\ asm' \in AsmRegs /\ Len(asm'.buf) < WordBytes /\ Len(asm'.out_word) <= WordBytes
      /\ AsmEnds(asm') + One(asm.out_valid /\ ctl.wready /\ asm.out_last)
           <= AsmEnds(asm) + One(cmp.out_valid /\ cmp.out_last)
  <2>1. Short(asm)
    BY <1>1 DEF TypeOK, Short
  <2>2. /\ asm \in AsmRegs /\ cmp.out_valid \in BOOLEAN /\ cmp.out_data \in Nat
        /\ cmp.out_last \in BOOLEAN /\ ctl.wready \in BOOLEAN
        /\ asm' = AsmNext(asm, cmp.out_valid, cmp.out_data, cmp.out_last, ctl.wready)
    BY <1>2, <1>4, <1>5
  <2>3. asm' \in AsmRegs /\ Short(asm') /\ AsmKeeps(asm, cmp.out_valid, cmp.out_last, ctl.wready, asm')
    BY <2>1, <2>2, AsmStep
  <2> QED BY <2>3 DEF AsmKeeps, Short
<1>9. ctl.awready => aw.valid
  BY <1>1 DEF Handshakes
<1>10. /\ ctl' \in CtlRegs /\ CtlShape(ctl')
       /\ Flow(ctl, aw.valid, asm.out_valid /\ asm.out_last, go, ctl')
  <2>1. /\ ctl \in CtlRegs /\ CtlShape(ctl) /\ aw \in Channel /\ ar \in Channel
        /\ asm.out_valid \in BOOLEAN /\ asm.out_last \in BOOLEAN /\ (ctl.awready => aw.valid)
        /\ ctl' = CtlNext(ctl, aw, ar, [valid |-> asm.out_valid, last |-> asm.out_last], go)
    BY <1>1, <1>2, <1>4, <1>5, <1>9
  <2> QED BY <2>1, CtlStep
<1>11. Worn(ctl')
  BY <1>1, <1>2, <1>4, <1>5, <1>9, CtlWorn
<1> QED BY <1>6, <1>7, <1>8, <1>10, <1>11

LEMMA TickStep ==
  ASSUME IInv, NEW w \in Offers, NEW go \in BOOLEAN, Tick(w, go)
  PROVE  IInv'
<1>1. /\ TypeOK /\ Registers /\ CtlShape(ctl) /\ EndsUnderWay /\ Handshakes
      /\ bursts \in [asked : Nat, ended : Nat, seen : Nat, answered : Nat]
  BY DEF IInv, Registers
<1>2. /\ ser \in SerRegs /\ cmp \in CmpRegs /\ asm \in AsmRegs /\ ctl \in CtlRegs
      /\ aw \in Channel /\ ar \in Channel
  BY <1>1 DEF Registers
<1> DEFINE sent == w.valid /\ ser.in_ready /\ w.last
           passed == ser.out_valid /\ ser.out_last /\ cmp.in_ready
           squeezed == cmp.out_valid /\ cmp.out_last
           taken == asm.out_valid /\ ctl.wready /\ asm.out_last
           told == ctl.bvalid /\ go
           asks == aw'.valid /\ ~ aw.valid
<1>3. /\ bursts'.asked = bursts.asked + One(asks)
      /\ bursts'.ended = bursts.ended + One(sent)
      /\ bursts'.seen = bursts.seen + One(taken)
      /\ bursts'.answered = bursts.answered + One(told)
      /\ bursts' = [asked |-> bursts.asked + One(asks), ended |-> bursts.ended + One(sent),
                    seen |-> bursts.seen + One(taken), answered |-> bursts.answered + One(told)]
  <2>1. /\ ((w.valid /\ ser.in_ready) /\ w.last) = sent
        /\ ((asm.out_valid /\ ctl.wready) /\ asm.out_last) = taken
    OBVIOUS
  <2>2. bursts' = [asked |-> bursts.asked + One(asks), ended |-> bursts.ended + One(sent),
                   seen |-> bursts.seen + One(taken), answered |-> bursts.answered + One(told)]
    BY <2>1 DEF Tick, Histories
  <2> HIDE DEF asks, sent, taken, told
  <2> QED BY <2>2
<1>4. /\ asks \in BOOLEAN /\ sent \in BOOLEAN /\ taken \in BOOLEAN /\ told \in BOOLEAN
      /\ passed \in BOOLEAN /\ squeezed \in BOOLEAN
  OBVIOUS
<1>5. /\ One(asks) \in {0, 1} /\ One(sent) \in {0, 1} /\ One(taken) \in {0, 1}
      /\ One(told) \in {0, 1} /\ One(passed) \in {0, 1} /\ One(squeezed) \in {0, 1}
  BY <1>4, OneFacts
<1>6. /\ aw' \in Channel /\ ar' \in Channel
      /\ aw.valid /\ ctl.awready => ~ aw'.valid
      /\ aw.valid /\ ~ ctl.awready => aw'.valid
  <2>1. /\ aw' \in IF aw.valid THEN {IF ctl.awready THEN NoAddress ELSE aw}
                   ELSE {NoAddress} \cup {Address(l) : l \in {k \in Lbas : bursts.asked < MaxWords}}
        /\ ar' \in IF ar.valid THEN {IF ctl.arready THEN NoAddress ELSE ar}
                   ELSE {NoAddress} \cup {Address(l) : l \in Lbas}
    BY DEF Tick, Addresses
  <2>2. /\ NoAddress \in Channel /\ ~ NoAddress.valid
        /\ \A l \in Lbas : Address(l) \in Channel
    BY ResetFacts DEF Address, Channel
  <2>3. aw' \in Channel
    BY <1>2, <2>1, <2>2
  <2>4. ar' \in Channel
    BY <1>2, <2>1, <2>2
  <2> QED BY <2>1, <2>2, <2>3, <2>4
<1>7. Registers'
  <2>1. bursts' \in [asked : Nat, ended : Nat, seen : Nat, answered : Nat]
    <3>1. /\ bursts.asked \in Nat /\ bursts.ended \in Nat /\ bursts.seen \in Nat
          /\ bursts.answered \in Nat
      BY <1>1
    <3>2. /\ bursts.asked + One(asks) \in Nat /\ bursts.ended + One(sent) \in Nat
          /\ bursts.seen + One(taken) \in Nat /\ bursts.answered + One(told) \in Nat
      <4> HIDE DEF asks, sent, taken, told
      <4> QED BY <1>5, <3>1
    <3> HIDE DEF asks, sent, taken, told
    <3> QED BY <1>3, <3>2
  <2> QED BY <1>6, <2>1, TickFacts DEF Registers
<1>8. /\ SerEnds(ser') + One(passed) <= SerEnds(ser) + One(sent)
      /\ CmpEnds(cmp') + One(squeezed) <= CmpEnds(cmp) + One(passed)
      /\ AsmEnds(asm') + One(taken) <= AsmEnds(asm) + One(squeezed)
      /\ Flow(ctl, aw.valid, asm.out_valid /\ asm.out_last, go, ctl')
  BY TickFacts
<1>9. EndsUnderWay'
  <2>1. /\ SerEnds(ser) \in Nat /\ SerEnds(ser') \in Nat /\ CmpEnds(cmp) \in Nat
        /\ CmpEnds(cmp') \in Nat /\ AsmEnds(asm) \in Nat /\ AsmEnds(asm') \in Nat
    BY DEF SerEnds, CmpEnds, AsmEnds, One
  <2>2. /\ bursts.seen + SerEnds(ser) + CmpEnds(cmp) + AsmEnds(asm) <= bursts.ended
        /\ bursts.seen \in Nat /\ bursts.ended \in Nat
    BY <1>1 DEF EndsUnderWay
  <2> HIDE DEF asks, sent, taken, told, passed, squeezed
  <2>3. bursts'.seen + SerEnds(ser') + CmpEnds(cmp') + AsmEnds(asm') <= bursts'.ended
    BY <1>3, <1>5, <1>8, <2>1, <2>2
  <2> QED BY <2>3 DEF EndsUnderWay
<1>10. Handshakes'
  <2> DEFINE ends == asm.out_valid /\ asm.out_last
             A == aw.valid
             B == aw'.valid
             R == ctl.awready
             Y == ctl.wready
             Z == ctl'.wready
  <2>1. /\ A \in BOOLEAN /\ B \in BOOLEAN /\ R \in BOOLEAN /\ Y \in BOOLEAN /\ Z \in BOOLEAN
    <3>1. ctl' \in CtlRegs
      BY TickFacts
    <3> QED BY <1>2, <1>6, <3>1 DEF Channel, CtlRegs
  <2>2. /\ R => A /\ ~ Y
        /\ A /\ R => ~ B
        /\ A /\ ~ R => B
        /\ Z <=> R \/ (Y /\ ~ taken)
        /\ taken => Y
        /\ asks <=> B /\ ~ A
    BY <1>1, <1>6, <1>8, <2>1 DEF Handshakes, CtlShape, Flow
  <2>3. ctl'.awready => aw'.valid
    BY <1>6, <1>8 DEF Flow
  <2>4. One(asks) + One(A) + One(Y) = One(taken) + One(B) + One(Z)
    <3> HIDE DEF A, B, R, Y, Z, asks, taken
    <3>1. /\ One(A) \in {0, 1} /\ One(B) \in {0, 1} /\ One(Y) \in {0, 1} /\ One(Z) \in {0, 1}
      BY <2>1, OneFacts
    <3>2. CASE A /\ R
      <4>1. /\ One(asks) = 0 /\ One(A) = 1 /\ One(Y) = 0
            /\ One(taken) = 0 /\ One(B) = 0 /\ One(Z) = 1
        BY <1>4, <2>1, <2>2, <3>2, OneFacts
      <4> QED BY <4>1
    <3>3. CASE ~ R
      <4>1. One(asks) + One(A) = One(B)
        <5>1. \/ One(asks) = 0 /\ One(A) = 1 /\ One(B) = 1
              \/ One(asks) = 1 /\ One(A) = 0 /\ One(B) = 1
              \/ One(asks) = 0 /\ One(A) = 0 /\ One(B) = 0
          BY <1>4, <2>1, <2>2, <3>3, OneFacts
        <5> QED BY <5>1
      <4>2. One(Y) = One(taken) + One(Z)
        <5>1. \/ One(Y) = 1 /\ One(taken) = 1 /\ One(Z) = 0
              \/ One(Y) = 1 /\ One(taken) = 0 /\ One(Z) = 1
              \/ One(Y) = 0 /\ One(taken) = 0 /\ One(Z) = 0
          BY <1>4, <2>1, <2>2, <3>3, OneFacts
        <5> QED BY <5>1
      <4> QED BY <1>5, <3>1, <4>1, <4>2
    <3> QED BY <2>2, <3>2, <3>3
  <2>5. bursts'.asked = bursts'.seen + One(B) + One(Z)
    <3>1. bursts.asked = bursts.seen + One(A) + One(Y) /\ bursts.asked \in Nat /\ bursts.seen \in Nat
      BY <1>1 DEF Handshakes
    <3>2. /\ One(A) \in {0, 1} /\ One(B) \in {0, 1} /\ One(Y) \in {0, 1} /\ One(Z) \in {0, 1}
      BY <2>1, OneFacts
    <3> HIDE DEF A, B, R, Y, Z, asks, taken, sent, told
    <3> QED BY <1>3, <1>5, <2>4, <3>1, <3>2
  <2> DEFINE new == Owes(ctl')
             old == Owes(ctl)
  <2>6. /\ new \in BOOLEAN /\ old \in BOOLEAN
    BY TickFacts, <1>2 DEF Owes, CtlRegs
  <2>7. /\ new <=> taken \/ (old /\ ~ told)
        /\ taken => ~ old
        /\ told => old
    <3>1. taken => ~ old
      BY <1>1 DEF CtlShape, Owes, Served
    <3>2. told => old
      BY <1>1 DEF CtlShape, Owes, Served
    <3>3. new <=> (ctl.wready /\ ends) \/ (old /\ ~ told)
      BY <1>8 DEF Flow
    <3> QED BY <3>1, <3>2, <3>3
  <2>8. One(new) + One(told) = One(old) + One(taken)
    <3> HIDE DEF new, old, taken, told
    <3> QED BY <1>4, <2>6, <2>7, Balance
  <2>9. bursts'.seen = bursts'.answered + One(new)
    <3>1. bursts.seen = bursts.answered + One(old) /\ bursts.answered \in Nat /\ bursts.seen \in Nat
      BY <1>1 DEF Handshakes
    <3>2. One(new) \in {0, 1} /\ One(old) \in {0, 1}
      BY <2>6, OneFacts
    <3> HIDE DEF new, old, asks, taken, sent, told
    <3> QED BY <1>3, <1>5, <2>8, <3>1, <3>2
  <2> QED BY <2>3, <2>5, <2>9 DEF Handshakes
<1>11. TypeOK'
  <2>1. words' \in 0 .. MaxWords
    <3>1. words' = words + One(w.valid /\ ser.in_ready) /\ (w.valid => words < MaxWords)
      BY DEF Tick, Histories
    <3>2. words \in 0 .. MaxWords /\ MaxWords \in Nat
      BY <1>1, ChipTopAssumption DEF TypeOK
    <3>3. CASE w.valid /\ ser.in_ready
      <4>1. words' = words + 1
        BY <3>1, <3>3 DEF One
      <4> QED BY <3>1, <3>2, <3>3, <4>1
    <3>4. CASE ~ (w.valid /\ ser.in_ready)
      <4>1. words' = words + 0
        BY <3>1, <3>4 DEF One
      <4> QED BY <3>2, <4>1
    <3> QED BY <3>3, <3>4
  <2>2. SerShape(ser') /\ Len(asm'.buf) < WordBytes /\ Len(asm'.out_word) <= WordBytes
    BY TickFacts
  <2> QED BY <1>7, <2>1, <2>2 DEF TypeOK, Registers, SerRegs, CmpRegs, AsmRegs, CtlRegs, SerShape
<1> QED BY <1>7, <1>9, <1>10, <1>11, TickFacts DEF IInv

LEMMA StutterStep == IInv /\ UNCHANGED vars => IInv'
<1> SUFFICES ASSUME IInv, UNCHANGED vars PROVE IInv'
  OBVIOUS
<1>1. /\ ser' = ser /\ cmp' = cmp /\ asm' = asm /\ ctl' = ctl /\ aw' = aw /\ ar' = ar
      /\ bursts' = bursts /\ words' = words
  BY DEF vars, stages
<1> QED BY <1>1 DEF IInv, TypeOK, Registers, EndsUnderWay, Handshakes

\* Every clock edge keeps the registers in their types and shapes, makes no
\* end of a burst, keeps the handshakes in step, and shares only worn blocks.
THEOREM Invariance == Spec => []IInv
<1>1. IInv /\ [Next]_vars => IInv'
  <2> SUFFICES ASSUME IInv, [Next]_vars PROVE IInv'
    OBVIOUS
  <2>1. CASE UNCHANGED vars
    BY <2>1, StutterStep
  <2>2. CASE Reset
    BY <2>2, ResetStep
  <2>3. CASE Ticks
    <3>1. PICK w \in Offers : Tick(w, TRUE) \/ Tick(w, FALSE)
      BY <2>3 DEF Ticks
    <3> QED BY <3>1, TickStep
  <2> QED BY <2>1, <2>2, <2>3 DEF Next
<1> QED BY InitHolds, <1>1, PTL DEF Spec

\* Every register has its type, for every length of runs, words and tables.
THEOREM TypeCorrect == Spec => []TypeOK
<1>1. IInv => TypeOK
  BY DEF IInv
<1> QED BY <1>1, Invariance, PTL

\* The controller takes the end of a burst after the host sent it and its
\* address was taken, and answers it once, before it takes the next.
THEOREM ControllerNeverAhead == Spec => []NeverAhead
<1>1. IInv => NeverAhead
  <2> SUFFICES ASSUME IInv PROVE NeverAhead
    OBVIOUS
  <2>1. /\ bursts.asked \in Nat /\ bursts.ended \in Nat /\ bursts.seen \in Nat /\ bursts.answered \in Nat
        /\ Handshakes /\ EndsUnderWay
    BY DEF IInv, Registers
  <2>2. /\ SerEnds(ser) \in Nat /\ CmpEnds(cmp) \in Nat /\ AsmEnds(asm) \in Nat
        /\ One(aw.valid) \in {0, 1} /\ One(ctl.wready) \in {0, 1} /\ One(Owes(ctl)) \in {0, 1}
    BY DEF SerEnds, CmpEnds, AsmEnds, One
  <2>3. /\ bursts.asked = bursts.seen + One(aw.valid) + One(ctl.wready)
        /\ bursts.seen = bursts.answered + One(Owes(ctl))
        /\ bursts.seen + SerEnds(ser) + CmpEnds(cmp) + AsmEnds(asm) <= bursts.ended
    BY <2>1 DEF Handshakes, EndsUnderWay
  <2>4. bursts.answered <= bursts.seen /\ bursts.seen <= bursts.answered + 1
    BY <2>1, <2>2, <2>3
  <2>5. bursts.seen <= bursts.ended
    BY <2>1, <2>2, <2>3
  <2>6. bursts.seen <= bursts.asked - One(aw.valid)
    BY <2>1, <2>2, <2>3
  <2> QED BY <2>4, <2>5, <2>6 DEF NeverAhead
<1> QED BY <1>1, Invariance, PTL

\* The remap of the wear levelling shares a block only when it is worn out.
THEOREM SharingIsWear == Spec => []SharedBlocksAreWorn
<1>1. IInv => SharedBlocksAreWorn
  BY DEF IInv, Worn, SharedBlocksAreWorn
<1> QED BY <1>1, Invariance, PTL

\* The serializer offers a byte until it is taken, unless it is the last of a
\* burst, the assembler a word unless the next one replaces it, and the
\* controller its answers: no other offer is withdrawn or changed, whatever
\* the stage after it does.  (The compressor is not in this: each of its
\* bytes is taken at once.)
THEOREM OffersAreKept == Spec => OffersStand
<1> DEFINE Kept ==
      \/ stages' = <<SerReset, CmpReset, AsmReset, CtlReset>>
      \/ /\ ser.out_valid /\ ~cmp.in_ready /\ ~ser.out_last =>
              ser'.out_valid /\ ser'.out_data = ser.out_data
         /\ asm.out_valid /\ ~ctl.wready /\ ~WordOverwritten =>
              asm'.out_valid /\ asm'.out_word = asm.out_word /\ asm'.out_last = asm.out_last
         /\ ctl.bvalid => ctl'.bvalid \/ bursts'.answered = bursts.answered + 1
         /\ ctl.rvalid => ctl'.rvalid \/ ctl'.state = "idle"
<1>1. IInv /\ [Next]_vars => [Kept]_vars
  <2> SUFFICES ASSUME IInv, Next PROVE Kept
    OBVIOUS
  <2>1. CASE Reset
    BY <2>1 DEF Reset, stages
  <2>2. ASSUME NEW w \in Offers, NEW go \in BOOLEAN, Tick(w, go)
        PROVE  Kept
    <3>1. /\ ser.out_valid /\ ~ cmp.in_ready /\ ~ ser.out_last =>
               ser'.out_valid /\ ser'.out_data = ser.out_data
          /\ Flow(ctl, aw.valid, asm.out_valid /\ asm.out_last, go, ctl')
      BY <2>2, TickFacts
    <3>2. ctl.bvalid => ctl'.bvalid \/ bursts'.answered = bursts.answered + 1
      <4> SUFFICES ASSUME ctl.bvalid, ~ ctl'.bvalid
                   PROVE  bursts'.answered = bursts.answered + 1
        OBVIOUS
      <4>1. go
        BY <3>1 DEF Flow
      <4>2. bursts'.answered = bursts.answered + One(ctl.bvalid /\ go)
        BY <2>2 DEF Tick, Histories
      <4> QED BY <4>1, <4>2 DEF One
    <3>3. ctl.rvalid => ctl'.rvalid \/ ctl'.state = "idle"
      BY <3>1 DEF Flow
    <3>4. asm.out_valid /\ ~ctl.wready /\ ~WordOverwritten =>
            asm'.out_valid /\ asm'.out_word = asm.out_word /\ asm'.out_last = asm.out_last
      <4> SUFFICES ASSUME asm.out_valid, ~ctl.wready, ~WordOverwritten
                   PROVE  asm'.out_valid /\ asm'.out_word = asm.out_word
                            /\ asm'.out_last = asm.out_last
        OBVIOUS
      <4>1. asm \in AsmRegs
        BY DEF IInv, Registers
      <4>2. AsmTaken(asm, ctl.wready) = asm
        BY DEF AsmTaken
      <4>3. asm' = IF cmp.out_valid THEN [asm EXCEPT !.buf = Append(@, cmp.out_data)] ELSE asm
        BY <2>2, <4>2 DEF Tick, WritePath, AsmNext, WordOverwritten
      <4> QED BY <4>1, <4>3 DEF AsmRegs
    <3> QED BY <3>1, <3>2, <3>3, <3>4
  <2>3. CASE Ticks
    <3>1. PICK w \in Offers : Tick(w, TRUE) \/ Tick(w, FALSE)
      BY <2>3 DEF Ticks
    <3> QED BY <2>2, <3>1
  <2> QED BY <2>1, <2>3 DEF Next
<1> QED BY <1>1, Invariance, PTL DEF Spec, OffersStand

-----------------------------------------------------------------------------
(* Functions defined from one number to the next *)

\* Induction over a set of numbers.
LEMMA SetOfNat ==
  ASSUME NEW S \in SUBSET Nat, 0 \in S, \A n \in S : n + 1 \in S
  PROVE  S = Nat
<1> DEFINE R == OpToRel(<, Nat)
<1>1. IsWellFoundedOn(R, Nat)
  BY NatLessThanWellFounded, Zenon
<1>2. \A m, n \in Nat : <<m, n>> \in R <=> m < n
  BY DEF OpToRel
<1> HIDE DEF R
<1>3. SUFFICES ASSUME Nat \ S # {} PROVE FALSE
  OBVIOUS
<1>4. PICK x \in Nat \ S : \A y \in Nat \ S : ~ (<<y, x>> \in R)
  BY <1>1, <1>3, WFMin
<1>5. x # 0 /\ x - 1 \in Nat /\ (x - 1) + 1 = x
  BY <1>4
<1>6. <<x - 1, x>> \in R
  BY <1>2, <1>5
<1> QED BY <1>4, <1>5, <1>6

\* A function is defined by its first value and the step from each to the next.
Recursive(f, N, d, step) == f[0] = d /\ \A k \in 1 .. N : f[k] = step[<<k, f[k - 1]>>]
StepAlike(f, g, N) == f[0] = g[0] /\ \A k \in 1 .. N : f[k - 1] = g[k - 1] => f[k] = g[k]

\* There is a function with a given first value and step.
LEMMA RecursionExists ==
  ASSUME NEW D, NEW d \in D, NEW N \in Nat, NEW step \in [(1 .. N) \X D -> D]
  PROVE  \E f \in [0 .. N -> D] : Recursive(f, N, d, step)
<1> DEFINE Good(n, f) == f[0] = d /\ \A k \in 1 .. n : f[k] = step[<<k, f[k - 1]>>]
           S == {n \in Nat : n <= N => \E f \in [0 .. n -> D] : Good(n, f)}
<1>1. 0 \in S
  <2>1. [k \in 0 .. 0 |-> d] \in [0 .. 0 -> D] /\ Good(0, [k \in 0 .. 0 |-> d])
    OBVIOUS
  <2> QED BY <2>1
<1>2. ASSUME NEW n \in S PROVE n + 1 \in S
  <2> SUFFICES ASSUME n + 1 <= N PROVE \E f \in [0 .. n + 1 -> D] : Good(n + 1, f)
    OBVIOUS
  <2>1. n \in Nat /\ n <= N
    OBVIOUS
  <2>2. PICK f \in [0 .. n -> D] : Good(n, f)
    BY <2>1
  <2> DEFINE g == [k \in 0 .. n + 1 |-> IF k <= n THEN f[k] ELSE step[<<n + 1, f[n]>>]]
  <2>3. f[n] \in D /\ step[<<n + 1, f[n]>>] \in D
    BY <2>1
  <2>4. g \in [0 .. n + 1 -> D]
    BY <2>1, <2>3
  <2>5. g[0] = d
    BY <2>1, <2>2
  <2>6. ASSUME NEW k \in 1 .. n + 1 PROVE g[k] = step[<<k, g[k - 1]>>]
    <3>1. CASE k <= n
      <4>1. k \in 1 .. n /\ k \in 0 .. n + 1 /\ k - 1 \in 0 .. n + 1 /\ k - 1 <= n
        BY <2>1, <3>1
      <4>2. g[k] = f[k] /\ g[k - 1] = f[k - 1]
        BY <4>1, <3>1
      <4>3. f[k] = step[<<k, f[k - 1]>>]
        BY <4>1, <2>2
      <4> QED BY <4>2, <4>3
    <3>2. CASE k = n + 1
      <4>1. k \in 0 .. n + 1 /\ k - 1 = n /\ n \in 0 .. n + 1 /\ ~ (n + 1 <= n) /\ n <= n
        BY <2>1, <3>2
      <4> QED BY <4>1, <3>2
    <3> QED BY <2>1, <3>1, <3>2
  <2> QED BY <2>4, <2>5, <2>6
<1>3. S = Nat
  <2> HIDE DEF Good
  <2>1. S \in SUBSET Nat
    OBVIOUS
  <2> HIDE DEF S
  <2> QED BY <2>1, <1>1, <1>2, SetOfNat
<1> QED BY <1>3 DEF Recursive

\* Two functions that begin alike and step alike are alike.
LEMMA RecursionUnique ==
  ASSUME NEW N \in Nat, NEW f, NEW g, StepAlike(f, g, N)
  PROVE  \A k \in 0 .. N : f[k] = g[k]
<1> DEFINE S == {n \in Nat : n <= N => f[n] = g[n]}
<1>1. 0 \in S
  BY DEF StepAlike
<1>2. ASSUME NEW n \in S PROVE n + 1 \in S
  <2>1. n \in Nat
    OBVIOUS
  <2>2. ASSUME n + 1 <= N PROVE f[n + 1] = g[n + 1]
    <3>1. n + 1 \in 1 .. N /\ (n + 1) - 1 = n /\ f[n] = g[n]
      BY <2>1, <2>2
    <3> QED BY <3>1 DEF StepAlike
  <2> QED BY <2>1, <2>2
<1>3. S = Nat
  <2>1. S \in SUBSET Nat
    OBVIOUS
  <2> HIDE DEF S
  <2> QED BY <2>1, <1>1, <1>2, SetOfNat
<1> QED BY <1>3

-----------------------------------------------------------------------------
(* The decoder *)

Readings == [bytes : Seq(Nat), mark : BOOLEAN]

\* One more zero is appended.
LEMMA ZerosFacts ==
  ASSUME NEW n \in Nat
  PROVE  /\ Zeros(n) \in Seq(Nat) /\ Len(Zeros(n)) = n
         /\ Zeros(n + 1) = Zeros(n) \o <<0>>
         /\ n = 0 => Zeros(n) = << >>
<1>1. Zeros(n) \in Seq(Nat) /\ Len(Zeros(n)) = n
  BY DEF Zeros
<1>2. Zeros(n + 1) \in Seq(Nat) /\ Len(Zeros(n + 1)) = n + 1
  BY DEF Zeros
<1>3. \A i \in 1 .. n + 1 : Zeros(n + 1)[i] = 0
  BY DEF Zeros
<1>4. \A i \in 1 .. n : Zeros(n)[i] = 0
  BY DEF Zeros
<1> DEFINE z == Zeros(n)
<1>5. /\ z \o <<0>> \in Seq(Nat) /\ Len(z \o <<0>>) = n + 1
      /\ \A i \in 1 .. n + 1 : (z \o <<0>>)[i] = 0
  <2>0. z \in Seq(Nat) /\ Len(z) = n /\ \A i \in 1 .. n : z[i] = 0
    BY <1>1, <1>4
  <2> HIDE DEF z
  <2>1. <<0>> \in Seq(Nat) /\ Len(<<0>>) = 1 /\ <<0>>[1] = 0
    OBVIOUS
  <2>2. /\ z \o <<0>> \in Seq(Nat) /\ Len(z \o <<0>>) = Len(z) + Len(<<0>>)
        /\ \A i \in 1 .. Len(z) + Len(<<0>>) :
             (z \o <<0>>)[i] = IF i <= Len(z) THEN z[i] ELSE <<0>>[i - Len(z)]
    BY <2>0, <2>1, ConcatProperties
  <2>3. ASSUME NEW i \in 1 .. n + 1 PROVE (z \o <<0>>)[i] = 0
    <3>0. i <= n \/ i = n + 1
      OBVIOUS
    <3>1. CASE i <= n
      BY <2>0, <2>1, <2>2, <3>1
    <3>2. CASE i = n + 1
      <4>1. i - n = 1 /\ ~ (i <= n)
        BY <3>2
      <4> QED BY <2>0, <2>1, <2>2, <4>1
    <3> QED BY <3>0, <3>1, <3>2
  <2> QED BY <2>0, <2>1, <2>2, <2>3
<1>6. Zeros(n + 1) = z \o <<0>>
  <2> DEFINE y == Zeros(n + 1)  x == z \o <<0>>
  <2>1. /\ y \in Seq(Nat) /\ x \in Seq(Nat) /\ Len(y) = Len(x)
        /\ \A i \in 1 .. Len(y) : y[i] = x[i]
    BY <1>2, <1>3, <1>5
  <2> HIDE DEF x, y
  <2>2. y = x
    BY <2>1, SeqEqual
  <2> QED BY <2>2 DEF x, y
<1>7. n = 0 => Zeros(n) = << >>
  BY <1>1, EmptySeq
<1> QED BY <1>1, <1>6, <1>7

\* A decoder that reads a token stays one.
LEMMA DecodeType ==
  ASSUME NEW d \in Readings, NEW t \in Nat
  PROVE  DecodeNext(d, t) \in Readings
<1>1. CASE d.mark
  <2>1. d.bytes \o Zeros(t) \in Seq(Nat)
    <3>1. d.bytes \in Seq(Nat) /\ Zeros(t) \in Seq(Nat)
      BY ZerosFacts DEF Readings
    <3> QED BY <3>1, ConcatProperties
  <2>2. DecodeNext(d, t) = [bytes |-> d.bytes \o Zeros(t), mark |-> FALSE]
    BY <1>1 DEF DecodeNext
  <2> QED BY <2>1, <2>2 DEF Readings
<1>2. CASE ~ d.mark /\ t = 0
  BY <1>2 DEF DecodeNext, Readings
<1>3. CASE ~ d.mark /\ t # 0
  <2>1. Append(d.bytes, t) \in Seq(Nat)
    BY AppendProperties DEF Readings
  <2>2. DecodeNext(d, t) = [bytes |-> Append(d.bytes, t), mark |-> FALSE]
    BY <1>3 DEF DecodeNext
  <2> QED BY <2>1, <2>2 DEF Readings
<1> QED BY <1>1, <1>2, <1>3

\* What the decoder has read after each of the tokens.
After(tokens, f) ==
  f = [k \in 0 .. Len(tokens) |-> IF k = 0 THEN NothingRead ELSE DecodeNext(f[k - 1], tokens[k])]

\* There is a function of what the decoder has read.
LEMMA AfterExists ==
  ASSUME NEW tokens \in Seq(Nat)
  PROVE  \E f \in [0 .. Len(tokens) -> Readings] : After(tokens, f)
<1> DEFINE N == Len(tokens)
           step == [p \in (1 .. N) \X Readings |-> DecodeNext(p[2], tokens[p[1]])]
<1>1. N \in Nat /\ \A k \in 1 .. N : tokens[k] \in Nat
  BY LenProperties
<1>2. step \in [(1 .. N) \X Readings -> Readings]
  BY <1>1, DecodeType
<1>3. NothingRead \in Readings
  BY DEF NothingRead, Readings
<1>4. \A k \in 1 .. N, d \in Readings : step[<<k, d>>] = DecodeNext(d, tokens[k])
  OBVIOUS
<1> HIDE DEF step, N
<1>5. PICK f \in [0 .. N -> Readings] : Recursive(f, N, NothingRead, step)
  <2>1. N \in Nat
    BY <1>1
  <2> QED BY <2>1, <1>2, <1>3, RecursionExists
<1>6. f[0] = NothingRead /\ \A k \in 1 .. N : f[k] = step[<<k, f[k - 1]>>]
  BY <1>5 DEF Recursive
<1>7. ASSUME NEW k \in 0 .. N
      PROVE  f[k] = IF k = 0 THEN NothingRead ELSE DecodeNext(f[k - 1], tokens[k])
  <2>1. CASE k = 0
    BY <2>1, <1>6
  <2>2. CASE k # 0
    <3>1. k \in 1 .. N /\ k - 1 \in 0 .. N
      BY <2>2, <1>1
    <3>2. f[k - 1] \in Readings
      BY <3>1, <1>5
    <3> QED BY <2>2, <3>1, <3>2, <1>4, <1>6
  <2> QED BY <2>1, <2>2
<1>8. f = [k \in 0 .. N |-> IF k = 0 THEN NothingRead ELSE DecodeNext(f[k - 1], tokens[k])]
  BY <1>7, <1>5
<1> QED BY <1>5, <1>8 DEF After, N

\* Decoder reads with such a function, and there is only one.
LEMMA DecoderIsAfter ==
  ASSUME NEW tokens \in Seq(Nat), NEW f, After(tokens, f)
  PROVE  Decoder(tokens) = f[Len(tokens)] /\ Decoder(tokens) \in Readings
<1> DEFINE g == CHOOSE h : After(tokens, h)
           N == Len(tokens)
<1>1. N \in Nat
  BY LenProperties
<1>2. After(tokens, g)
  <2>1. \E h : After(tokens, h)
    OBVIOUS
  <2> QED BY <2>1
<1>3. Decoder(tokens) = g[N]
  BY DEF Decoder, After
<1>4. PICK e \in [0 .. N -> Readings] : After(tokens, e)
  BY AfterExists
<1>5. ASSUME NEW h, After(tokens, h) PROVE h[N] = e[N]
  <2>1. /\ \A k \in 0 .. N : h[k] = IF k = 0 THEN NothingRead ELSE DecodeNext(h[k - 1], tokens[k])
        /\ \A k \in 0 .. N : e[k] = IF k = 0 THEN NothingRead ELSE DecodeNext(e[k - 1], tokens[k])
    BY <1>4, <1>5 DEF After
  <2>2. h[0] = e[0]
    BY <2>1, <1>1
  <2>3. \A k \in 1 .. N : h[k - 1] = e[k - 1] => h[k] = e[k]
    BY <2>1, <1>1
  <2> HIDE DEF N
  <2>4. StepAlike(h, e, N)
    BY <2>2, <2>3 DEF StepAlike
  <2>5. \A k \in 0 .. N : h[k] = e[k]
    BY <1>1, <2>4, RecursionUnique
  <2> QED BY <2>5, <1>1
<1> HIDE DEF g
<1>6. Decoder(tokens) = e[N] /\ f[N] = e[N]
  BY <1>2, <1>3, <1>5
<1>7. e[N] \in Readings
  BY <1>1, <1>4
<1> QED BY <1>6, <1>7

\* What a decoder has read is bytes, and perhaps a zero that stands before a length.
LEMMA DecoderType ==
  ASSUME NEW tokens \in Seq(Nat)
  PROVE  Decoder(tokens) \in Readings
BY AfterExists, DecoderIsAfter

\* A decoder that has read nothing.
LEMMA DecoderStart == Decoder(<< >>) = NothingRead
<1>1. << >> \in Seq(Nat) /\ Len(<< >>) = 0
  OBVIOUS
<1>2. PICK f \in [0 .. Len(<< >>) -> Readings] : After(<< >>, f)
  BY <1>1, AfterExists
<1>3. f[0] = NothingRead
  BY <1>1, <1>2 DEF After
<1> QED BY <1>1, <1>2, <1>3, DecoderIsAfter

\* One more token.
LEMMA DecoderAppend ==
  ASSUME NEW tokens \in Seq(Nat), NEW t \in Nat
  PROVE  Decoder(Append(tokens, t)) = DecodeNext(Decoder(tokens), t)
<1> DEFINE N == Len(tokens)  more == Append(tokens, t)
<1>1. /\ N \in Nat /\ more \in Seq(Nat) /\ Len(more) = N + 1 /\ more[N + 1] = t
      /\ \A k \in 1 .. N : more[k] = tokens[k]
  BY LenProperties, AppendProperties
<1> HIDE DEF more
<1>2. PICK f \in [0 .. Len(more) -> Readings] : After(more, f)
  BY <1>1, AfterExists
<1>3. PICK e \in [0 .. N -> Readings] : After(tokens, e)
  BY AfterExists
<1>4. /\ \A k \in 0 .. N + 1 : f[k] = IF k = 0 THEN NothingRead ELSE DecodeNext(f[k - 1], more[k])
      /\ \A k \in 0 .. N : e[k] = IF k = 0 THEN NothingRead ELSE DecodeNext(e[k - 1], tokens[k])
  BY <1>1, <1>2, <1>3 DEF After
<1>5. f[0] = e[0]
  BY <1>1, <1>4
<1>6. \A k \in 1 .. N : f[k - 1] = e[k - 1] => f[k] = e[k]
  BY <1>1, <1>4
<1>7. f[N] = e[N]
  <2>1. N \in Nat
    BY <1>1
  <2> HIDE DEF N
  <2>2. StepAlike(f, e, N)
    BY <1>5, <1>6 DEF StepAlike
  <2>3. \A k \in 0 .. N : f[k] = e[k]
    BY <2>1, <2>2, RecursionUnique
  <2> QED BY <2>1, <2>3
<1>8. f[N + 1] = DecodeNext(f[N], t)
  <2>1. N + 1 \in 0 .. N + 1 /\ (N + 1) - 1 = N /\ N + 1 # 0
    BY <1>1
  <2> QED BY <2>1, <1>1, <1>4
<1>9. Decoder(tokens) = e[N] /\ Decoder(more) = f[N + 1]
  BY <1>1, <1>2, <1>3, DecoderIsAfter
<1> QED BY <1>7, <1>8, <1>9 DEF more

-----------------------------------------------------------------------------
(* Sequences of bytes *)

\* A byte put before a sequence is its head.
LEMMA HeadAndTail ==
  ASSUME NEW e \in Nat, NEW q \in Seq(Nat)
  PROVE  /\ <<e>> \o q \in Seq(Nat) /\ <<e>> \o q # << >> /\ Tail(<<e>> \o q) = q
         /\ Len(<<e>> \o q) = Len(q) + 1
<1>1. <<e>> \in Seq(Nat) /\ Len(<<e>>) = 1 /\ Len(q) \in Nat
  BY LenProperties
<1> DEFINE p == <<e>> \o q
<1>2. /\ p \in Seq(Nat) /\ Len(p) = 1 + Len(q)
      /\ \A i \in 1 .. 1 + Len(q) : p[i] = IF i <= 1 THEN <<e>>[i] ELSE q[i - 1]
  BY <1>1, ConcatProperties
<1> HIDE DEF p
<1>3. p # << >>
  BY <1>1, <1>2, EmptySeq
<1>4. /\ Tail(p) \in Seq(Nat) /\ Len(Tail(p)) = Len(p) - 1
      /\ \A i \in 1 .. Len(Tail(p)) : Tail(p)[i] = p[i + 1]
  BY <1>2, <1>3, HeadTailProperties
<1>5. Len(Tail(p)) = Len(q)
  BY <1>1, <1>2, <1>4
<1>6. ASSUME NEW i \in 1 .. Len(q) PROVE Tail(p)[i] = q[i]
  <2>1. i + 1 \in 1 .. 1 + Len(q) /\ ~ (i + 1 <= 1) /\ (i + 1) - 1 = i
    BY <1>1
  <2> QED BY <1>2, <1>4, <1>5, <2>1
<1>7. Tail(p) = q
  BY <1>4, <1>5, <1>6, SeqEqual
<1> QED BY <1>1, <1>2, <1>3, <1>7 DEF p

\* A sequence is its head and its tail.
LEMMA HeadThenTail ==
  ASSUME NEW q \in Seq(Nat), q # << >>
  PROVE  Head(q) \in Nat /\ Tail(q) \in Seq(Nat) /\ q = <<Head(q)>> \o Tail(q)
<1>1. /\ Head(q) \in Nat /\ Tail(q) \in Seq(Nat) /\ Len(Tail(q)) = Len(q) - 1
      /\ \A i \in 1 .. Len(Tail(q)) : Tail(q)[i] = q[i + 1]
      /\ Len(q) \in Nat \ {0} /\ Head(q) = q[1]
  BY HeadTailProperties, EmptySeq
<1> DEFINE h == Head(q)  r == Tail(q)
<1>2. <<h>> \in Seq(Nat) /\ Len(<<h>>) = 1 /\ <<h>>[1] = h
  BY <1>1
<1> HIDE DEF h, r
<1>3. h \in Nat /\ r \in Seq(Nat) /\ Len(r) = Len(q) - 1 /\ h = q[1]
      /\ \A i \in 1 .. Len(r) : r[i] = q[i + 1]
  BY <1>1 DEF h, r
<1>4. /\ <<h>> \o r \in Seq(Nat) /\ Len(<<h>> \o r) = 1 + Len(r)
      /\ \A i \in 1 .. 1 + Len(r) : (<<h>> \o r)[i] = IF i <= 1 THEN <<h>>[i] ELSE r[i - 1]
  BY <1>2, <1>3, ConcatProperties
<1>5. Len(q) \in Nat \ {0} /\ Len(<<h>> \o r) = Len(q)
  <2>1. Len(q) \in Nat \ {0}
    BY <1>1
  <2>2. Len(r) = Len(q) - 1 /\ Len(<<h>> \o r) = 1 + Len(r)
    BY <1>3, <1>4
  <2> QED BY <2>1, <2>2
<1>6. ASSUME NEW i \in 1 .. Len(q) PROVE q[i] = (<<h>> \o r)[i]
  <2>0. i \in 1 .. 1 + Len(r)
    BY <1>3, <1>5
  <2>1. CASE i = 1
    BY <1>2, <1>3, <1>4, <2>0, <2>1
  <2>2. CASE i # 1
    <3>1. ~ (i <= 1) /\ i - 1 \in 1 .. Len(r) /\ (i - 1) + 1 = i
      BY <1>3, <1>5, <2>0, <2>2
    <3>2. r[i - 1] = q[(i - 1) + 1]
      BY <1>3, <3>1
    <3> QED BY <1>4, <2>0, <3>1, <3>2
  <2> QED BY <2>1, <2>2
<1>7. q = <<h>> \o r
  BY <1>4, <1>5, <1>6, SeqEqual
<1> QED BY <1>3, <1>7 DEF h, r

\* A concatenation without its second part.
LEMMA FirstPart ==
  ASSUME NEW p \in Seq(Nat), NEW q \in Seq(Nat)
  PROVE  SubSeq(p \o q, 1, Len(p \o q) - Len(q)) = p
<1>1. Len(p) \in Nat /\ Len(q) \in Nat
  BY LenProperties
<1> DEFINE s == p \o q  r == SubSeq(s, 1, Len(p))
<1>2. /\ s \in Seq(Nat) /\ Len(s) = Len(p) + Len(q)
      /\ \A i \in 1 .. Len(p) + Len(q) : s[i] = IF i <= Len(p) THEN p[i] ELSE q[i - Len(p)]
  BY ConcatProperties
<1> HIDE DEF s
<1>3. \A i \in 1 .. Len(p) : s[i] \in Nat
  <2> TAKE i \in 1 .. Len(p)
  <2>1. i \in 1 .. Len(s)
    BY <1>1, <1>2
  <2> QED BY <1>2, <2>1, ElementOfSeq
<1>4. /\ r \in Seq(Nat) /\ Len(r) = IF 1 <= Len(p) THEN Len(p) - 1 + 1 ELSE 0
      /\ \A i \in 1 .. Len(p) - 1 + 1 : r[i] = s[1 + i - 1]
  <2>1. 1 \in Int /\ Len(p) \in Int
    BY <1>1
  <2> QED BY <1>3, <2>1, SubSeqProperties
<1> HIDE DEF r
<1>5. Len(r) = Len(p)
  BY <1>1, <1>4
<1>6. ASSUME NEW i \in 1 .. Len(p) PROVE r[i] = p[i]
  <2>1. i \in 1 .. Len(p) - 1 + 1 /\ 1 + i - 1 = i /\ i \in 1 .. Len(p) + Len(q) /\ i <= Len(p)
    BY <1>1
  <2> QED BY <1>2, <1>4, <2>1
<1>7. r = p
  BY <1>4, <1>5, <1>6, SeqEqual
<1>8. Len(s) - Len(q) = Len(p)
  BY <1>1, <1>2
<1> QED BY <1>7, <1>8 DEF r, s

\* What is there under a condition.
LEMMA WhenType == \A b \in BOOLEAN, q \in Seq(Nat) : When(b, q) \in Seq(Nat)
BY DEF When

\* Brackets do not matter.
Regroups(p, q, r) == (p \o q) \o r = p \o (q \o r)

LEMMA Assoc ==
  ASSUME NEW p \in Seq(Nat), NEW q \in Seq(Nat), NEW r \in Seq(Nat)
  PROVE  Regroups(p, q, r)
<1> DEFINE AllRegroup(S) == \A s, t, u \in Seq(S) : Regroups(s, t, u)
<1>1. \A S : AllRegroup(S)
  BY ConcatAssociative, Zenon DEF Regroups
<1> HIDE DEF AllRegroup
<1>2. AllRegroup(Nat)
  BY <1>1
<1> QED BY <1>2, Zenon DEF AllRegroup

\* Concatenation of sequences of bytes.
LEMMA SeqOfNat ==
  /\ << >> \in Seq(Nat)
  /\ \A p, q \in Seq(Nat) : p \o q \in Seq(Nat)
  /\ \A p \in Seq(Nat) : p \o << >> = p /\ << >> \o p = p
  /\ \A p, q, r \in Seq(Nat) : (p \o q) \o r = p \o (q \o r)
  /\ \A e \in Nat : <<e>> \in Seq(Nat)
<1>1. << >> \in Seq(Nat) /\ \A e \in Nat : <<e>> \in Seq(Nat)
  BY EmptySeq
<1>2. \A p, q \in Seq(Nat) : p \o q \in Seq(Nat)
  BY ConcatProperties
<1>3. \A p \in Seq(Nat) : p \o << >> = p /\ << >> \o p = p
  BY ConcatEmptySeq
<1>4. \A p, q, r \in Seq(Nat) : (p \o q) \o r = p \o (q \o r)
  BY Assoc, Zenon DEF Regroups
<1> QED BY <1>1, <1>2, <1>3, <1>4

-----------------------------------------------------------------------------
(* The bytes in the stages *)

\* The bytes in the serializer; what leaves it in a step.
Held(s) == When(s.out_valid, <<s.out_data>>) \o s.rest
Gives(s, out_ready) == s.out_valid /\ (out_ready \/ s.state = "done")
SerFits(s) == (s.state = "stream" => ~ s.in_ready) /\ (s.out_last => s.state = "done")
SerPasses(s, in_valid, word, out_ready, t) ==
  Held(t) = (IF Gives(s, out_ready) THEN Tail(Held(s)) ELSE Held(s))
              \o When(in_valid /\ s.in_ready /\ s.state # "done", word)
SerRests(s, t) ==
  /\ s.state = "done" => t.state = "idle" /\ ~ t.out_valid
  /\ s.state = "idle" /\ ~ s.out_valid => ~ t.out_valid

\* The byte on the output stands before the rest of the word.
LEMMA HeldFacts ==
  ASSUME NEW s \in SerRegs
  PROVE  /\ Held(s) \in Seq(Nat)
         /\ s.out_valid => Held(s) = <<s.out_data>> \o s.rest /\ Tail(Held(s)) = s.rest
                           /\ Held(s) # << >>
         /\ ~ s.out_valid => Held(s) = s.rest
<1>1. s.out_data \in Nat /\ s.rest \in Seq(Nat) /\ s.out_valid \in BOOLEAN
  BY DEF SerRegs
<1>2. CASE s.out_valid
  <2>1. Held(s) = <<s.out_data>> \o s.rest
    BY <1>2 DEF Held, When
  <2> QED BY <1>1, <1>2, <2>1, HeadAndTail
<1>3. CASE ~ s.out_valid
  <2>1. Held(s) = << >> \o s.rest
    BY <1>3 DEF Held, When
  <2> QED BY <1>1, <1>3, <2>1, SeqOfNat
<1> QED BY <1>1, <1>2, <1>3

\* A step of the serializer drops the first byte if it is taken or withdrawn
\* and puts the bytes of a word that is taken behind the others.
LEMMA SerCarry ==
  ASSUME NEW s \in SerRegs, SerShape(s), SerFits(s),
         NEW in_valid \in BOOLEAN, NEW word \in Seq(Nat), NEW last \in BOOLEAN,
         NEW out_ready \in BOOLEAN, NEW t \in SerRegs,
         t = SerNext(s, in_valid, word, last, out_ready)
  PROVE  SerFits(t) /\ SerPasses(s, in_valid, word, out_ready, t) /\ SerRests(s, t)
<1> DEFINE Good == SerFits(t) /\ SerPasses(s, in_valid, word, out_ready, t) /\ SerRests(s, t)
<1>1. /\ s.rest \in Seq(Nat) /\ s.out_data \in Nat /\ s.out_valid \in BOOLEAN
      /\ t.rest \in Seq(Nat) /\ t.out_data \in Nat /\ t.out_valid \in BOOLEAN
  BY DEF SerRegs
<1>2. /\ Held(s) \in Seq(Nat) /\ Held(t) \in Seq(Nat)
      /\ s.out_valid => Held(s) = <<s.out_data>> \o s.rest /\ Tail(Held(s)) = s.rest
      /\ ~ s.out_valid => Held(s) = s.rest
      /\ t.out_valid => Held(t) = <<t.out_data>> \o t.rest
      /\ ~ t.out_valid => Held(t) = t.rest
  BY HeldFacts
<1>3. s.state # "stream" => s.rest = << >>
  BY DEF SerShape
<1>4. ASSUME s.state = "idle" /\ in_valid /\ s.in_ready
      PROVE  Good
  <2>1. /\ t.state = "stream" /\ t.in_ready = FALSE /\ t.rest = word /\ t.out_data = s.out_data
        /\ t.out_valid = (s.out_valid /\ ~ out_ready)
        /\ t.out_last = (s.out_last /\ ~ (s.out_valid /\ out_ready))
    BY <1>4 DEF SerNext, SerIdle, SerTaken, SerRegs
  <2>2. SerFits(t) /\ SerRests(s, t)
    BY <1>4, <2>1 DEF SerFits, SerRests
  <2>3. When(in_valid /\ s.in_ready /\ s.state # "done", word) = word
    BY <1>4 DEF When
  <2>4. CASE s.out_valid /\ out_ready
    <3>1. Gives(s, out_ready) /\ Tail(Held(s)) = << >> /\ Held(t) = word
      BY <1>2, <1>3, <1>4, <2>1, <2>4 DEF Gives
    <3> QED BY <2>2, <2>3, <3>1, SeqOfNat DEF SerPasses
  <2>5. CASE s.out_valid /\ ~ out_ready
    <3>1. ~ Gives(s, out_ready) /\ Held(s) = <<s.out_data>> \o << >> /\ Held(t) = <<s.out_data>> \o word
      BY <1>2, <1>3, <1>4, <2>1, <2>5 DEF Gives
    <3>2. Held(s) = <<s.out_data>>
      BY <1>1, <3>1, SeqOfNat
    <3> QED BY <2>2, <2>3, <3>1, <3>2 DEF SerPasses
  <2>6. CASE ~ s.out_valid
    <3>1. ~ Gives(s, out_ready) /\ Held(s) = << >> /\ Held(t) = word
      BY <1>2, <1>3, <1>4, <2>1, <2>6 DEF Gives
    <3> QED BY <2>2, <2>3, <3>1, SeqOfNat DEF SerPasses
  <2> QED BY <2>4, <2>5, <2>6
<1>5. ASSUME s.state = "idle" /\ ~ (in_valid /\ s.in_ready)
      PROVE  Good
  <2>1. /\ t.state = "idle" /\ t.rest = s.rest /\ t.out_data = s.out_data
        /\ t.out_valid = (s.out_valid /\ ~ out_ready)
        /\ t.out_last = (s.out_last /\ ~ (s.out_valid /\ out_ready))
    BY <1>5 DEF SerNext, SerIdle, SerTaken, SerRegs
  <2>2. SerFits(t) /\ SerRests(s, t)
    BY <1>5, <2>1 DEF SerFits, SerRests
  <2>3. When(in_valid /\ s.in_ready /\ s.state # "done", word) = << >>
    BY <1>5 DEF When
  <2>4. CASE s.out_valid /\ out_ready
    <3>1. Gives(s, out_ready) /\ Tail(Held(s)) = << >> /\ Held(t) = << >>
      BY <1>2, <1>3, <1>5, <2>1, <2>4 DEF Gives
    <3> QED BY <2>2, <2>3, <3>1, SeqOfNat DEF SerPasses
  <2>5. CASE ~ (s.out_valid /\ out_ready)
    <3>1. ~ Gives(s, out_ready) /\ Held(t) = Held(s)
      BY <1>2, <1>5, <2>1, <2>5 DEF Gives
    <3>2. Held(s) \o << >> = Held(s)
      BY <1>2, SeqOfNat
    <3> QED BY <2>2, <2>3, <3>1, <3>2 DEF SerPasses
  <2> QED BY <2>4, <2>5
<1>6. ASSUME s.state = "stream" /\ s.out_valid /\ ~ out_ready
      PROVE  Good
  <2>1. t = s
    BY <1>6 DEF SerNext, SerStream
  <2>2. SerFits(t) /\ SerRests(s, t)
    BY <1>6, <2>1 DEF SerRests
  <2>3. When(in_valid /\ s.in_ready /\ s.state # "done", word) = << >>
    BY <1>6 DEF When, SerFits
  <2>4. ~ Gives(s, out_ready) /\ Held(s) \o << >> = Held(s)
    BY <1>2, <1>6, SeqOfNat DEF Gives
  <2> QED BY <2>1, <2>2, <2>3, <2>4 DEF SerPasses
<1>7. ASSUME s.state = "stream" /\ ~ (s.out_valid /\ ~ out_ready)
      PROVE  Good
  <2>1. s.rest # << >>
    BY <1>7 DEF SerShape
  <2>2. t = SerOffer(s)
    BY <1>7 DEF SerNext, SerStream
  <2>3. /\ t.state = (IF Len(s.rest) = 1 THEN (IF s.last_latch THEN "done" ELSE "idle") ELSE "stream")
        /\ t.in_ready = (Len(s.rest) = 1) /\ t.rest = Tail(s.rest)
        /\ t.out_valid = TRUE /\ t.out_data = Head(s.rest)
        /\ t.out_last = (s.last_latch /\ Len(s.rest) = 1)
    BY <2>2 DEF SerOffer, SerRegs
  <2>4. SerFits(t)
    BY <2>3 DEF SerFits
  <2>5. SerRests(s, t)
    BY <1>7 DEF SerRests
  <2>6. Held(t) = s.rest
    <3>1. Held(t) = <<Head(s.rest)>> \o Tail(s.rest)
      BY <1>2, <2>3
    <3> QED BY <1>1, <2>1, <3>1, HeadThenTail
  <2>7. When(in_valid /\ s.in_ready /\ s.state # "done", word) = << >>
    BY <1>7 DEF When, SerFits
  <2>8. s.rest \o << >> = s.rest
    BY <1>1, SeqOfNat
  <2>9. (IF Gives(s, out_ready) THEN Tail(Held(s)) ELSE Held(s)) = s.rest
    BY <1>2, <1>7 DEF Gives
  <2> QED BY <2>4, <2>5, <2>6, <2>7, <2>8, <2>9 DEF SerPasses
<1>8. ASSUME s.state = "done"
      PROVE  Good
  <2>1. /\ t.state = "idle" /\ t.rest = s.rest /\ t.out_valid = FALSE /\ t.out_last = FALSE
    BY <1>8 DEF SerNext, SerDone, SerRegs
  <2>2. SerFits(t) /\ SerRests(s, t)
    BY <2>1, <1>8 DEF SerFits, SerRests
  <2>3. When(in_valid /\ s.in_ready /\ s.state # "done", word) = << >>
    BY <1>8 DEF When
  <2>4. (IF Gives(s, out_ready) THEN Tail(Held(s)) ELSE Held(s)) = << >> /\ Held(t) = << >>
    BY <1>1, <1>2, <1>3, <1>8, <2>1 DEF Gives
  <2> QED BY <2>2, <2>3, <2>4, SeqOfNat DEF SerPasses
<1> QED BY <1>4, <1>5, <1>6, <1>7, <1>8 DEF SerRegs

\* The bytes in the assembler.
Gathered(a) == a.out_word \o a.buf
AsmPasses(a, in_valid, data, out_ready, t) ==
  When(a.out_valid /\ out_ready, a.out_word) \o Gathered(t)
    = Gathered(a) \o When(in_valid, <<data>>)

\* A step of the assembler hands its word over or keeps it, and puts the byte
\* that comes in behind the others.
LEMMA AsmCarry ==
  ASSUME NEW a \in AsmRegs, ~ a.out_valid => a.out_word = << >>,
         NEW in_valid \in BOOLEAN, NEW data \in Nat, NEW last \in BOOLEAN,
         NEW out_ready \in BOOLEAN, NEW t \in AsmRegs,
         t = AsmNext(a, in_valid, data, last, out_ready)
  PROVE  /\ ~ t.out_valid => t.out_word = << >>
         /\ ~ (a.out_valid /\ ~ out_ready /\ in_valid /\ Complete(a, last)) =>
              AsmPasses(a, in_valid, data, out_ready, t)
<1> DEFINE taken == AsmTaken(a, out_ready)
           Overwrites == a.out_valid /\ ~ out_ready /\ in_valid /\ Complete(a, last)
<1>1. a.buf \in Seq(Nat) /\ a.out_word \in Seq(Nat) /\ a.out_valid \in BOOLEAN /\ <<data>> \in Seq(Nat)
  BY SeqOfNat DEF AsmRegs
<1>2. /\ taken.buf = a.buf
      /\ taken.out_word = IF a.out_valid /\ out_ready THEN << >> ELSE a.out_word
      /\ taken.out_valid = (a.out_valid /\ ~ out_ready)
      /\ taken.out_valid \in BOOLEAN
      /\ taken \in [buf : Seq(Nat), out_valid : BOOLEAN, out_word : Seq(Nat), out_last : BOOLEAN]
  <2>1. CASE a.out_valid /\ out_ready
    <3>1. taken = [a EXCEPT !.out_valid = FALSE, !.out_word = << >>, !.out_last = FALSE]
      BY <2>1 DEF AsmTaken
    <3>2. << >> \in Seq(Nat)
      OBVIOUS
    <3> HIDE DEF taken
    <3> QED BY <2>1, <3>1, <3>2 DEF AsmRegs
  <2>2. CASE ~ (a.out_valid /\ out_ready)
    <3>1. taken = a
      BY <2>2 DEF AsmTaken
    <3> HIDE DEF taken
    <3> QED BY <2>2, <3>1 DEF AsmRegs
  <2> QED BY <2>1, <2>2
<1> HIDE DEF taken
<1>3. When(a.out_valid /\ out_ready, a.out_word) \o taken.out_word = a.out_word
  <2>1. CASE a.out_valid /\ out_ready
    BY <1>1, <1>2, <2>1, SeqOfNat DEF When
  <2>2. CASE ~ (a.out_valid /\ out_ready)
    BY <1>1, <1>2, <2>2, SeqOfNat DEF When
  <2> QED BY <2>1, <2>2
<1>4. When(a.out_valid /\ out_ready, a.out_word) \in Seq(Nat)
  BY <1>1, WhenType
<1>5. ASSUME ~ in_valid
      PROVE  (~ t.out_valid => t.out_word = << >>) /\ AsmPasses(a, in_valid, data, out_ready, t)
  <2>1. t = taken
    BY <1>5 DEF AsmNext, taken
  <2>2. When(in_valid, <<data>>) = << >>
    BY <1>5 DEF When
  <2> DEFINE h == When(a.out_valid /\ out_ready, a.out_word)
             o == taken.out_word
             b == a.buf
  <2>3. h \o (o \o b) = (h \o o) \o b
    <3>1. h \in Seq(Nat) /\ o \in Seq(Nat) /\ b \in Seq(Nat)
      BY <1>1, <1>2, <1>4
    <3> HIDE DEF h, o, b
    <3>2. Regroups(h, o, b)
      BY <3>1, Assoc
    <3> QED BY <3>2 DEF Regroups
  <2>4. h \o Gathered(t) = a.out_word \o a.buf
    BY <1>2, <1>3, <2>1, <2>3 DEF Gathered
  <2>5. Gathered(a) \o << >> = a.out_word \o a.buf
    BY <1>1, SeqOfNat DEF Gathered
  <2>6. ~ t.out_valid => t.out_word = << >>
    BY <1>1, <1>2, <2>1
  <2> QED BY <2>2, <2>4, <2>5, <2>6 DEF AsmPasses
<1>6. ASSUME in_valid /\ Complete(a, last)
      PROVE  (~ t.out_valid => t.out_word = << >>)
             /\ (~ Overwrites => AsmPasses(a, in_valid, data, out_ready, t))
  <2>1. t = [buf |-> << >>, out_valid |-> TRUE, out_word |-> Append(a.buf, data),
             out_last |-> last]
    BY <1>6 DEF AsmNext
  <2>2. t.buf = << >> /\ t.out_word = Append(a.buf, data) /\ t.out_valid = TRUE
    BY <2>1
  <2>3. ASSUME ~ Overwrites PROVE AsmPasses(a, in_valid, data, out_ready, t)
    <3>1. When(a.out_valid /\ out_ready, a.out_word) = a.out_word
      <4>1. CASE a.out_valid /\ out_ready
        BY <4>1 DEF When
      <4>2. CASE ~ a.out_valid
        BY <4>2 DEF When
      <4> QED BY <1>1, <1>6, <2>3, <4>1, <4>2
    <3>2. When(in_valid, <<data>>) = <<data>>
      BY <1>6 DEF When
    <3>3. Gathered(t) = a.buf \o <<data>>
      <4>1. Append(a.buf, data) = a.buf \o <<data>>
        BY <1>1, AppendIsConcat
      <4>2. a.buf \o <<data>> \in Seq(Nat)
        BY <1>1, SeqOfNat
      <4> QED BY <2>2, <4>1, <4>2, SeqOfNat DEF Gathered
    <3>4. a.out_word \o (a.buf \o <<data>>) = (a.out_word \o a.buf) \o <<data>>
      <4>1. <<data>> \in Seq(Nat)
        BY SeqOfNat
      <4>2. Regroups(a.out_word, a.buf, <<data>>)
        BY <1>1, <4>1, Assoc
      <4> QED BY <4>2 DEF Regroups
    <3> QED BY <3>1, <3>2, <3>3, <3>4 DEF AsmPasses, Gathered
  <2> QED BY <2>2, <2>3
<1>7. ASSUME in_valid /\ ~ Complete(a, last)
      PROVE  (~ t.out_valid => t.out_word = << >>) /\ AsmPasses(a, in_valid, data, out_ready, t)
  <2>1. t = [taken EXCEPT !.buf = Append(taken.buf, data)]
    BY <1>7 DEF AsmNext, taken
  <2>2. /\ t.buf = Append(a.buf, data) /\ t.out_word = taken.out_word /\ t.out_valid = taken.out_valid
    BY <1>2, <2>1
  <2>3. ~ t.out_valid => t.out_word = << >>
    BY <1>1, <1>2, <2>2
  <2> DEFINE h == When(a.out_valid /\ out_ready, a.out_word)
             o == taken.out_word
             b == a.buf
  <2>4. t.buf = b \o <<data>>
    BY <1>1, <2>2, AppendIsConcat
  <2>5. h \in Seq(Nat) /\ o \in Seq(Nat) /\ b \in Seq(Nat) /\ h \o o = a.out_word
    BY <1>1, <1>2, <1>3, <1>4
  <2>6. Gathered(t) = o \o (b \o <<data>>)
    BY <2>2, <2>4 DEF Gathered
  <2>7. h \o Gathered(t) = (a.out_word \o b) \o <<data>>
    <3> HIDE DEF h, o, b
    <3>1. <<data>> \in Seq(Nat) /\ b \o <<data>> \in Seq(Nat)
      BY <2>5, SeqOfNat
    <3>2. Regroups(h, o, b \o <<data>>) /\ Regroups(a.out_word, b, <<data>>)
      BY <1>1, <2>5, <3>1, Assoc
    <3> QED BY <2>5, <2>6, <3>2 DEF Regroups
  <2>8. When(in_valid, <<data>>) = <<data>>
    BY <1>7 DEF When
  <2> QED BY <2>3, <2>7, <2>8 DEF AsmPasses, Gathered
<1> QED BY <1>5, <1>6, <1>7

\* What the compressor offers and is about to offer, and the run it counts.
Offered(c) == When(c.out_valid, <<c.out_data>>)
RunLength(c) == When(c.state = "flush", <<c.run>>)
Counted(c) == When(c.state = "stream", Zeros(c.run))

\* Tokens that stand for some bytes wherever they begin.
StandFor(tokens, bytes) ==
  \/ tokens = << >> /\ bytes = << >>
  \/ \E n \in Nat \ {0} : tokens = <<n>> /\ bytes = <<n>>
  \/ \E n \in Nat : tokens = <<0, n>> /\ bytes = Zeros(n)

Decodes(tokens, more, bytes) ==
  Decoder(tokens \o more) = [bytes |-> Decoder(tokens).bytes \o bytes, mark |-> FALSE]

\* A decoder between two tokens reads such tokens as those bytes.
LEMMA StandForDecodes ==
  ASSUME NEW tokens \in Seq(Nat), ~ Decoder(tokens).mark, NEW more, NEW bytes, StandFor(more, bytes)
  PROVE  more \in Seq(Nat) /\ bytes \in Seq(Nat) /\ Decodes(tokens, more, bytes)
<1>1. Decoder(tokens) \in Readings
  BY DecoderType
<1> DEFINE d == Decoder(tokens)
<1>2. d.bytes \in Seq(Nat) /\ d.mark = FALSE /\ d = [bytes |-> d.bytes, mark |-> FALSE]
  BY <1>1 DEF Readings
<1> HIDE DEF d
<1>3. CASE more = << >> /\ bytes = << >>
  <2>1. tokens \o more = tokens /\ d.bytes \o bytes = d.bytes
    BY <1>2, <1>3, SeqOfNat
  <2> QED BY <1>2, <1>3, <2>1, SeqOfNat DEF Decodes, d
<1>4. CASE \E n \in Nat \ {0} : more = <<n>> /\ bytes = <<n>>
  <2>1. PICK n \in Nat \ {0} : more = <<n>> /\ bytes = <<n>>
    BY <1>4
  <2>2. tokens \o more = Append(tokens, n) /\ d.bytes \o bytes = Append(d.bytes, n)
    BY <1>2, <2>1, AppendIsConcat
  <2>3. Decoder(tokens \o more) = DecodeNext(d, n)
    BY <2>2, DecoderAppend DEF d
  <2>5. DecodeNext(d, n) = [bytes |-> Append(d.bytes, n), mark |-> FALSE]
    BY <1>2 DEF DecodeNext
  <2> QED BY <2>1, <2>2, <2>3, <2>5, SeqOfNat DEF Decodes, d
<1>5. CASE \E n \in Nat : more = <<0, n>> /\ bytes = Zeros(n)
  <2>1. PICK n \in Nat : more = <<0, n>> /\ bytes = Zeros(n)
    BY <1>5
  <2>2. <<0>> \in Seq(Nat) /\ <<n>> \in Seq(Nat) /\ <<0, n>> = <<0>> \o <<n>> /\ Zeros(n) \in Seq(Nat)
    <3>1. <<0, n>> = Append(<<0>>, n)
      OBVIOUS
    <3>2. <<0>> \in Seq(Nat)
      BY SeqOfNat
    <3>3. Append(<<0>>, n) = <<0>> \o <<n>>
      BY <3>2, AppendIsConcat
    <3> QED BY <3>1, <3>2, <3>3, SeqOfNat, ZerosFacts
  <2>3. tokens \o more = Append(Append(tokens, 0), n) /\ Append(tokens, 0) \in Seq(Nat)
    <3>1. tokens \o (<<0>> \o <<n>>) = (tokens \o <<0>>) \o <<n>>
      BY <2>2, SeqOfNat
    <3>2. Append(tokens, 0) = tokens \o <<0>> /\ Append(tokens, 0) \in Seq(Nat)
      BY AppendIsConcat, AppendProperties
    <3>3. Append(Append(tokens, 0), n) = Append(tokens, 0) \o <<n>>
      BY <3>2, AppendIsConcat
    <3> QED BY <2>1, <2>2, <3>1, <3>2, <3>3
  <2>4. Decoder(Append(tokens, 0)) = DecodeNext(d, 0)
    BY DecoderAppend DEF d
  <2>5. Decoder(tokens \o more) = DecodeNext(DecodeNext(d, 0), n)
    BY <2>3, <2>4, DecoderAppend
  <2>6. DecodeNext(d, 0) = [bytes |-> d.bytes, mark |-> TRUE]
    BY <1>2 DEF DecodeNext
  <2>7. DecodeNext([bytes |-> d.bytes, mark |-> TRUE], n) = [bytes |-> d.bytes \o Zeros(n), mark |-> FALSE]
    BY DEF DecodeNext
  <2>8. more \in Seq(Nat)
    BY <2>1, <2>2, SeqOfNat
  <2> QED BY <2>1, <2>2, <2>5, <2>6, <2>7, <2>8 DEF Decodes, d
<1> QED BY <1>3, <1>4, <1>5 DEF StandFor

\* A byte that is taken and kept.
CmpKeepsByte(c, in_valid, data) ==
  in_valid /\ c.in_ready /\ ~ (c.state = "stream" /\ ~ CountsOn(c, data))

\* It tells the length it was about to tell, and more for what it counted or
\* takes.
CmpPasses(c, in_valid, data, t) ==
  \E more, bytes \in Seq(Nat) :
    /\ StandFor(more, bytes)
    /\ Offered(t) \o RunLength(t) = RunLength(c) \o more
    /\ bytes \o Counted(t) = Counted(c) \o When(CmpKeepsByte(c, in_valid, data), <<data>>)

CmpCloses(c, takes, last, t) ==
  /\ t.state = "done" => (c.state = "idle" /\ takes /\ last) \/ (c.state = "flush" /\ c.pending_last)
  /\ t.state = "flush" => ~ t.in_ready
  /\ t.state = "flush" /\ t.pending_last => takes /\ last

\* A step of the compressor, unless it loses the mark of a zero: what it tells
\* and goes on counting is what it counted and the byte it takes.
LEMMA CmpCarry ==
  ASSUME NEW c \in CmpRegs,
         NEW in_valid \in BOOLEAN, NEW data \in Nat, NEW last \in BOOLEAN, NEW t \in CmpRegs,
         t = CmpNext(c, in_valid, data, last, TRUE),
         c.state = "flush" => ~ c.in_ready,
         c.state = "done" => ~ in_valid,
         ~ (c.state = "idle" /\ in_valid /\ c.in_ready /\ data = 0 /\ last)
  PROVE  /\ CmpPasses(c, in_valid, data, t)
         /\ CmpCloses(c, in_valid /\ c.in_ready, last, t)
<1> DEFINE keeps == CmpKeepsByte(c, in_valid, data)
           Ended == CmpCloses(c, in_valid /\ c.in_ready, last, t)
           Passed(more, bytes) ==
             /\ Offered(t) \o RunLength(t) = RunLength(c) \o more
             /\ bytes \o Counted(t) = Counted(c) \o When(keeps, <<data>>)
<1>1. c.run \in Nat /\ MaxRun \in Nat /\ c.run \in 0 .. MaxRun /\ t.run \in Nat
  <2>1. MaxRun \in Nat
    BY ChipTopAssumption
  <2>2. c.run \in 0 .. MaxRun /\ t.run \in 0 .. MaxRun
    BY DEF CmpRegs
  <2>3. \A k \in 0 .. MaxRun : k \in Nat
    BY <2>1
  <2> QED BY <2>1, <2>2, <2>3
<1>2. /\ Zeros(c.run) \in Seq(Nat) /\ Zeros(c.run + 1) = Zeros(c.run) \o <<0>>
      /\ Zeros(1) = <<0>> /\ Zeros(c.run + 1) \in Seq(Nat)
  <2> DEFINE none == 0
  <2>0. none \in Nat /\ none = 0 /\ none + 1 = 1
    OBVIOUS
  <2>1. Zeros(0) = << >> /\ Zeros(1) = Zeros(0) \o <<0>>
    <3> HIDE DEF none
    <3>1. Zeros(none) = << >> /\ Zeros(none + 1) = Zeros(none) \o <<0>>
      BY <2>0, ZerosFacts
    <3> QED BY <2>0, <3>1
  <2>2. << >> \o <<0>> = <<0>>
    BY SeqOfNat
  <2>3. Zeros(1) = <<0>>
    BY <2>1, <2>2
  <2>4. c.run + 1 \in Nat
    BY <1>1
  <2> QED BY <1>1, <2>3, <2>4, ZerosFacts
<1>3. << >> \in Seq(Nat) /\ <<data>> \in Seq(Nat)
  BY SeqOfNat
<1>4. StandFor(<< >>, << >>)
  BY DEF StandFor
<1>5. /\ << >> \o << >> = << >> /\ << >> \o <<data>> = <<data>> /\ <<data>> \o << >> = <<data>>
      /\ << >> \o Zeros(c.run) = Zeros(c.run) /\ Zeros(c.run) \o << >> = Zeros(c.run)
      /\ Zeros(c.run + 1) \o << >> = Zeros(c.run + 1) /\ <<c.run>> \o << >> = <<c.run>>
      /\ << >> \o Zeros(c.run + 1) = Zeros(c.run + 1)
  <2>1. <<c.run>> \in Seq(Nat)
    BY <1>1, SeqOfNat
  <2> QED BY <1>2, <1>3, <2>1, SeqOfNat
<1>6. \A n \in Nat : <<0, n>> \in Seq(Nat) /\ <<0>> \o <<n>> = <<0, n>> /\ << >> \o <<0, n>> = <<0, n>>
  <2> TAKE n \in Nat
  <2>0. <<0>> \in Seq(Nat) /\ <<n>> \in Seq(Nat)
    BY SeqOfNat
  <2>1. <<0, n>> = Append(<<0>>, n)
    OBVIOUS
  <2>2. Append(<<0>>, n) = <<0>> \o <<n>> /\ Append(<<0>>, n) \in Seq(Nat)
    BY <2>0, AppendIsConcat, AppendProperties
  <2> HIDE DEF keeps
  <2> QED BY <2>1, <2>2, SeqOfNat
\* Waiting, or at the end of a burst.
<1>7. ASSUME c.state \in {"idle", "stream"} /\ ~ (in_valid /\ c.in_ready)
      PROVE  Passed(<< >>, << >>) /\ Ended
  <2>1. t.state = c.state /\ t.run = c.run /\ t.out_valid = FALSE
    <3>1. CASE c.state = "idle"
      <4>1. t = [CmpTaken(c, TRUE) EXCEPT !.in_ready = TRUE]
        BY <1>7, <3>1 DEF CmpNext, CmpIdle
      <4> QED BY <4>1 DEF CmpTaken, CmpRegs
    <3>2. CASE c.state = "stream"
      <4>1. t = CmpTaken(c, TRUE)
        BY <1>7, <3>2 DEF CmpNext, CmpStream
      <4> QED BY <4>1 DEF CmpTaken, CmpRegs
    <3> QED BY <1>7, <3>1, <3>2
  <2>2. ~ keeps
    BY <1>7 DEF CmpKeepsByte
  <2>3. /\ Offered(t) = << >> /\ RunLength(t) = << >> /\ RunLength(c) = << >>
        /\ Counted(t) = Counted(c) /\ When(keeps, <<data>>) = << >>
        /\ Counted(c) \in {<< >>, Zeros(c.run)}
    BY <1>7, <2>1, <2>2 DEF Offered, RunLength, Counted, When
  <2>4. Ended
    BY <1>7, <2>1 DEF CmpCloses
  <2> HIDE DEF keeps
  <2> QED BY <1>5, <2>3, <2>4
<1>8. ASSUME c.state = "done"
      PROVE  Passed(<< >>, << >>) /\ Ended
  <2>1. t.state = "idle" /\ t.out_valid = FALSE
    BY <1>8 DEF CmpNext, CmpDone, CmpRegs
  <2>2. ~ keeps
    BY <1>8 DEF CmpKeepsByte
  <2>3. /\ Offered(t) = << >> /\ RunLength(t) = << >> /\ RunLength(c) = << >>
        /\ Counted(t) = << >> /\ Counted(c) = << >> /\ When(keeps, <<data>>) = << >>
    BY <1>8, <2>1, <2>2 DEF Offered, RunLength, Counted, When
  <2>4. Ended
    BY <2>1 DEF CmpCloses
  <2> HIDE DEF keeps
  <2> QED BY <1>5, <2>3, <2>4
<1>9. ASSUME c.state = "flush"
      PROVE  Passed(<< >>, << >>) /\ Ended
  <2>1. /\ t.state = (IF c.pending_last THEN "done" ELSE "idle")
        /\ t.out_valid = TRUE /\ t.out_data = c.run
    <3>1. t = [c EXCEPT !.out_valid = TRUE, !.out_data = c.run, !.out_last = c.pending_last,
                 !.run = 0, !.in_ready = TRUE,
                 !.state = IF c.pending_last THEN "done" ELSE "idle"]
      BY <1>9 DEF CmpNext, CmpFlush
    <3> QED BY <3>1 DEF CmpRegs
  <2>2. ~ keeps
    BY <1>9 DEF CmpKeepsByte
  <2>3. /\ Offered(t) = <<c.run>> /\ RunLength(t) = << >> /\ RunLength(c) = <<c.run>>
        /\ Counted(t) = << >> /\ Counted(c) = << >> /\ When(keeps, <<data>>) = << >>
    BY <1>9, <2>1, <2>2 DEF Offered, RunLength, Counted, When
  <2>4. Ended
    BY <1>9, <2>1 DEF CmpCloses
  <2> HIDE DEF keeps
  <2> QED BY <1>5, <2>3, <2>4
\* A byte passes; a run begins; a run goes on.
<1>10. ASSUME c.state = "idle" /\ in_valid /\ c.in_ready /\ data # 0
       PROVE  Passed(<<data>>, <<data>>) /\ StandFor(<<data>>, <<data>>) /\ Ended
  <2>1. /\ t.state = (IF last THEN "done" ELSE "idle")
        /\ t.out_valid = TRUE /\ t.out_data = data
    BY <1>10 DEF CmpNext, CmpIdle, CmpTaken, CmpRegs
  <2>2. keeps
    BY <1>10 DEF CmpKeepsByte
  <2>3. /\ Offered(t) = <<data>> /\ RunLength(t) = << >> /\ RunLength(c) = << >>
        /\ Counted(t) = << >> /\ Counted(c) = << >> /\ When(keeps, <<data>>) = <<data>>
    BY <1>10, <2>1, <2>2 DEF Offered, RunLength, Counted, When
  <2>4. Ended
    BY <1>10, <2>1 DEF CmpCloses
  <2>5. StandFor(<<data>>, <<data>>)
    BY <1>10 DEF StandFor
  <2> HIDE DEF keeps
  <2> QED BY <1>5, <2>3, <2>4, <2>5
<1>11. ASSUME c.state = "idle" /\ in_valid /\ c.in_ready /\ data = 0
       PROVE  Passed(<< >>, << >>) /\ Ended
  <2>0. ~ last
    BY <1>11
  <2>1. t.state = "stream" /\ t.run = 1 /\ t.out_valid = FALSE
    BY <1>11, <2>0 DEF CmpNext, CmpIdle, CmpTaken, CmpRegs
  <2>2. keeps
    BY <1>11 DEF CmpKeepsByte
  <2>3. /\ Offered(t) = << >> /\ RunLength(t) = << >> /\ RunLength(c) = << >>
        /\ Counted(t) = Zeros(1) /\ Counted(c) = << >> /\ When(keeps, <<data>>) = <<data>>
    BY <1>11, <2>1, <2>2 DEF Offered, RunLength, Counted, When
  <2>4. Ended
    BY <2>1 DEF CmpCloses
  <2> HIDE DEF keeps
  <2> QED BY <1>2, <1>5, <1>11, <2>3, <2>4
<1>12. ASSUME c.state = "stream" /\ in_valid /\ c.in_ready /\ CountsOn(c, data) /\ ~ last
       PROVE  Passed(<< >>, << >>) /\ Ended
  <2>1. t.state = "stream" /\ t.run = c.run + 1 /\ t.out_valid = FALSE
    BY <1>12 DEF CmpNext, CmpStream, CmpTaken, CmpRegs
  <2>2. keeps /\ data = 0
    BY <1>12 DEF CmpKeepsByte, CountsOn
  <2>3. /\ Offered(t) = << >> /\ RunLength(t) = << >> /\ RunLength(c) = << >>
        /\ Counted(t) = Zeros(c.run + 1) /\ Counted(c) = Zeros(c.run)
        /\ When(keeps, <<data>>) = <<0>>
    BY <1>12, <2>1, <2>2 DEF Offered, RunLength, Counted, When
  <2>4. Ended
    BY <2>1 DEF CmpCloses
  <2> HIDE DEF keeps
  <2>5. Offered(t) \o RunLength(t) = RunLength(c) \o << >>
    BY <1>5, <2>3
  <2>6. Zeros(c.run + 1) = Zeros(c.run) \o <<0>> /\ << >> \o Zeros(c.run + 1) = Zeros(c.run + 1)
    BY <1>2, <1>5
  <2>7. << >> \o Counted(t) = Counted(c) \o When(keeps, <<data>>)
    BY <2>3, <2>6, Zenon
  <2> QED BY <2>4, <2>5, <2>7
\* A run ends with the burst, or with a byte that does not count on.
<1>13. ASSUME c.state = "stream" /\ in_valid /\ c.in_ready /\ CountsOn(c, data) /\ last
       PROVE  /\ Passed(<<0, c.run + 1>>, Zeros(c.run + 1)) /\ Ended
              /\ StandFor(<<0, c.run + 1>>, Zeros(c.run + 1))
  <2>1. /\ t.state = "flush" /\ t.run = c.run + 1 /\ t.out_valid = TRUE /\ t.out_data = 0
        /\ t.in_ready = FALSE
    <3>1. t = [Marked(CmpTaken(c, TRUE)) EXCEPT !.run = @ + 1, !.pending_last = TRUE]
      BY <1>13 DEF CmpNext, CmpStream
    <3> QED BY <3>1 DEF CmpTaken, Marked, CmpRegs
  <2>2. keeps /\ data = 0 /\ c.run + 1 \in Nat
    BY <1>1, <1>13 DEF CmpKeepsByte, CountsOn
  <2>3. /\ Offered(t) = <<0>> /\ RunLength(t) = <<c.run + 1>> /\ RunLength(c) = << >>
        /\ Counted(t) = << >> /\ Counted(c) = Zeros(c.run)
        /\ When(keeps, <<data>>) = <<0>>
    BY <1>13, <2>1, <2>2 DEF Offered, RunLength, Counted, When
  <2>4. Ended
    BY <1>13, <2>1 DEF CmpCloses
  <2>5. StandFor(<<0, c.run + 1>>, Zeros(c.run + 1))
    BY <2>2 DEF StandFor
  <2> HIDE DEF keeps
  <2> QED BY <1>2, <1>5, <1>6, <2>2, <2>3, <2>4, <2>5
<1>14. ASSUME c.state = "stream" /\ in_valid /\ c.in_ready /\ ~ CountsOn(c, data)
       PROVE  /\ Passed(<<0, c.run>>, Zeros(c.run)) /\ Ended
              /\ StandFor(<<0, c.run>>, Zeros(c.run))
  <2>1. /\ t.state = "flush" /\ t.run = c.run /\ t.out_valid = TRUE /\ t.out_data = 0
        /\ t.in_ready = FALSE /\ t.pending_last = last
    BY <1>14 DEF CmpNext, CmpStream, CmpTaken, Marked, CmpRegs
  <2>2. ~ keeps
    BY <1>14 DEF CmpKeepsByte
  <2>3. /\ Offered(t) = <<0>> /\ RunLength(t) = <<c.run>> /\ RunLength(c) = << >>
        /\ Counted(t) = << >> /\ Counted(c) = Zeros(c.run)
        /\ When(keeps, <<data>>) = << >>
    BY <1>14, <2>1, <2>2 DEF Offered, RunLength, Counted, When
  <2>4. Ended
    BY <1>14, <2>1 DEF CmpCloses
  <2>5. StandFor(<<0, c.run>>, Zeros(c.run))
    BY <1>1 DEF StandFor
  <2> HIDE DEF keeps
  <2> QED BY <1>1, <1>5, <1>6, <2>3, <2>4, <2>5
<1>15. c.state \in {"idle", "stream", "flush", "done"}
  BY DEF CmpRegs
<1>16. Ended
  BY <1>7, <1>8, <1>9, <1>10, <1>11, <1>12, <1>13, <1>14, <1>15
<1>17. \E more, bytes \in Seq(Nat) : StandFor(more, bytes) /\ Passed(more, bytes)
  <2>1. \A n \in Nat : <<0, n>> \in Seq(Nat)
    BY <1>6
  <2>2. c.run + 1 \in Nat
    BY <1>1
  <2>3. <<0, c.run>> \in Seq(Nat) /\ <<0, c.run + 1>> \in Seq(Nat)
    BY <1>1, <2>1, <2>2
  <2> HIDE DEF Passed
  <2> QED BY <1>2, <1>3, <1>4, <1>7, <1>8, <1>9, <1>10, <1>11, <1>12, <1>13, <1>14, <1>15, <2>3
<1> QED BY <1>16, <1>17 DEF CmpPasses

-----------------------------------------------------------------------------
(* The bytes in the chip *)

\* Nothing is added by nothing.
LEMMA NoneIsNeutral ==
  ASSUME NEW p \in Seq(Nat)
  PROVE  p \o << >> = p /\ << >> \o p = p
BY ConcatEmptySeq

\* Tokens, grouped by the stages they are in.
LEMMA TokensByStage ==
  ASSUME NEW r \in Seq(Nat), NEW a \in AsmRegs, NEW c \in CmpRegs
  PROVE  /\ r \o a.out_word \o a.buf \o When(c.out_valid, <<c.out_data>>)
              \o When(c.state = "flush", <<c.run>>)
              = r \o (Gathered(a) \o (Offered(c) \o RunLength(c)))
         /\ Gathered(a) \in Seq(Nat) /\ Offered(c) \in Seq(Nat) /\ RunLength(c) \in Seq(Nat)
         /\ r \o (Gathered(a) \o (Offered(c) \o RunLength(c))) \in Seq(Nat)
<1> DEFINE o == a.out_word  b == a.buf  f == Offered(c)  l == RunLength(c)
<1>1. c.run \in Nat
  <2>1. c.run \in 0 .. MaxRun /\ MaxRun \in Nat
    BY ChipTopAssumption DEF CmpRegs
  <2> QED BY <2>1
<1>2. o \in Seq(Nat) /\ b \in Seq(Nat) /\ f \in Seq(Nat) /\ l \in Seq(Nat)
  <2>1. c.out_data \in Nat /\ c.out_valid \in BOOLEAN /\ (c.state = "flush") \in BOOLEAN
    BY DEF CmpRegs
  <2>2. <<c.out_data>> \in Seq(Nat) /\ <<c.run>> \in Seq(Nat)
    BY <1>1, <2>1, SeqOfNat
  <2> QED BY <2>1, <2>2, WhenType DEF AsmRegs, Offered, RunLength
<1>3. /\ f = When(c.out_valid, <<c.out_data>>) /\ l = When(c.state = "flush", <<c.run>>)
      /\ Gathered(a) = o \o b
  BY DEF Offered, RunLength, Gathered
<1> HIDE DEF o, b, f, l
<1>4. r \o o \o b \o f \o l = r \o ((o \o b) \o (f \o l))
  <2>1. o \o b \in Seq(Nat) /\ f \o l \in Seq(Nat) /\ r \o (o \o b) \in Seq(Nat)
    BY <1>2, SeqOfNat
  <2>2. Regroups(r, o, b)
    BY <1>2, Assoc
  <2>3. Regroups(r \o (o \o b), f, l)
    BY <1>2, <2>1, Assoc
  <2>4. Regroups(r, o \o b, f \o l)
    BY <2>1, Assoc
  <2> QED BY <2>2, <2>3, <2>4 DEF Regroups
<1>5. o \o b \in Seq(Nat) /\ f \o l \in Seq(Nat)
  BY <1>2, SeqOfNat
<1>6. (o \o b) \o (f \o l) \in Seq(Nat)
  BY <1>5, SeqOfNat
<1>7. r \o ((o \o b) \o (f \o l)) \in Seq(Nat)
  BY <1>6, SeqOfNat
<1> QED BY <1>2, <1>3, <1>4, <1>5, <1>7 DEF o, b, f, l

\* The tokens after a step are those before it and those the compressor
\* tells of besides.
Same(p, q, r, s) == p \o q = r \o s
Grows(r, k, g, g2, o, l, more) ==
  (r \o k) \o (g2 \o (l \o more)) = (r \o (g \o (o \o l))) \o more

LEMMA TokensGrow ==
  ASSUME NEW r \in Seq(Nat), NEW k \in Seq(Nat), NEW g \in Seq(Nat), NEW g2 \in Seq(Nat),
         NEW o \in Seq(Nat), NEW l \in Seq(Nat), NEW more \in Seq(Nat), Same(k, g2, g, o)
  PROVE  Grows(r, k, g, g2, o, l, more)
<1> DEFINE x == l \o more
<1>0. x = l \o more /\ k \o g2 = g \o o
  BY DEF Same
<1>1. /\ x \in Seq(Nat) /\ g2 \o x \in Seq(Nat) /\ o \o l \in Seq(Nat) /\ g \o (o \o l) \in Seq(Nat)
  <2>1. x \in Seq(Nat) /\ o \o l \in Seq(Nat)
    BY SeqOfNat
  <2> HIDE DEF x
  <2> QED BY <2>1, SeqOfNat
<1> HIDE DEF x
<1>2. /\ Regroups(r, k, g2 \o x) /\ Regroups(k, g2, x) /\ Regroups(g, o, x)
      /\ Regroups(o, l, more) /\ Regroups(g, o \o l, more) /\ Regroups(r, g \o (o \o l), more)
  <2>1. Regroups(r, k, g2 \o x) /\ Regroups(k, g2, x) /\ Regroups(g, o, x) /\ Regroups(o, l, more)
    BY <1>1, Assoc
  <2>2. Regroups(g, o \o l, more) /\ Regroups(r, g \o (o \o l), more)
    BY <1>1, Assoc
  <2> QED BY <2>1, <2>2
<1>3. (r \o k) \o (g2 \o x) = r \o (g \o (o \o x))
  <2>1. (r \o k) \o (g2 \o x) = r \o ((k \o g2) \o x)
    BY <1>2 DEF Regroups
  <2>2. (k \o g2) \o x = g \o (o \o x)
    BY <1>0, <1>2 DEF Regroups
  <2> QED BY <2>1, <2>2
<1>4. g \o (o \o x) = (g \o (o \o l)) \o more
  <2>1. o \o x = (o \o l) \o more
    BY <1>0, <1>2 DEF Regroups
  <2> QED BY <1>2, <2>1 DEF Regroups
<1>5. r \o ((g \o (o \o l)) \o more) = (r \o (g \o (o \o l))) \o more
  BY <1>2 DEF Regroups
<1> QED BY <1>3, <1>4, <1>5 DEF Grows, x

\* What is due after a step: d and r are the bytes decoded and counted, h those
\* in the serializer, p the byte that is passed on, s what comes in.
DueGoesOn(due1, keeps, gives, h, s) ==
  (IF gives /\ ~ keeps THEN SubSeq(due1, 1, Len(due1) - Len(h)) \o Tail(h) ELSE due1) \o s

StillDue(d, r, r2, x, h, s, keeps, gives) ==
  DueGoesOn(d \o r \o h, keeps, gives, h, s)
    = (d \o x) \o r2 \o ((IF gives THEN Tail(h) ELSE h) \o s)

Carried(d, r, r2, x, h, s, e, keeps, gives) ==
  /\ d \in Seq(Nat) /\ r \in Seq(Nat) /\ r2 \in Seq(Nat) /\ x \in Seq(Nat)
  /\ h \in Seq(Nat) /\ s \in Seq(Nat) /\ e \in Nat
  /\ keeps \in BOOLEAN /\ gives \in BOOLEAN /\ (keeps => gives)
  /\ gives => h # << >> /\ h = <<e>> \o Tail(h)
  /\ x \o r2 = r \o When(keeps, <<e>>)

\* What was decoded, counted and held in the serializer stays due.
LEMMA DueStaysDue ==
  ASSUME NEW d, NEW r, NEW r2, NEW x, NEW h, NEW s, NEW e, NEW keeps, NEW gives,
         Carried(d, r, r2, x, h, s, e, keeps, gives)
  PROVE  StillDue(d, r, r2, x, h, s, keeps, gives)
<1>0. /\ d \in Seq(Nat) /\ r \in Seq(Nat) /\ r2 \in Seq(Nat) /\ x \in Seq(Nat)
      /\ h \in Seq(Nat) /\ s \in Seq(Nat) /\ e \in Nat
      /\ keeps \in BOOLEAN /\ gives \in BOOLEAN /\ (keeps => gives)
      /\ gives => h # << >> /\ h = <<e>> \o Tail(h)
      /\ x \o r2 = r \o When(keeps, <<e>>)
  BY DEF Carried
<1> DEFINE b == d \o r  p == When(keeps, <<e>>)
<1>1. b \in Seq(Nat) /\ p \in Seq(Nat) /\ <<e>> \in Seq(Nat)
  BY <1>0, SeqOfNat, WhenType
<1>2. (d \o x) \o r2 = b \o p
  <2>1. Regroups(d, x, r2)
    BY <1>0, Assoc
  <2>2. Regroups(d, r, p)
    <3> HIDE DEF p
    <3> QED BY <1>0, <1>1, Assoc
  <2> QED BY <1>0, <2>1, <2>2 DEF Regroups
<1>3. gives => Tail(h) \in Seq(Nat)
  BY <1>0, HeadTailProperties
<1>4. keeps => p = <<e>>
  BY DEF When
<1>5. ~ keeps => p = << >>
  BY DEF When
<1> HIDE DEF b, p
<1>6. CASE keeps
  <2> DEFINE t == Tail(h)
  <2>1. t \in Seq(Nat) /\ h = <<e>> \o t /\ p = <<e>> /\ gives
    BY <1>0, <1>3, <1>4, <1>6
  <2> HIDE DEF t
  <2>2. b \o (<<e>> \o t) = (b \o <<e>>) \o t /\ b \o <<e>> \in Seq(Nat)
    <3>1. Regroups(b, <<e>>, t)
      BY <1>0, <1>1, <2>1, Assoc
    <3>2. b \o <<e>> \in Seq(Nat)
      BY <1>1, SeqOfNat
    <3> QED BY <3>1, <3>2 DEF Regroups
  <2>3. ((b \o <<e>>) \o t) \o s = (b \o <<e>>) \o (t \o s)
    <3>1. Regroups(b \o <<e>>, t, s)
      BY <1>0, <2>1, <2>2, Assoc
    <3> QED BY <3>1 DEF Regroups
  <2>4. DueGoesOn(b \o h, keeps, gives, h, s) = (b \o h) \o s
    BY <1>6 DEF DueGoesOn
  <2>5. (b \o h) \o s = (b \o p) \o (t \o s)
    BY <2>1, <2>2, <2>3
  <2>6. (IF gives THEN Tail(h) ELSE h) = t
    BY <2>1 DEF t
  <2> QED BY <1>2, <2>4, <2>5, <2>6 DEF b, StillDue
<1>7. CASE ~ keeps /\ gives
  <2> DEFINE t == Tail(h)
  <2>1. t \in Seq(Nat) /\ p = << >>
    BY <1>3, <1>5, <1>7
  <2>2. SubSeq(b \o h, 1, Len(b \o h) - Len(h)) = b
    BY <1>0, <1>1, FirstPart
  <2>3. DueGoesOn(b \o h, keeps, gives, h, s) = (b \o t) \o s
    BY <1>7, <2>2 DEF DueGoesOn
  <2> HIDE DEF t
  <2>4. (b \o t) \o s = b \o (t \o s) /\ b \o p = b
    <3>1. Regroups(b, t, s)
      BY <1>0, <1>1, <2>1, Assoc
    <3>2. b \o << >> = b
      BY <1>1, NoneIsNeutral
    <3> QED BY <2>1, <3>1, <3>2 DEF Regroups
  <2>5. (IF gives THEN Tail(h) ELSE h) = t
    BY <1>7 DEF t
  <2> QED BY <1>2, <2>3, <2>4, <2>5 DEF b, StillDue
<1>8. CASE ~ gives
  <2>1. ~ keeps /\ p = << >>
    BY <1>0, <1>5, <1>8
  <2>2. DueGoesOn(b \o h, keeps, gives, h, s) = (b \o h) \o s
    BY <1>8 DEF DueGoesOn
  <2>3. (b \o h) \o s = b \o (h \o s) /\ b \o p = b
    <3>1. Regroups(b, h, s)
      BY <1>0, <1>1, <2>1, Assoc
    <3>2. b \o << >> = b
      BY <1>1, NoneIsNeutral
    <3> QED BY <2>1, <3>1, <3>2 DEF Regroups
  <2> QED BY <1>2, <1>8, <2>2, <2>3 DEF b, StillDue
<1> QED BY <1>6, <1>7, <1>8

\* What the host offers.
LEMMA OfferFacts ==
  ASSUME NEW w \in Offers
  PROVE  w.valid \in BOOLEAN /\ w.bytes \in Seq(Nat) /\ w.last \in BOOLEAN
<1>1. CASE w = NoWord
  <2>1. << >> \in Seq(Nat)
    BY SeqOfNat
  <2> QED BY <1>1, <2>1 DEF NoWord
<1>2. CASE w \in [valid : {TRUE}, bytes : Words, last : BOOLEAN]
  BY <1>2, ChipTopAssumption
<1> QED BY <1>1, <1>2 DEF Offers

\* The state of the chip that the stages' lemmas speak of.
LEMMA StreamFacts ==
  ASSUME IInv, StreamInv
  PROVE  /\ ser \in SerRegs /\ cmp \in CmpRegs /\ asm \in AsmRegs
         /\ SerShape(ser) /\ SerFits(ser)
         /\ ser.out_valid \in BOOLEAN /\ ser.out_data \in Nat /\ ser.out_last \in BOOLEAN
         /\ ser.state \in {"idle", "stream", "done"}
         /\ cmp.in_ready \in BOOLEAN /\ cmp.out_valid \in BOOLEAN /\ cmp.out_data \in Nat
         /\ cmp.out_last \in BOOLEAN /\ asm.out_valid \in BOOLEAN /\ ctl.wready \in BOOLEAN
         /\ ctl \in CtlRegs
<1>1. /\ ser \in SerRegs /\ cmp \in CmpRegs /\ asm \in AsmRegs /\ ctl \in CtlRegs /\ SerShape(ser)
  BY DEF IInv, Registers
<1>2. SerFits(ser)
  BY DEF StreamInv, SerFits
<1> QED BY <1>1, <1>2 DEF SerRegs, CmpRegs, AsmRegs, CtlRegs

\* The serializer and the assembler in a clock edge.
LEMMA StreamTick ==
  ASSUME IInv, StreamInv, NEW w \in Offers, NEW go \in BOOLEAN, Tick(w, go)
  PROVE  /\ ser' \in SerRegs /\ cmp' \in CmpRegs /\ asm' \in AsmRegs
         /\ SerFits(ser') /\ SerPasses(ser, w.valid, w.bytes, cmp.in_ready, ser')
         /\ SerRests(ser, ser')
         /\ ~ asm'.out_valid => asm'.out_word = << >>
         /\ ~ WordOverwritten => AsmPasses(asm, cmp.out_valid, cmp.out_data, ctl.wready, asm')
<1>1. /\ ser' = SerNext(ser, w.valid, w.bytes, w.last, cmp.in_ready)
      /\ asm' = AsmNext(asm, cmp.out_valid, cmp.out_data, cmp.out_last, ctl.wready)
  BY DEF Tick, WritePath
<1>2. ser' \in SerRegs /\ cmp' \in CmpRegs /\ asm' \in AsmRegs
  BY TickFacts
<1>3. w.valid \in BOOLEAN /\ w.bytes \in Seq(Nat) /\ w.last \in BOOLEAN
  BY OfferFacts
<1>4. SerFits(ser') /\ SerPasses(ser, w.valid, w.bytes, cmp.in_ready, ser') /\ SerRests(ser, ser')
  BY <1>1, <1>2, <1>3, StreamFacts, SerCarry
<1>5. ~ asm.out_valid => asm.out_word = << >>
  BY DEF StreamInv
<1>6. /\ ~ asm'.out_valid => asm'.out_word = << >>
      /\ ~ (asm.out_valid /\ ~ ctl.wready /\ cmp.out_valid /\ Complete(asm, cmp.out_last)) =>
           AsmPasses(asm, cmp.out_valid, cmp.out_data, ctl.wready, asm')
  BY <1>1, <1>2, <1>5, StreamFacts, AsmCarry
<1> QED BY <1>2, <1>4, <1>6 DEF WordOverwritten

\* The compressor, while the stream is not garbled.
LEMMA CompressorTick ==
  ASSUME IInv, StreamInv, NEW w \in Offers, NEW go \in BOOLEAN, Tick(w, go), ~ garbled, ~ RunNotMarked
  PROVE  /\ CmpPasses(cmp, ser.out_valid, ser.out_data, cmp')
         /\ CmpCloses(cmp, ser.out_valid /\ cmp.in_ready, ser.out_last, cmp')
<1>1. cmp' = CmpNext(cmp, ser.out_valid, ser.out_data, ser.out_last, TRUE)
  BY DEF Tick, WritePath
<1>2. cmp' \in CmpRegs
  BY TickFacts
<1>3. /\ cmp.state = "flush" => ~ cmp.in_ready
      /\ cmp.state = "done" => ~ ser.out_valid
  BY DEF StreamInv, InStep
<1>4. ~ (cmp.state = "idle" /\ ser.out_valid /\ cmp.in_ready /\ ser.out_data = 0 /\ ser.out_last)
  BY DEF RunNotMarked
<1>5. /\ cmp \in CmpRegs
      /\ ser.out_valid \in BOOLEAN /\ ser.out_data \in Nat /\ ser.out_last \in BOOLEAN
  BY StreamFacts
<1> QED BY <1>1, <1>2, <1>3, <1>4, <1>5, CmpCarry

LEMMA StreamKeeps ==
  ASSUME IInv, StreamInv, NEW w \in Offers, NEW go \in BOOLEAN, Tick(w, go), IInv'
  PROVE  StreamInv'
<1>1. /\ received' = received \o When(asm.out_valid /\ ctl.wready, asm.out_word)
      /\ due' = (IF LastWithdrawn \/ EndOfRunDropped THEN DueWithoutNext ELSE due)
                   \o When((w.valid /\ ser.in_ready) /\ ~ WordIgnored(w), w.bytes)
      /\ garbled' = (garbled \/ RunNotMarked \/ WordOverwritten)
  BY DEF Tick, Histories
<1>2. w.valid \in BOOLEAN /\ w.bytes \in Seq(Nat) /\ w.last \in BOOLEAN
  BY OfferFacts
<1>3. /\ ser.in_ready \in BOOLEAN /\ asm.out_word \in Seq(Nat)
      /\ received \in Seq(Nat) /\ due \in Seq(Nat)
  BY StreamFacts DEF StreamInv, SerRegs, AsmRegs
<1> DEFINE sent == When(w.valid /\ ser.in_ready /\ ser.state # "done", w.bytes)
           word == When(asm.out_valid /\ ctl.wready, asm.out_word)
           keeps == CmpKeepsByte(cmp, ser.out_valid, ser.out_data)
           gives == Gives(ser, cmp.in_ready)
<1>4. /\ keeps \in BOOLEAN /\ gives \in BOOLEAN /\ (keeps => gives)
      /\ sent \in Seq(Nat) /\ word \in Seq(Nat)
  <2>1. (w.valid /\ ser.in_ready /\ ser.state # "done") \in BOOLEAN /\ (asm.out_valid /\ ctl.wready) \in BOOLEAN
    OBVIOUS
  <2>2. sent \in Seq(Nat) /\ word \in Seq(Nat)
    BY <1>2, <1>3, <2>1, WhenType
  <2> HIDE DEF sent, word
  <2>3. keeps \in BOOLEAN /\ gives \in BOOLEAN /\ (keeps => gives)
    BY DEF CmpKeepsByte, Gives
  <2> QED BY <2>2, <2>3
<1>5. received' \in Seq(Nat)
  <2> HIDE DEF word
  <2>1. received' = received \o word
    BY <1>1 DEF word
  <2> QED BY <1>3, <1>4, <2>1, SeqOfNat
<1>6. Held(ser) \in Seq(Nat) /\ (gives => Held(ser) # << >> /\ Held(ser) = <<ser.out_data>> \o Tail(Held(ser)))
  <2>1. /\ Held(ser) \in Seq(Nat)
        /\ ser.out_valid => Held(ser) = <<ser.out_data>> \o ser.rest /\ Tail(Held(ser)) = ser.rest
                            /\ Held(ser) # << >>
    BY StreamFacts, HeldFacts
  <2>2. gives => ser.out_valid
    BY DEF Gives
  <2> QED BY <2>1, <2>2
<1>7. due' = DueGoesOn(due, keeps, gives, Held(ser), sent)
  <2>1. (LastWithdrawn \/ EndOfRunDropped) <=> (gives /\ ~ keeps)
    BY StreamFacts DEF LastWithdrawn, EndOfRunDropped, Gives, CmpKeepsByte
  <2>2. When((w.valid /\ ser.in_ready) /\ ~ WordIgnored(w), w.bytes) = sent
    BY DEF WordIgnored, When
  <2>3. DueWithoutNext = SubSeq(due, 1, Len(due) - Len(Held(ser))) \o Tail(Held(ser))
    BY DEF DueWithoutNext, InSerializer, Held
  <2> HIDE DEF sent, keeps, gives
  <2> QED BY <1>1, <2>1, <2>2, <2>3 DEF DueGoesOn
<1>8. due' \in Seq(Nat)
  <2> DEFINE h == Held(ser)  rest == SubSeq(due, 1, Len(due) - Len(h)) \o Tail(h)
  <2>1. CASE gives /\ ~ keeps
    <3>1. Tail(h) \in Seq(Nat)
      BY <1>6, <2>1, HeadTailProperties
    <3>2. SubSeq(due, 1, Len(due) - Len(h)) \in Seq(Nat)
      <4>1. Len(due) \in Nat /\ Len(h) \in Nat
        BY <1>3, <1>6, LenProperties
      <4> DEFINE n == Len(due) - Len(h)
      <4>2. n \in Int /\ n <= Len(due)
        BY <4>1
      <4>3. \A i \in 1 .. n : due[i] \in Nat
        <5> TAKE i \in 1 .. n
        <5>1. i \in 1 .. Len(due)
          BY <4>1, <4>2
        <5> QED BY <1>3, <5>1, ElementOfSeq
      <4> HIDE DEF n
      <4>4. 1 \in Int
        OBVIOUS
      <4>5. SubSeq(due, 1, n) \in Seq(Nat)
        BY <4>2, <4>3, <4>4, SubSeqProperties
      <4> QED BY <4>5 DEF n
    <3>3. rest \in Seq(Nat)
      <4> HIDE DEF h
      <4> QED BY <3>1, <3>2, SeqOfNat
    <3> HIDE DEF rest, sent, keeps, gives
    <3>4. due' = rest \o sent
      BY <1>7, <2>1 DEF DueGoesOn, rest, h
    <3> QED BY <1>4, <3>3, <3>4, SeqOfNat
  <2>2. CASE ~ (gives /\ ~ keeps)
    <3> HIDE DEF sent, keeps, gives
    <3>1. due' = due \o sent
      BY <1>7, <2>2 DEF DueGoesOn
    <3> QED BY <1>3, <1>4, <3>1, SeqOfNat
  <2> QED BY <2>1, <2>2
<1>9. /\ ser'.state = "stream" => ~ ser'.in_ready
      /\ ser'.out_last => ser'.state = "done"
      /\ ~ asm'.out_valid => asm'.out_word = << >>
  BY StreamTick DEF SerFits
<1>10. ASSUME ~ garbled'
       PROVE  InStep' /\ OnlyKnownLosses'
  <2>1. ~ garbled /\ ~ RunNotMarked /\ ~ WordOverwritten
    BY <1>1, <1>10
  <2>2. InStep /\ due = Decoded(Tokens) \o Counted(cmp) \o Held(ser)
    <3>1. InStep /\ OnlyKnownLosses
      BY <2>1 DEF StreamInv
    <3>2. due = Decoded(Tokens) \o When(cmp.state = "stream", Zeros(cmp.run)) \o InSerializer
      BY <2>1, <3>1 DEF OnlyKnownLosses
    <3> QED BY <3>1, <3>2 DEF Counted, Held, InSerializer
  <2>3. CmpPasses(cmp, ser.out_valid, ser.out_data, cmp')
    BY <2>1, CompressorTick
  <2>4. PICK more, bytes \in Seq(Nat) :
          /\ StandFor(more, bytes)
          /\ Offered(cmp') \o RunLength(cmp') = RunLength(cmp) \o more
          /\ bytes \o Counted(cmp') = Counted(cmp) \o When(keeps, <<ser.out_data>>)
    BY <2>3 DEF CmpPasses
  <2>5. Tokens \in Seq(Nat) /\ Tokens' = Tokens \o more
    <3>1. /\ Tokens = received \o (Gathered(asm) \o (Offered(cmp) \o RunLength(cmp)))
          /\ Tokens \in Seq(Nat)
          /\ Gathered(asm) \in Seq(Nat) /\ Offered(cmp) \in Seq(Nat) /\ RunLength(cmp) \in Seq(Nat)
      BY <1>3, StreamFacts, TokensByStage DEF Tokens
    <3>2. /\ Tokens' = received' \o (Gathered(asm') \o (Offered(cmp') \o RunLength(cmp')))
          /\ Gathered(asm') \in Seq(Nat)
      BY <1>5, StreamTick, TokensByStage DEF Tokens
    <3>3. word \o Gathered(asm') = Gathered(asm) \o Offered(cmp)
      BY <2>1, StreamTick DEF AsmPasses, Offered
    <3>4. received' = received \o word
      BY <1>1
    <3> HIDE DEF word
    <3> DEFINE g == Gathered(asm)  g2 == Gathered(asm')  o == Offered(cmp)  l == RunLength(cmp)
    <3>5. /\ g \in Seq(Nat) /\ g2 \in Seq(Nat) /\ o \in Seq(Nat) /\ l \in Seq(Nat)
          /\ Same(word, g2, g, o)
          /\ received \in Seq(Nat) /\ word \in Seq(Nat) /\ more \in Seq(Nat)
      BY <1>3, <1>4, <3>1, <3>2, <3>3 DEF Same
    <3>6. /\ Tokens = received \o (g \o (o \o l))
          /\ Tokens' = (received \o word) \o (g2 \o (l \o more))
      BY <2>4, <3>1, <3>2, <3>4
    <3> HIDE DEF g, g2, o, l, word
    <3>7. Grows(received, word, g, g2, o, l, more)
      BY <3>5, TokensGrow
    <3> QED BY <3>1, <3>6, <3>7 DEF Grows
  <2>6. Decoded(Tokens) \in Seq(Nat) /\ Decoded(Tokens)' = Decoded(Tokens) \o bytes
        /\ ~ (Decoder(Tokens).mark)'
    <3>1. ~ Decoder(Tokens).mark
      BY <2>2 DEF InStep
    <3>2. Decodes(Tokens, more, bytes)
      BY <2>4, <2>5, <3>1, StandForDecodes
    <3>3. Decoder(Tokens') = [bytes |-> Decoder(Tokens).bytes \o bytes, mark |-> FALSE]
      BY <2>5, <3>2 DEF Decodes
    <3>4. Decoder(Tokens) \in Readings
      BY <2>5, DecoderType
    <3>5. Decoder(Tokens)' = Decoder(Tokens')
      OBVIOUS
    <3> QED BY <3>3, <3>4, <3>5 DEF Decoded, Readings
  <2>7. Counted(cmp) \in Seq(Nat) /\ Counted(cmp') \in Seq(Nat)
    <3>1. ASSUME NEW c \in CmpRegs PROVE Counted(c) \in Seq(Nat)
      <4>1. c.run \in 0 .. MaxRun /\ MaxRun \in Nat /\ (c.state = "stream") \in BOOLEAN
        BY ChipTopAssumption DEF CmpRegs
      <4>2. c.run \in Nat
        BY <4>1
      <4>3. Zeros(c.run) \in Seq(Nat)
        BY <4>2, ZerosFacts
      <4> QED BY <4>1, <4>3, WhenType DEF Counted
    <3> QED BY <3>1, StreamFacts, StreamTick
  <2>8. Held(ser') = (IF gives THEN Tail(Held(ser)) ELSE Held(ser)) \o sent
    BY StreamTick DEF SerPasses
  <2>9. due' = Decoded(Tokens)' \o Counted(cmp') \o Held(ser')
    <3> DEFINE d == Decoded(Tokens)  r == Counted(cmp)  r2 == Counted(cmp')  h == Held(ser)
               e == ser.out_data
    <3>1. Carried(d, r, r2, bytes, h, sent, e, keeps, gives)
      BY <1>4, <1>6, <2>4, <2>6, <2>7, StreamFacts DEF Carried
    <3>2. /\ due' = DueGoesOn(d \o r \o h, keeps, gives, h, sent)
          /\ Decoded(Tokens)' \o Counted(cmp') \o Held(ser')
               = (d \o bytes) \o r2 \o ((IF gives THEN Tail(h) ELSE h) \o sent)
      BY <1>7, <2>2, <2>6, <2>8
    <3> HIDE DEF d, r, r2, h, e, keeps, gives, sent
    <3>3. StillDue(d, r, r2, bytes, h, sent, keeps, gives)
      BY <3>1, DueStaysDue
    <3> QED BY <3>2, <3>3 DEF StillDue
  <2>10. OnlyKnownLosses'
    <3>1. TypeOK'
      BY DEF IInv
    <3>2. Counted(cmp') = When(cmp'.state = "stream", Zeros(cmp'.run)) /\ Held(ser') = InSerializer'
      BY DEF Counted, Held, InSerializer
    <3> QED BY <2>9, <3>1, <3>2 DEF OnlyKnownLosses
  <2>11. InStep'
    <3>1. CmpCloses(cmp, ser.out_valid /\ cmp.in_ready, ser.out_last, cmp')
      BY <2>1, CompressorTick
    <3>2. SerRests(ser, ser') /\ SerFits(ser) /\ SerFits(ser')
      BY StreamTick, StreamFacts
    <3>3. /\ ser.out_last => ser'.state = "idle" /\ ~ ser'.out_valid
          /\ ser.state = "idle" /\ ~ ser.out_valid => ~ ser'.out_valid
      BY <3>2 DEF SerRests, SerFits
    <3>4. /\ cmp.state = "flush" /\ cmp.pending_last => ser.state = "idle" /\ ~ ser.out_valid
      BY <2>2 DEF InStep
    <3>5. /\ cmp'.state = "done" => ~ ser'.out_valid
          /\ cmp'.state = "flush" => ~ cmp'.in_ready
          /\ cmp'.state = "flush" /\ cmp'.pending_last => ser'.state = "idle" /\ ~ ser'.out_valid
      BY <3>1, <3>3, <3>4 DEF CmpCloses
    <3> QED BY <2>6, <3>5 DEF InStep
  <2> QED BY <2>10, <2>11
<1> QED BY <1>5, <1>8, <1>9, <1>10 DEF StreamInv

\* After a reset nothing is due and nothing is under way.
AtReset == ser = SerReset /\ cmp = CmpReset /\ asm = AsmReset /\ due = << >> /\ received = << >>

\* Nothing is lost of nothing.
LEMMA StreamStarts == IInv /\ AtReset => StreamInv
<1> SUFFICES ASSUME IInv, AtReset PROVE StreamInv
  OBVIOUS
<1>1. /\ ser.state = "idle" /\ ser.out_valid = FALSE /\ ser.out_last = FALSE /\ ser.rest = << >>
      /\ cmp.state = "idle" /\ cmp.out_valid = FALSE
      /\ asm.out_valid = FALSE /\ asm.out_word = << >> /\ asm.buf = << >>
      /\ due = << >> /\ received = << >>
  BY DEF AtReset, SerReset, CmpReset, AsmReset
<1>2. << >> \in Seq(Nat) /\ << >> \o << >> = << >>
  BY SeqOfNat
<1>3. Tokens = << >>
  <2>1. When(cmp.out_valid, <<cmp.out_data>>) = << >> /\ When(cmp.state = "flush", <<cmp.run>>) = << >>
    BY <1>1 DEF When
  <2> QED BY <1>1, <1>2, <2>1 DEF Tokens
<1>4. ~ Decoder(Tokens).mark /\ Decoded(Tokens) = << >>
  BY <1>3, DecoderStart DEF NothingRead, Decoded
<1>5. InSerializer = << >> /\ When(cmp.state = "stream", Zeros(cmp.run)) = << >>
  BY <1>1, <1>2 DEF InSerializer, When
<1>6. OnlyKnownLosses
  BY <1>1, <1>2, <1>4, <1>5 DEF OnlyKnownLosses, IInv
<1>7. InStep
  BY <1>1, <1>4 DEF InStep
<1> QED BY <1>1, <1>2, <1>6, <1>7 DEF StreamInv

\* As long as no word was replaced in the assembler and no zero that ends a
\* burst lost its mark, what the stream decodes to is what the host sent, in
\* order, without the words ignored, the last bytes withdrawn and the bytes
\* that ended a run; for every length of words, runs and bursts.  Once the
\* stream is garbled nothing is said of it.
THEOREM NothingElseLost == Spec => []OnlyKnownLosses
<1>1. Init => StreamInv
  <2> SUFFICES ASSUME Init PROVE StreamInv
    OBVIOUS
  <2>1. IInv
    BY InitHolds
  <2>2. AtReset
    BY DEF Init, AtReset
  <2> QED BY <2>1, <2>2, StreamStarts
<1>2. IInv /\ IInv' /\ StreamInv /\ [Next]_vars => StreamInv'
  <2> SUFFICES ASSUME IInv, IInv', StreamInv, [Next]_vars PROVE StreamInv'
    OBVIOUS
  <2>1. CASE UNCHANGED vars
    <3>1. /\ ser' = ser /\ cmp' = cmp /\ asm' = asm /\ ctl' = ctl
          /\ words' = words /\ due' = due /\ received' = received /\ garbled' = garbled
      BY <2>1 DEF vars, stages
    <3>2. Tokens' = Tokens /\ InSerializer' = InSerializer
      BY <3>1 DEF Tokens, InSerializer
    <3>3. InStep' = InStep /\ OnlyKnownLosses' = OnlyKnownLosses
      <4>1. InStep' = InStep
        BY <3>1, <3>2 DEF InStep
      <4>2. Decoded(Tokens)' = Decoded(Tokens)
        BY <3>2 DEF Decoded
      <4>3. TypeOK' = TypeOK
        BY <3>1 DEF TypeOK
      <4> QED BY <3>1, <3>2, <4>1, <4>2, <4>3 DEF OnlyKnownLosses
    <3> QED BY <3>1, <3>3 DEF StreamInv
  <2>2. CASE Reset
    <3>1. AtReset'
      BY <2>2 DEF Reset, AtReset
    <3>2. (IInv /\ AtReset => StreamInv)'
      BY StreamStarts, PTL
    <3> QED BY <3>1, <3>2
  <2>3. CASE Ticks
    <3>1. PICK w \in Offers : Tick(w, TRUE) \/ Tick(w, FALSE)
      BY <2>3 DEF Ticks
    <3> QED BY <3>1, StreamKeeps
  <2> QED BY <2>1, <2>2, <2>3 DEF Next
<1>3. IInv /\ StreamInv => OnlyKnownLosses
  BY DEF IInv, StreamInv, OnlyKnownLosses
<1> QED BY <1>1, <1>2, <1>3, Invariance, PTL DEF Spec
=============================================================================
