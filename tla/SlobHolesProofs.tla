---------------------------- MODULE SlobHolesProofs ----------------------------
(***************************************************************************)
(* Lemmas about the arithmetic of a SLOB page, for pages of any size: that  *)
(* the holes of a page are its free units and nothing else, that only they  *)
(* could be, and that best fit is a function of them.                       *)
(***************************************************************************)
EXTENDS SlobHoles, NaturalsInduction, WellFoundedInduction, TLAPS

(***************************************************************************)
(* Counting up and looking for the first.                                   *)
(***************************************************************************)

(* Among numbers there is a least one.                                      *)
LEMMA LeastOf ==
    ASSUME NEW T \in SUBSET Nat, T # {}
    PROVE  \E m \in T : \A k \in T : m <= k
<1> DEFINE Below == {ss \in Nat \X Nat : ss[1] < ss[2]}
<1>1. PICK m \in T : \A k \in T : <<k, m>> \notin Below
  <2>1. IsWellFoundedOn(Below, Nat)
    BY NatLessThanWellFounded DEF OpToRel
  <2> HIDE DEF Below
  <2> QED
    BY <2>1, WFMin
<1>2. ASSUME NEW k \in T
      PROVE  m <= k
  <2>1. ~(k < m)
    BY <1>1
  <2> QED
    BY <2>1
<1> QED
  BY <1>2

(* What holds at 0 and from each number to the next holds up to N.          *)
LEMMA UpTo ==
    ASSUME NEW N \in Nat, NEW T, 0 \in T,
           \A i \in 0 .. N - 1 : i \in T => i + 1 \in T
    PROVE  \A i \in 0 .. N : i \in T
<1> SUFFICES ASSUME NEW j \in 0 .. N, j \notin T
             PROVE  FALSE
  OBVIOUS
<1> DEFINE Bad == {i \in 0 .. N : i \notin T}
<1>1. PICK m \in Bad : \A k \in Bad : m <= k
  <2>1. Bad \in SUBSET Nat /\ Bad # {}
    OBVIOUS
  <2> HIDE DEF Bad
  <2> QED
    BY <2>1, LeastOf
<1>2. m # 0 /\ m \in 1 .. N
  OBVIOUS
<1>3. m - 1 \in T
  <2>1. m - 1 \notin Bad
    BY <1>1, <1>2
  <2> QED
    BY <1>2, <2>1
<1>4. (m - 1) + 1 \in T
  BY <1>2, <1>3
<1> QED
  BY <1>2, <1>4

(* Among numbers below a bound there is a greatest one.                     *)
LEMMA GreatestOf ==
    ASSUME NEW N \in Nat, NEW T \in SUBSET (0 .. N), T # {}
    PROVE  \E m \in T : \A k \in T : k <= m
<1> DEFINE Left == {i \in 0 .. N : N - i \in T}
<1>1. PICK m \in Left : \A k \in Left : m <= k
  <2>1. Left \in SUBSET Nat
    OBVIOUS
  <2>2. PICK t \in T : TRUE
    OBVIOUS
  <2>3. N - t \in 0 .. N /\ N - (N - t) = t
    OBVIOUS
  <2>4. Left # {}
    BY <2>3
  <2> HIDE DEF Left
  <2> QED
    BY <2>1, <2>4, LeastOf
<1>2. ASSUME NEW k \in T
      PROVE  k <= N - m
  <2>1. N - k \in 0 .. N /\ N - (N - k) = k
    OBVIOUS
  <2>2. N - k \in Left
    BY <2>1
  <2>3. m <= N - k
    BY <2>2, <1>1
  <2> QED
    BY <2>3
<1> QED
  BY <1>1, <1>2

(***************************************************************************)
(* Holes.                                                                   *)
(***************************************************************************)

\* Blocks inside the page, apart from each other by at least gap units.
Apart(B, gap) ==
    /\ B \subseteq Block
    /\ \A b \in B : b.at + b.units <= PageUnits
    /\ \A b, c \in B : b # c => \/ b.at + b.units + gap <= c.at
                                \/ c.at + c.units + gap <= b.at

(* A block is known by where it starts and how long it is.                  *)
LEMMA BlockType ==
    ASSUME NEW b \in Block
    PROVE  /\ b.at \in Int /\ 0 <= b.at /\ b.at < PageUnits
           /\ b.units \in Int /\ 1 <= b.units /\ b.units <= PageUnits
           /\ b = [at |-> b.at, units |-> b.units]
  BY PageUnitsAssumption DEF Block, Units

(* What makes a block of an address and a length.                           *)
LEMMA NewBlock ==
    ASSUME NEW a \in Int, NEW n \in Int, 0 <= a, 1 <= n, a + n <= PageUnits
    PROVE  [at |-> a, units |-> n] \in Block
  BY PageUnitsAssumption DEF Block, Units

(* Every free unit is in a hole.                                            *)
LEMMA HoleOfUnit ==
    ASSUME NEW free \in SUBSET Units, NEW u \in free
    PROVE  \E h \in Holes(free) : u \in Span(h.at, h.units)
<1>1. PageUnits \in Nat /\ u \in 0 .. PageUnits - 1
  BY PageUnitsAssumption DEF Units
<1> DEFINE Down == {i \in 0 .. u : \A j \in 0 .. i : u - j \in free}
           Up == {i \in Nat : u + i \notin free}
<1>2. PICK d \in Down : \A k \in Down : k <= d
  <2>1. 0 \in Down
    BY <1>1
  <2>2. u \in Nat /\ Down \in SUBSET (0 .. u)
    BY <1>1
  <2> HIDE DEF Down
  <2> QED
    BY <2>1, <2>2, GreatestOf
<1>3. PICK e \in Up : \A k \in Up : e <= k
  <2>1. PageUnits - u \in Nat /\ u + (PageUnits - u) \notin free
    BY <1>1 DEF Units
  <2>2. Up \in SUBSET Nat /\ Up # {}
    BY <2>1
  <2> HIDE DEF Up
  <2> QED
    BY <2>2, LeastOf
<1>4. d \in 0 .. u /\ \A j \in 0 .. d : u - j \in free
  BY <1>2
<1>5. e \in Nat /\ u + e \notin free /\ e # 0
  BY <1>3, <1>1
<1>6. \A j \in Nat : j < e => u + j \in free
  BY <1>3
<1>7. (u - d) - 1 \notin free
  <2> SUFFICES ASSUME (u - d) - 1 \in free
               PROVE  FALSE
    OBVIOUS
  <2>1. (u - d) - 1 \in 0 .. PageUnits - 1
    BY DEF Units
  <2>2. d + 1 \in 0 .. u
    BY <2>1, <1>4, <1>1
  <2>3. \A j \in 0 .. d + 1 : u - j \in free
    <3> TAKE j \in 0 .. d + 1
    <3>1. CASE j \in 0 .. d
      BY <3>1, <1>4
    <3>2. CASE j = d + 1
      <4>1. u - j = (u - d) - 1
        BY <3>2, <1>4, <1>1
      <4> QED
        BY <4>1
    <3> QED
      BY <3>1, <3>2, <1>4
  <2>4. d + 1 \in Down
    BY <2>2, <2>3
  <2> QED
    BY <2>4, <1>2, <1>4
<1> DEFINE h == [at |-> u - d, units |-> d + e]
<1>8. \A v \in Span(u - d, d + e) : v \in free
  <2> TAKE v \in Span(u - d, d + e)
  <2>1. v \in Int /\ u - d <= v /\ v < u + e
    BY <1>1, <1>4, <1>5 DEF Span
  <2>2. CASE v <= u
    <3>1. u - v \in 0 .. d /\ u - (u - v) = v
      BY <2>1, <2>2, <1>1, <1>4
    <3>2. u - (u - v) \in free
      BY <3>1, <1>4
    <3> QED
      BY <3>1, <3>2
  <2>3. CASE v > u
    <3>1. v - u \in Nat /\ v - u < e /\ u + (v - u) = v
      BY <2>1, <2>3, <1>1, <1>5
    <3>2. u + (v - u) \in free
      BY <3>1, <1>6
    <3> QED
      BY <3>1, <3>2
  <2> QED
    BY <2>1, <2>2, <2>3, <1>1
<1>9. u - d \in Int /\ d + e \in Nat /\ 1 <= d + e /\ (u - d) + (d + e) = u + e
  BY <1>1, <1>4, <1>5
<1>10. d + e \in 1 .. PageUnits
  <2>1. u + e <= PageUnits
    <3> SUFFICES ASSUME u + e > PageUnits
                 PROVE  FALSE
      BY <1>1, <1>5
    <3>1. PageUnits - u \in Nat /\ PageUnits - u < e /\ u + (PageUnits - u) = PageUnits
      BY <1>1, <1>5
    <3>2. PageUnits \in free
      BY <3>1, <1>6
    <3> QED
      BY <3>2, <1>1 DEF Units
  <2> QED
    BY <2>1, <1>4, <1>9, <1>1
<1>11. u - d \in free
  BY <1>4
<1>12. h.at = u - d /\ h.units = d + e
  OBVIOUS
<1>13. h.at + h.units \notin free
  BY <1>12, <1>9, <1>5
<1>14. h \in [at : {x \in free : x - 1 \notin free}, units : 1 .. PageUnits]
  BY <1>11, <1>7, <1>10
<1> HIDE DEF h
<1>15. h \in Holes(free)
  <2>1. Span(h.at, h.units) \subseteq free
    BY <1>8, <1>12
  <2> QED
    BY <1>14, <2>1, <1>13 DEF Holes
<1>16. u \in Span(h.at, h.units)
  BY <1>12, <1>9, <1>1, <1>4, <1>5 DEF Span
<1> QED
  BY <1>15, <1>16

(* A hole is free, inside the page, and has no free neighbour.              *)
LEMMA HoleFacts ==
    ASSUME NEW free \in SUBSET Units, NEW h \in Holes(free)
    PROVE  /\ h \in Block
           /\ h.at + h.units <= PageUnits
           /\ h.at - 1 \notin free
           /\ h.at + h.units \notin free
           /\ \A u \in Int : h.at <= u /\ u < h.at + h.units => u \in free
<1>1. /\ h \in [at : {u \in free : u - 1 \notin free}, units : 1 .. PageUnits]
      /\ Span(h.at, h.units) \subseteq free /\ h.at + h.units \notin free
  BY DEF Holes
<1>2. h \in Block
  BY <1>1 DEF Block
<1>3. \A u \in Int : h.at <= u /\ u < h.at + h.units => u \in free
  BY <1>1, <1>2, BlockType DEF Span
<1>4. h.at + h.units - 1 \in free
  BY <1>2, <1>3, BlockType
<1>5. h.at + h.units <= PageUnits
  <2>1. h.at + h.units - 1 \in 0 .. PageUnits - 1
    BY <1>4 DEF Units
  <2>2. h.at \in Int /\ h.units \in Int /\ PageUnits \in Int
    BY <1>2, BlockType, PageUnitsAssumption
  <2> QED
    BY <2>1, <2>2
<1> QED
  BY <1>1, <1>2, <1>3, <1>5

(* The free list the code should keep: the holes cover the free units, and   *)
(* between two of them there is a unit that is not free.                    *)
LEMMA HolesApart ==
    ASSUME NEW free \in SUBSET Units
    PROVE  Apart(Holes(free), 1) /\ Covered(Holes(free)) = free
<1>1. ASSUME NEW b \in Holes(free), NEW c \in Holes(free), b # c, b.at <= c.at
      PROVE  b.at + b.units + 1 <= c.at
  <2>1. CASE b.at = c.at
    <3>1. b.units # c.units
      BY <2>1, <1>1, HoleFacts, BlockType
    <3>2. CASE b.units < c.units
      BY <2>1, <3>2, HoleFacts, BlockType
    <3>3. CASE c.units < b.units
      BY <2>1, <3>3, HoleFacts, BlockType
    <3> QED
      BY <3>1, <3>2, <3>3, HoleFacts, BlockType
  <2>2. CASE b.at < c.at
    <3> SUFFICES ASSUME c.at <= b.at + b.units
                 PROVE  FALSE
      BY HoleFacts, BlockType
    <3>1. c.at - 1 \in Int /\ b.at <= c.at - 1 /\ c.at - 1 < b.at + b.units
      BY <2>2, HoleFacts, BlockType
    <3>2. c.at - 1 \in free
      BY <3>1, HoleFacts
    <3> QED
      BY <3>2, HoleFacts
  <2> QED
    BY <2>1, <2>2, <1>1, HoleFacts, BlockType
<1>2. Apart(Holes(free), 1)
  <2>1. \A b \in Holes(free) : b \in Block /\ b.at + b.units <= PageUnits
    BY HoleFacts
  <2>2. ASSUME NEW b \in Holes(free), NEW c \in Holes(free), b # c
        PROVE  b.at + b.units + 1 <= c.at \/ c.at + c.units + 1 <= b.at
    <3>1. CASE b.at <= c.at
      BY <3>1, <2>2, <1>1
    <3>2. CASE c.at <= b.at
      BY <3>2, <2>2, <1>1
    <3> QED
      BY <3>1, <3>2, <2>1, BlockType
  <2> QED
    BY <2>1, <2>2 DEF Apart
<1>3. \A u \in Covered(Holes(free)) : u \in free
  BY DEF Covered, Holes
<1>4. \A u \in free : u \in Covered(Holes(free))
  BY HoleOfUnit DEF Covered
<1> QED
  BY <1>2, <1>3, <1>4

(* A unit is covered when it lies between the ends of a block.              *)
LEMMA CoveredUnit ==
    ASSUME NEW B \in SUBSET Block, NEW u
    PROVE  u \in Covered(B) <=>
              u \in Int /\ \E b \in B : b.at <= u /\ u < b.at + b.units
<1>1. ASSUME NEW b \in B
      PROVE  u \in Span(b.at, b.units) <=> u \in Int /\ b.at <= u /\ u < b.at + b.units
  BY BlockType DEF Span
<1> QED
  BY <1>1 DEF Covered

(* Whatever list of blocks covers the free units with a gap between any two  *)
(* is the list of the holes.                                                *)
LEMMA OnlyHoles ==
    ASSUME NEW free \in SUBSET Units, NEW B, Apart(B, 1), Covered(B) = free
    PROVE  B = Holes(free)
<1>1. B \in SUBSET Block
  BY DEF Apart
<1>2. ASSUME NEW b \in B
      PROVE  b \in Holes(free)
  <2>1. /\ b \in Block /\ b.at \in Int /\ b.units \in Int /\ 1 <= b.units
        /\ b.at + b.units <= PageUnits
    BY <1>1, BlockType DEF Apart
  <2>2. \A u \in Int : b.at <= u /\ u < b.at + b.units => u \in free
    BY <1>1, CoveredUnit
  <2>3. Span(b.at, b.units) \subseteq free
    BY <2>1, <2>2 DEF Span
  <2>4. b.at - 1 \notin free
    <3> SUFFICES ASSUME b.at - 1 \in free
                 PROVE  FALSE
      OBVIOUS
    <3>1. PICK c \in B : c.at <= b.at - 1 /\ b.at - 1 < c.at + c.units
      BY <1>1, CoveredUnit
    <3>2. c.at \in Int /\ c.units \in Int /\ c # b
      BY <3>1, <1>1, <2>1, BlockType
    <3> QED
      BY <3>1, <3>2, <2>1 DEF Apart
  <2>5. b.at + b.units \notin free
    <3> SUFFICES ASSUME b.at + b.units \in free
                 PROVE  FALSE
      OBVIOUS
    <3>1. PICK c \in B : c.at <= b.at + b.units /\ b.at + b.units < c.at + c.units
      BY <1>1, CoveredUnit
    <3>2. c.at \in Int /\ c.units \in Int /\ c # b
      BY <3>1, <1>1, <2>1, BlockType
    <3> QED
      BY <3>1, <3>2, <2>1 DEF Apart
  <2>6. b.at \in free /\ b.units \in 1 .. PageUnits
    BY <2>1, <2>2, BlockType
  <2>7. b \in [at : {u \in free : u - 1 \notin free}, units : 1 .. PageUnits]
    BY <2>1, <2>4, <2>6, BlockType
  <2> QED
    BY <2>7, <2>3, <2>5 DEF Holes
<1>3. ASSUME NEW h \in Holes(free)
      PROVE  h \in B
  <2>1. h \in Block /\ h.at \in free
    BY HoleFacts DEF Holes
  <2>2. PICK b \in B : b.at <= h.at /\ h.at < b.at + b.units
    BY <1>1, <2>1, CoveredUnit
  <2>3. b \in Holes(free)
    BY <1>2
  <2>4. h = b
    BY <2>1, <2>2, <2>3, <1>1, HolesApart, BlockType DEF Apart
  <2> QED
    BY <2>4
<1> QED
  BY <1>2, <1>3

(***************************************************************************)
(* Best fit.                                                                *)
(***************************************************************************)

(* Aligning never moves a block towards the start of the page.              *)
LEMMA DeltaType ==
    ASSUME NEW at \in Int, NEW align \in Nat
    PROVE  Delta(at, align) \in Nat
<1>1. CASE align = 0
  BY <1>1 DEF Delta
<1>2. CASE align # 0
  <2>1. (-at) % align \in 0 .. align - 1
    BY <1>2
  <2> QED
    BY <1>2, <2>1 DEF Delta
<1> QED
  BY <1>1, <1>2

(* The units an allocation takes from a hole are units of that hole.        *)
LEMMA PlacedInHole ==
    ASSUME NEW free \in SUBSET Units, NEW n \in Nat \ {0}, NEW align \in Nat,
           NEW h \in BestFit(Holes(free), n, align)
    PROVE  /\ Placed(h, align) \in Units
           /\ Span(Placed(h, align), n) \subseteq free
<1>1. h \in Holes(free) /\ Fits(h, n, align)
  BY DEF BestFit, Fitting
<1>2. h.at \in Units /\ h.units \in 1 .. PageUnits /\ Span(h.at, h.units) \subseteq free
  BY <1>1 DEF Holes
<1>3. h.at \in Int /\ h.units \in Int
  BY <1>2, PageUnitsAssumption DEF Units
<1> DEFINE d == Delta(h.at, align)
<1>4. d \in Nat /\ h.units >= n + d
  BY <1>1, <1>3, DeltaType DEF Fits
<1> HIDE DEF d
<1>5. Placed(h, align) = h.at + d
  BY DEF Placed, d
<1>6. \A u \in Span(h.at + d, n) : u \in Span(h.at, h.units)
  BY <1>3, <1>4 DEF Span
<1>7. h.at + d \in Span(h.at + d, n)
  BY <1>3, <1>4 DEF Span
<1> QED
  BY <1>2, <1>5, <1>6, <1>7

(* A block in which a request fits has no negative slack.                   *)
LEMMA SlackType ==
    ASSUME NEW h \in Block, NEW n \in Nat, NEW align \in Nat, Fits(h, n, align)
    PROVE  Slack(h, n, align) \in Nat
  BY BlockType, DeltaType DEF Fits, Slack

(* Where anything fits there is a best fit, and only one: an allocation      *)
(* fails only for want of room, and the page decides where it goes          *)
(* (slob_page_alloc).                                                       *)
THEOREM BestFitIsOne ==
    ASSUME NEW free \in SUBSET Units, NEW n \in Nat \ {0}, NEW align \in Nat,
           Fitting(Holes(free), n, align) # {}
    PROVE  \E h : BestFit(Holes(free), n, align) = {h}
<1> DEFINE F == Fitting(Holes(free), n, align)
           S == {Slack(h, n, align) : h \in F}
<1>1. \A h \in F : h \in Holes(free) /\ h \in Block /\ Slack(h, n, align) \in Nat
  BY HoleFacts, SlackType DEF Fitting
<1>2. PICK s \in S : \A t \in S : s <= t
  <2>1. S \in SUBSET Nat
    BY <1>1
  <2>2. S # {}
    OBVIOUS
  <2> HIDE DEF S
  <2> QED
    BY <2>1, <2>2, LeastOf
<1> DEFINE A == {h.at : h \in {g \in F : Slack(g, n, align) = s}}
<1>3. PICK a \in A : \A b \in A : a <= b
  <2>1. \A h \in F : h.at \in Nat
    BY <1>1, BlockType
  <2>2. A \in SUBSET Nat
    BY <2>1
  <2>3. A # {}
    BY <1>2
  <2> HIDE DEF A
  <2> QED
    BY <2>2, <2>3, LeastOf
<1>4. PICK h \in F : Slack(h, n, align) = s /\ h.at = a
  BY <1>3
<1>5. ASSUME NEW g \in F
      PROVE  \/ Slack(h, n, align) < Slack(g, n, align)
             \/ Slack(h, n, align) = Slack(g, n, align) /\ h.at <= g.at
  <2>1. s <= Slack(g, n, align)
    BY <1>2
  <2>2. CASE Slack(g, n, align) = s
    <3>1. g.at \in A
      BY <2>2
    <3>2. h.at <= g.at
      BY <3>1, <1>3, <1>4
    <3> QED
      BY <3>2, <2>2, <1>4
  <2>3. CASE Slack(g, n, align) # s
    <3>1. s < Slack(g, n, align)
      BY <2>1, <2>3, <1>1, <1>4
    <3> QED
      BY <3>1, <1>4
  <2> QED
    BY <2>2, <2>3
<1>6. h \in BestFit(Holes(free), n, align)
  BY <1>4, <1>5 DEF BestFit
<1>7. ASSUME NEW g \in BestFit(Holes(free), n, align)
      PROVE  g = h
  <2>1. g \in F /\ \/ Slack(g, n, align) < Slack(h, n, align)
                   \/ Slack(g, n, align) = Slack(h, n, align) /\ g.at <= h.at
    BY <1>4, <1>7 DEF BestFit
  <2>2. g.at = h.at
    BY <2>1, <1>1, <1>4, <1>5, BlockType
  <2>3. g \in Holes(free) /\ h \in Holes(free)
    BY <1>1, <1>4, <2>1
  <2> QED
    BY <2>2, <2>3, HolesApart, BlockType DEF Apart
<1> QED
  BY <1>6, <1>7
=============================================================================
