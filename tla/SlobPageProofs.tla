---------------------------- MODULE SlobPageProofs ----------------------------
(***************************************************************************)
(* Proofs about one SLOB page, of any size and for any alignments: the list *)
(* that the code keeps inside the free memory is the list of the gaps       *)
(* between the objects, whatever was allocated, freed and written, and the  *)
(* page is therefore the heap that PageHeap describes without any list.     *)
(***************************************************************************)
EXTENDS SlobPage, SlobHolesProofs, FiniteSetTheorems, TLAPS

(***************************************************************************)
(* The encoding of a free block.                                            *)
(***************************************************************************)

\* Memory m says at s: a free block of n units, the next one at x.
Encodes(m, s, n, x) ==
    IF n > 1 THEN m[s] = n /\ m[s + 1] = x ELSE m[s] = -x

(* A write inside the page leaves the page what it was elsewhere.           *)
LEMMA PutInside ==
    ASSUME NEW m \in [Units -> Int], NEW u \in Units, NEW v \in Int
    PROVE  /\ Put(m, u, v) = [m EXCEPT ![u] = v]
           /\ Put(m, u, v) \in [Units -> Int]
<1>1. DOMAIN m \cup {u} = Units
  OBVIOUS
<1> QED
  BY <1>1 DEF Put

(* What set_slob writes, and that it stays inside the block.                *)
LEMMA SetSlob ==
    ASSUME NEW m \in [Units -> Int], NEW s \in Int, NEW n \in Int, NEW x \in Int,
           0 <= s, 1 <= n, s + n <= PageUnits
    PROVE  /\ set_slob(m, s, n, x) \in [Units -> Int]
           /\ Encodes(set_slob(m, s, n, x), s, n, x)
           /\ \A u \in Units : ~(s <= u /\ u < s + n) => set_slob(m, s, n, x)[u] = m[u]
<1>1. PageUnits \in Nat /\ s \in Units
  BY PageUnitsAssumption DEF Units
<1>2. CASE n > 1
  <2>1. s + 1 \in Units
    BY <1>1, <1>2 DEF Units
  <2>2. set_slob(m, s, n, x) = [m EXCEPT ![s] = n, ![s + 1] = x]
    <3>1. s \in Units /\ n \in Int /\ Put(m, s, n) = [m EXCEPT ![s] = n]
      BY <1>1, PutInside
    <3>2. [m EXCEPT ![s] = n] \in [Units -> Int]
      BY <1>1
    <3>3. Put([m EXCEPT ![s] = n], s + 1, x) = [[m EXCEPT ![s] = n] EXCEPT ![s + 1] = x]
      BY <2>1, <3>2, PutInside
    <3> QED
      BY <1>2, <3>1, <3>3 DEF set_slob
  <2>3. \A u \in Units : u \in Int
    BY <1>1 DEF Units
  <2> QED
    BY <1>1, <1>2, <2>1, <2>2, <2>3 DEF Encodes
<1>3. CASE n = 1
  <2>1. set_slob(m, s, n, x) = [m EXCEPT ![s] = -x]
    <3>1. PICK y \in Int : y = -x
      OBVIOUS
    <3>2. Put(m, s, y) = [m EXCEPT ![s] = y]
      BY <1>1, PutInside
    <3> QED
      BY <1>3, <3>1, <3>2 DEF set_slob
  <2>2. \A u \in Units : u \in Int
    BY <1>1 DEF Units
  <2> QED
    BY <1>1, <1>3, <2>1, <2>2 DEF Encodes
<1> QED
  BY <1>2, <1>3

(* What the code reads where a block is written: a link is never 0, so that  *)
(* its sign tells the two encodings apart.                                  *)
LEMMA ReadSlob ==
    ASSUME NEW m \in [Units -> Int], NEW s \in Units, NEW n \in 1 .. PageUnits,
           NEW x \in 1 .. PageUnits, Encodes(m, s, n, x)
    PROVE  /\ slob_units(m, s) = n
           /\ slob_next(m, s) = x
           /\ slob_last(m, s) <=> x = PageUnits
<1>1. PageUnits \in Nat \ {0}
  BY PageUnitsAssumption
<1>2. slob_units(m, s) = n /\ slob_next(m, s) = x
  BY DEF Encodes, slob_units, slob_next
<1>3. x % PageUnits = 0 <=> x = PageUnits
  <2>1. CASE x = PageUnits
    <3>1. PageUnits % PageUnits = 0
      BY <1>1
    <3> QED
      BY <2>1, <3>1
  <2>2. CASE x < PageUnits
    <3>1. x % PageUnits = x
      BY <1>1, <2>2
    <3> QED
      BY <2>2, <3>1, <1>1
  <2> QED
    BY <2>1, <2>2, <1>1
<1> QED
  BY <1>2, <1>3 DEF slob_last

(***************************************************************************)
(* The list.                                                                *)
(***************************************************************************)

\* x is where the first of the blocks after a starts, or the page end.
Follows(B, a, x) ==
    /\ x \in Int /\ a < x
    /\ x = PageUnits \/ \E b \in B : x = b.at
    /\ x <= PageUnits /\ \A b \in B : a < b.at => x <= b.at

\* The list from fl on in memory m consists of the blocks of B.
Lists(m, fl, B) ==
    /\ Follows(B, -1, fl)
    /\ \A b \in B : \E x \in Int : Follows(B, b.at, x) /\ Encodes(m, b.at, b.units, x)

(* Only one block can come next.                                            *)
LEMMA FollowsOne ==
    ASSUME NEW B \in SUBSET Block, NEW a \in Int, NEW x, NEW y, Follows(B, a, x), Follows(B, a, y)
    PROVE  x = y
  BY BlockType, PageUnitsAssumption DEF Follows

(* A link that the code reads leads to the next block.                      *)
LEMMA ReadListed ==
    ASSUME NEW m \in [Units -> Int], NEW fl, NEW B \in SUBSET Block, Lists(m, fl, B), NEW b \in B
    PROVE  /\ b.at \in Units
           /\ slob_units(m, b.at) = b.units
           /\ Follows(B, b.at, slob_next(m, b.at))
           /\ slob_last(m, b.at) <=> slob_next(m, b.at) = PageUnits
           /\ Encodes(m, b.at, b.units, slob_next(m, b.at))
<1>1. PICK x \in Int : Follows(B, b.at, x) /\ Encodes(m, b.at, b.units, x)
  BY DEF Lists
<1>2. b.at \in Units /\ b.units \in 1 .. PageUnits
  BY DEF Block
<1>3. x \in 1 .. PageUnits
  BY <1>1, BlockType, PageUnitsAssumption DEF Follows
<1> QED
  BY <1>1, <1>2, <1>3, ReadSlob

(* A block says what it said while its units do not change.                  *)
LEMMA EncodesFrame ==
    ASSUME NEW m, NEW k, NEW b \in Block, b.at + b.units <= PageUnits, NEW x,
           Encodes(m, b.at, b.units, x),
           \A u \in Units : b.at <= u /\ u < b.at + b.units => k[u] = m[u]
    PROVE  Encodes(k, b.at, b.units, x)
<1>1. b.at \in Units /\ k[b.at] = m[b.at]
  BY BlockType DEF Block
<1>2. CASE b.units > 1
  <2>1. b.at + 1 \in Units
    BY <1>2, BlockType, PageUnitsAssumption DEF Units
  <2>2. b.at <= b.at + 1 /\ b.at + 1 < b.at + b.units
    BY <1>2, BlockType
  <2>3. k[b.at + 1] = m[b.at + 1]
    BY <2>1, <2>2
  <2> QED
    BY <1>1, <1>2, <2>3 DEF Encodes
<1>3. CASE ~(b.units > 1)
  BY <1>1, <1>3 DEF Encodes
<1> QED
  BY <1>2, <1>3

(* Memory outside the blocks may change as it likes.                        *)
LEMMA ListsFrame ==
    ASSUME NEW m, NEW k, NEW fl, NEW B \in SUBSET Block, Lists(m, fl, B),
           \A b \in B : b.at + b.units <= PageUnits,
           \A u \in Units : (\E b \in B : b.at <= u /\ u < b.at + b.units) => k[u] = m[u]
    PROVE  Lists(k, fl, B)
<1>1. ASSUME NEW b \in B, NEW x, Encodes(m, b.at, b.units, x)
      PROVE  Encodes(k, b.at, b.units, x)
  BY <1>1, EncodesFrame
<1> QED
  BY <1>1 DEF Lists

(***************************************************************************)
(* Walking the list.                                                        *)
(***************************************************************************)

\* One step of the walk.
After(m, s) ==
    IF s \notin Units THEN s ELSE IF slob_last(m, s) THEN PageUnits ELSE slob_next(m, s)

\* The first n steps.
IsWalk(w, m, fl, n) == w = [i \in 0 .. n |-> IF i = 0 THEN fl ELSE After(m, w[i - 1])]

(* There is such a walk, of any length.                                     *)
LEMMA WalkExists ==
    ASSUME NEW m, NEW fl
    PROVE  \E w : IsWalk(w, m, fl, PageUnits)
<1> DEFINE T == {n \in Nat : \E w : IsWalk(w, m, fl, n)}
<1>1. 0 \in T
  <2> DEFINE w == [i \in 0 .. 0 |-> fl]
  <2>1. w = [i \in 0 .. 0 |-> IF i = 0 THEN fl ELSE After(m, w[i - 1])]
    OBVIOUS
  <2> QED
    BY <2>1 DEF IsWalk
<1>2. ASSUME NEW n \in Nat, n \in T
      PROVE  n + 1 \in T
  <2>1. PICK w : IsWalk(w, m, fl, n)
    BY <1>2
  <2> DEFINE v == [i \in 0 .. n + 1 |-> IF i = n + 1 THEN After(m, w[n]) ELSE w[i]]
  <2>2. ASSUME NEW i \in 0 .. n + 1
        PROVE  v[i] = IF i = 0 THEN fl ELSE After(m, v[i - 1])
    <3>1. CASE i = n + 1
      <4>1. i - 1 = n /\ n \in 0 .. n + 1 /\ n # n + 1 /\ i # 0
        BY <3>1
      <4> QED
        BY <3>1, <4>1
    <3>2. CASE i \in 0 .. n
      <4>1. v[i] = w[i]
        BY <3>2
      <4>2. w[i] = IF i = 0 THEN fl ELSE After(m, w[i - 1])
        BY <3>2, <2>1 DEF IsWalk
      <4>3. CASE i = 0
        BY <4>1, <4>2, <4>3
      <4>4. CASE i # 0
        <5>1. i - 1 \in 0 .. n + 1 /\ i - 1 # n + 1
          BY <3>2, <4>4
        <5>2. v[i - 1] = w[i - 1]
          BY <5>1
        <5> QED
          BY <4>1, <4>2, <4>4, <5>2
      <4> QED
        BY <4>3, <4>4
    <3> QED
      BY <3>1, <3>2
  <2>3. v = [i \in 0 .. n + 1 |-> IF i = 0 THEN fl ELSE After(m, v[i - 1])]
    <3>1. v = [i \in 0 .. n + 1 |-> v[i]]
      OBVIOUS
    <3> HIDE DEF v
    <3> QED
      BY <3>1, <2>2
  <2> HIDE DEF v
  <2> QED
    BY <2>3 DEF IsWalk
<1>3. PageUnits \in 0 .. PageUnits /\ PageUnits \in Nat
  BY PageUnitsAssumption
<1> HIDE DEF T
<1>4. PageUnits \in T
  BY <1>1, <1>2, <1>3, UpTo
<1> QED
  BY <1>4 DEF T

(* The walk of the model is that function, and so each step of it is the    *)
(* code's.                                                                  *)
LEMMA WalkIsWalk ==
    ASSUME NEW m, NEW fl
    PROVE  IsWalk(Walk(m, fl), m, fl, PageUnits)
<1>1. Walk(m, fl) = CHOOSE w : IsWalk(w, m, fl, PageUnits)
  BY DEF Walk, IsWalk, After
<1> QED
  BY <1>1, WalkExists

\* Where a link of a list of these blocks can lead.
Stop(B, x) == x = PageUnits \/ \E b \in B : x = b.at

(* Such a link is a unit of the page or the end of it.                      *)
LEMMA StopType ==
    ASSUME NEW B \in SUBSET Block, NEW x, Stop(B, x)
    PROVE  /\ x \in Int /\ 0 <= x /\ x <= PageUnits
           /\ x \in Units <=> x # PageUnits
  BY BlockType, PageUnitsAssumption DEF Stop, Units

(* The walk goes from block to block, and stays at the end of the page.      *)
LEMMA WalkSteps ==
    ASSUME NEW m \in [Units -> Int], NEW fl, NEW B \in SUBSET Block, Lists(m, fl, B),
           NEW w, w = Walk(m, fl)
    PROVE  /\ DOMAIN w = 0 .. PageUnits
           /\ w[0] = fl
           /\ \A i \in 0 .. PageUnits : Stop(B, w[i])
           /\ \A i \in 0 .. PageUnits - 1 :
                 IF w[i] = PageUnits THEN w[i + 1] = PageUnits
                                     ELSE Follows(B, w[i], w[i + 1])
<1>1. IsWalk(w, m, fl, PageUnits)
  BY WalkIsWalk
<1>2. DOMAIN w = 0 .. PageUnits /\ PageUnits \in Nat \ {0}
  BY <1>1, PageUnitsAssumption DEF IsWalk
<1>3. w[0] = fl
  BY <1>1, <1>2 DEF IsWalk
<1>4. ASSUME NEW i \in 0 .. PageUnits - 1
      PROVE  w[i + 1] = After(m, w[i])
  <2>1. i + 1 \in 0 .. PageUnits /\ i + 1 # 0 /\ (i + 1) - 1 = i
    BY <1>2
  <2>2. w[i + 1] = IF i + 1 = 0 THEN fl ELSE After(m, w[(i + 1) - 1])
    BY <1>1, <2>1 DEF IsWalk
  <2> QED
    BY <2>1, <2>2
<1>5. ASSUME NEW i \in 0 .. PageUnits - 1, Stop(B, w[i])
      PROVE  /\ IF w[i] = PageUnits THEN w[i + 1] = PageUnits ELSE Follows(B, w[i], w[i + 1])
             /\ Stop(B, w[i + 1])
  <2>1. CASE w[i] = PageUnits
    <3>1. w[i] \notin Units
      BY <2>1, <1>5, StopType
    <3>2. w[i + 1] = PageUnits
      BY <3>1, <2>1, <1>4 DEF After
    <3> QED
      BY <3>2, <2>1 DEF Stop
  <2>2. CASE w[i] # PageUnits
    <3>1. PICK b \in B : w[i] = b.at
      BY <2>2, <1>5 DEF Stop
    <3>2. /\ w[i] \in Units
          /\ Follows(B, w[i], slob_next(m, w[i]))
          /\ slob_last(m, w[i]) <=> slob_next(m, w[i]) = PageUnits
      BY <3>1, ReadListed
    <3>3. w[i + 1] = slob_next(m, w[i])
      BY <3>2, <1>4 DEF After
    <3>4. Follows(B, w[i], w[i + 1])
      BY <3>2, <3>3
    <3> QED
      BY <2>2, <3>4 DEF Follows, Stop
  <2> QED
    BY <2>1, <2>2
<1> DEFINE T == {i \in 0 .. PageUnits : Stop(B, w[i])}
<1>6. \A i \in 0 .. PageUnits : i \in T
  <2>1. 0 \in T
    BY <1>2, <1>3 DEF Lists, Follows, Stop
  <2>2. ASSUME NEW i \in 0 .. PageUnits - 1, i \in T
        PROVE  i + 1 \in T
    BY <2>2, <1>2, <1>5
  <2> HIDE DEF T
  <2> QED
    BY <2>1, <2>2, <1>2, UpTo
<1> QED
  BY <1>2, <1>3, <1>5, <1>6

(* It goes up, past every block, and is over after PageUnits steps.          *)
LEMMA WalkAscends ==
    ASSUME NEW m \in [Units -> Int], NEW fl, NEW B \in SUBSET Block, Lists(m, fl, B),
           NEW w, w = Walk(m, fl)
    PROVE  /\ \A i, j \in 0 .. PageUnits : i < j => w[i] < w[j] \/ w[j] = PageUnits
           /\ w[PageUnits] = PageUnits
           /\ \A b \in B : \E i \in 0 .. PageUnits : w[i] = b.at
<1>1. PageUnits \in Nat \ {0}
  BY PageUnitsAssumption
<1>2. \A i \in 0 .. PageUnits : Stop(B, w[i]) /\ w[i] \in Int /\ 0 <= w[i] /\ w[i] <= PageUnits
  BY WalkSteps, StopType
<1>3. ASSUME NEW i \in 0 .. PageUnits - 1
      PROVE  w[i] < w[i + 1] \/ (w[i] = PageUnits /\ w[i + 1] = PageUnits)
  BY WalkSteps DEF Follows
<1>4. ASSUME NEW i \in 0 .. PageUnits
      PROVE  \A j \in 0 .. PageUnits : i < j => w[i] < w[j] \/ w[j] = PageUnits
  <2> DEFINE T == {j \in 0 .. PageUnits : i < j => w[i] < w[j] \/ w[j] = PageUnits}
  <2>1. 0 \in T
    BY <1>1
  <2>2. ASSUME NEW j \in 0 .. PageUnits - 1, j \in T
        PROVE  j + 1 \in T
    <3>1. j \in 0 .. PageUnits /\ j + 1 \in 0 .. PageUnits
      BY <1>1
    <3>2. CASE i < j
      BY <3>1, <3>2, <2>2, <1>2, <1>3
    <3>3. CASE i = j
      BY <3>1, <3>3, <1>3
    <3>4. CASE i > j
      BY <3>1, <3>4
    <3> QED
      BY <3>2, <3>3, <3>4
  <2> HIDE DEF T
  <2>3. \A j \in 0 .. PageUnits : j \in T
    BY <2>1, <2>2, <1>1, UpTo
  <2> QED
    BY <2>3 DEF T
<1>5. w[PageUnits] = PageUnits
  <2> DEFINE T == {j \in 0 .. PageUnits : j <= w[j]}
  <2>1. 0 \in T
    BY <1>1, <1>2
  <2>2. ASSUME NEW j \in 0 .. PageUnits - 1, j \in T
        PROVE  j + 1 \in T
    <3>1. j \in 0 .. PageUnits /\ j + 1 \in 0 .. PageUnits
      BY <1>1
    <3> QED
      BY <3>1, <2>2, <1>2, <1>3
  <2> HIDE DEF T
  <2>3. \A j \in 0 .. PageUnits : j \in T
    BY <2>1, <2>2, <1>1, UpTo
  <2>4. PageUnits <= w[PageUnits]
    BY <2>3, <1>1 DEF T
  <2>5. PageUnits \in 0 .. PageUnits
    BY <1>1
  <2>6. w[PageUnits] \in Int /\ w[PageUnits] <= PageUnits
    BY <2>5, <1>2
  <2> QED
    BY <2>4, <2>6, <1>1
<1>6. ASSUME NEW b \in B
      PROVE  \E i \in 0 .. PageUnits : w[i] = b.at
  <2>1. b.at \in Int /\ 0 <= b.at /\ b.at < PageUnits
    BY BlockType
  <2> DEFINE T == {i \in 0 .. PageUnits : b.at <= w[i]}
  <2>2. PICK i \in T : \A k \in T : i <= k
    <3>1. PageUnits \in T
      BY <1>1, <1>5, <2>1
    <3>2. T \in SUBSET Nat
      OBVIOUS
    <3> HIDE DEF T
    <3> QED
      BY <3>1, <3>2, LeastOf
  <2>3. w[i] <= b.at
    <3>1. CASE i = 0
      <4>1. Follows(B, -1, w[i])
        BY <3>1, WalkSteps DEF Lists
      <4> QED
        BY <4>1, <2>1 DEF Follows
    <3>2. CASE i # 0
      <4>1. i - 1 \in 0 .. PageUnits - 1 /\ i - 1 \in 0 .. PageUnits /\ (i - 1) + 1 = i
        BY <3>2, <1>1
      <4>2. i - 1 \notin T
        <5>1. ~(i <= i - 1)
          BY <4>1
        <5> HIDE DEF T
        <5> QED
          BY <5>1, <2>2
      <4>3. w[i - 1] < b.at /\ w[i - 1] # PageUnits
        BY <4>1, <4>2, <1>2, <2>1
      <4>4. Follows(B, w[i - 1], w[i])
        BY <4>1, <4>3, WalkSteps
      <4> QED
        BY <4>3, <4>4 DEF Follows
    <3> QED
      BY <3>1, <3>2
  <2>4. i \in 0 .. PageUnits /\ b.at <= w[i]
    OBVIOUS
  <2>5. w[i] = b.at
    BY <2>1, <2>3, <2>4, <1>2
  <2> QED
    BY <2>4, <2>5
<1> QED
  BY <1>4, <1>5, <1>6

(* The blocks that the walk passes are the blocks of the list, with the      *)
(* sizes that the code reads there.                                         *)
LEMMA WalkedBlocks ==
    ASSUME NEW m \in [Units -> Int], NEW fl, NEW B \in SUBSET Block, Lists(m, fl, B),
           \A b, c \in B : b.at = c.at => b = c
    PROVE  ListedBlocks(m, fl) = B
<1> DEFINE w == Walk(m, fl)
<1>1. DOMAIN w = 0 .. PageUnits /\ \A i \in 0 .. PageUnits : Stop(B, w[i])
  BY WalkSteps
<1>2. \A b \in B : \E i \in 0 .. PageUnits : w[i] = b.at
  BY WalkAscends
<1>3. \A b \in B : b.at \in Units /\ b.at # PageUnits
                   /\ b = [at |-> b.at, units |-> slob_units(m, b.at)]
  BY ReadListed, BlockType
<1>4. ListedBlocks(m, fl) = {[at |-> w[i], units |-> slob_units(m, w[i])] :
                                i \in {j \in DOMAIN w : w[j] \in Units}}
  BY DEF ListedBlocks
<1> HIDE DEF w
<1>5. ASSUME NEW i \in 0 .. PageUnits, w[i] \in Units
      PROVE  [at |-> w[i], units |-> slob_units(m, w[i])] \in B
  <2>1. PICK b \in B : w[i] = b.at
    BY <1>1, <1>5, StopType DEF Stop
  <2> QED
    BY <2>1, <1>3
<1> QED
  BY <1>1, <1>2, <1>3, <1>4, <1>5

(***************************************************************************)
(* Best fit, found by walking.                                              *)
(***************************************************************************)

(* What the scan compares is the slack of the block.                        *)
LEMMA DiffIsSlack ==
    ASSUME NEW m \in [Units -> Int], NEW fl, NEW B \in SUBSET Block, Lists(m, fl, B),
           NEW b \in B, NEW n \in Nat, NEW align \in Nat
    PROVE  /\ diff(m, b.at, n, align) = Slack(b, n, align)
           /\ Slack(b, n, align) \in Int
           /\ Slack(b, n, align) >= 0 <=> Fits(b, n, align)
<1>1. slob_units(m, b.at) = b.units
  BY ReadListed
<1>2. b.at \in Int /\ b.units \in Int /\ Delta(b.at, align) \in Nat
  BY BlockType, DeltaType
<1> QED
  BY <1>1, <1>2 DEF diff, Slack, Fits

(* The scan of slob_page_alloc settles on the best fit: the first on the     *)
(* list among equals is the lowest, because the list goes up.               *)
LEMMA BestLinkIsBestFit ==
    ASSUME NEW m \in [Units -> Int], NEW fl, NEW free \in SUBSET Units,
           Lists(m, fl, Holes(free)), NEW w, w = Walk(m, fl),
           NEW n \in Nat \ {0}, NEW align \in Nat, NEW i \in BestLinks(m, w, n, align)
    PROVE  i \in 0 .. PageUnits /\ \E h \in BestFit(Holes(free), n, align) : w[i] = h.at
<1> DEFINE B == Holes(free)
<1>1. B \in SUBSET Block /\ Lists(m, fl, B)
  BY HoleFacts
<1> HIDE DEF B
<1>2. DOMAIN w = 0 .. PageUnits
  BY <1>1, WalkSteps
<1>3. i \in 0 .. PageUnits /\ w[i] \in Units /\ diff(m, w[i], n, align) >= 0
  BY <1>2 DEF BestLinks
<1>4. PICK h \in B : w[i] = h.at
  BY <1>1, <1>3, WalkSteps, StopType DEF Stop
<1>5. h \in Fitting(B, n, align)
  BY <1>1, <1>3, <1>4, DiffIsSlack DEF Fitting
<1>6. ASSUME NEW g \in Fitting(B, n, align)
      PROVE  \/ Slack(h, n, align) < Slack(g, n, align)
             \/ Slack(h, n, align) = Slack(g, n, align) /\ h.at <= g.at
  <2>1. g \in B /\ Fits(g, n, align)
    BY DEF Fitting
  <2>2. PICK j \in 0 .. PageUnits : w[j] = g.at
    BY <1>1, <2>1, WalkAscends
  <2>3. g.at \in Units /\ h.at \in Units /\ g.at \in Int /\ h.at \in Int
    BY <1>1, <1>4, <2>1, BlockType DEF Block
  <2>4. w[j] \in Units /\ diff(m, w[j], n, align) >= 0
    BY <1>1, <2>1, <2>2, <2>3, DiffIsSlack
  <2>5. \/ diff(m, w[i], n, align) < diff(m, w[j], n, align)
        \/ diff(m, w[i], n, align) = diff(m, w[j], n, align) /\ i <= j
    BY <1>2, <2>4 DEF BestLinks
  <2>6. /\ diff(m, w[i], n, align) = Slack(h, n, align)
        /\ diff(m, w[j], n, align) = Slack(g, n, align)
    BY <1>1, <1>4, <2>1, <2>2, DiffIsSlack
  <2>7. i <= j => w[i] <= w[j]
    <3>1. CASE i = j
      BY <3>1, <2>2, <2>3
    <3>2. CASE i < j
      BY <3>2, <1>1, <1>3, <1>4, <2>2, <2>3, WalkAscends, BlockType
    <3> QED
      BY <3>1, <3>2, <1>3
  <2> QED
    BY <2>5, <2>6, <2>7, <1>4, <2>2
<1>7. h \in BestFit(B, n, align)
  BY <1>5, <1>6 DEF BestFit
<1> QED
  BY <1>3, <1>4, <1>7 DEF B

(* It finds nothing only if nothing fits.                                   *)
LEMMA NoLinkNoFit ==
    ASSUME NEW m \in [Units -> Int], NEW fl, NEW free \in SUBSET Units,
           Lists(m, fl, Holes(free)), NEW w, w = Walk(m, fl),
           NEW n \in Nat \ {0}, NEW align \in Nat, BestLinks(m, w, n, align) = {}
    PROVE  Fitting(Holes(free), n, align) = {}
<1> SUFFICES ASSUME Fitting(Holes(free), n, align) # {}
             PROVE  FALSE
  OBVIOUS
<1> DEFINE B == Holes(free)
<1>1. B \in SUBSET Block /\ Lists(m, fl, B)
  BY HoleFacts
<1>2. PICK h \in BestFit(B, n, align) : TRUE
  BY BestFitIsOne
<1> HIDE DEF B
<1>3. h \in B /\ Fits(h, n, align)
  BY DEF BestFit, Fitting
<1>4. DOMAIN w = 0 .. PageUnits
  BY <1>1, WalkSteps
<1>5. PICK i \in 0 .. PageUnits : w[i] = h.at
  BY <1>1, <1>3, WalkAscends
<1>6. /\ w[i] \in Units /\ diff(m, w[i], n, align) = Slack(h, n, align)
      /\ diff(m, w[i], n, align) >= 0
  BY <1>1, <1>3, <1>5, DiffIsSlack DEF Block
<1>7. ASSUME NEW j \in 0 .. PageUnits, w[j] \in Units, diff(m, w[j], n, align) >= 0
      PROVE  \/ diff(m, w[i], n, align) < diff(m, w[j], n, align)
             \/ diff(m, w[i], n, align) = diff(m, w[j], n, align) /\ i <= j
  <2>1. PICK g \in B : w[j] = g.at
    BY <1>1, <1>7, WalkSteps, StopType DEF Stop
  <2>2. diff(m, w[j], n, align) = Slack(g, n, align) /\ g \in Fitting(B, n, align)
    BY <1>1, <1>7, <2>1, DiffIsSlack DEF Fitting
  <2>3. \/ Slack(h, n, align) < Slack(g, n, align)
        \/ Slack(h, n, align) = Slack(g, n, align) /\ h.at <= g.at
    BY <2>2 DEF BestFit
  <2>4. h.at <= g.at => i <= j
    <3> SUFFICES ASSUME j < i, w[i] <= w[j]
                 PROVE  FALSE
      BY <1>5, <2>1
    <3>1. w[j] < w[i] \/ w[i] = PageUnits
      BY <1>1, WalkAscends
    <3>2. w[i] \in Int /\ w[j] \in Int /\ w[i] < PageUnits
      BY <1>1, <1>3, <1>5, <2>1, BlockType
    <3> QED
      BY <3>1, <3>2
  <2> QED
    BY <1>6, <2>2, <2>3, <2>4
<1>8. i \in BestLinks(m, w, n, align)
  BY <1>4, <1>6, <1>7 DEF BestLinks
<1> QED
  BY <1>8

(***************************************************************************)
(* Writing one block of the list.                                           *)
(***************************************************************************)

\* Memory k is m but for block c of the list, which says that x comes next.
Wrote(k, m, B, c, x) ==
    /\ k \in [Units -> Int]
    /\ Encodes(k, c.at, c.units, x)
    /\ \A b \in B, y \in Int :
          b # c /\ Encodes(m, b.at, b.units, y) => Encodes(k, b.at, b.units, y)
    /\ \A u \in Units : ~(c.at <= u /\ u < c.at + c.units) => k[u] = m[u]

(* set_slob leaves the other blocks as they are.                            *)
LEMMA WriteBlock ==
    ASSUME NEW m \in [Units -> Int], NEW B, Apart(B, 0), NEW c \in B, NEW x \in Int
    PROVE  Wrote(set_slob(m, c.at, c.units, x), m, B, c, x)
<1> DEFINE k == set_slob(m, c.at, c.units, x)
<1>1. c \in Block /\ c.at + c.units <= PageUnits
  BY DEF Apart
<1>2. c.at \in Int /\ c.units \in Int /\ 0 <= c.at /\ 1 <= c.units
  BY <1>1, BlockType
<1>3. /\ k \in [Units -> Int]
      /\ Encodes(k, c.at, c.units, x)
      /\ \A u \in Units : ~(c.at <= u /\ u < c.at + c.units) => k[u] = m[u]
  BY <1>1, <1>2, SetSlob
<1> HIDE DEF k
<1>4. ASSUME NEW b \in B, NEW y \in Int, b # c, Encodes(m, b.at, b.units, y)
      PROVE  Encodes(k, b.at, b.units, y)
  <2>1. b \in Block /\ b.at + b.units <= PageUnits
    BY DEF Apart
  <2>2. b.at \in Int /\ b.units \in Int
    BY <2>1, BlockType
  <2>3. b.at + b.units <= c.at \/ c.at + c.units <= b.at
    BY <1>2, <1>4, <2>2 DEF Apart
  <2>4. \A u \in Units : u \in Int
    BY PageUnitsAssumption DEF Units
  <2>5. \A u \in Units : b.at <= u /\ u < b.at + b.units => k[u] = m[u]
    BY <1>2, <1>3, <2>2, <2>3, <2>4
  <2> QED
    BY <1>4, <2>1, <2>5, EncodesFrame
<1>5. Wrote(k, m, B, c, x)
  BY <1>3, <1>4 DEF Wrote
<1> QED
  BY <1>5 DEF k

(* The block of a list, as far as arithmetic goes.                          *)
LEMMA ApartBlock ==
    ASSUME NEW B, NEW gap \in Nat, Apart(B, gap), NEW b \in B
    PROVE  /\ B \in SUBSET Block /\ b \in Block
           /\ b.at \in Int /\ 0 <= b.at /\ b.units \in Int /\ 1 <= b.units
           /\ b.at + b.units <= PageUnits
           /\ \A c \in B : b # c => b.at + b.units <= c.at \/ c.at + c.units <= b.at
<1>1. B \in SUBSET Block /\ b.at + b.units <= PageUnits
  BY DEF Apart
<1>2. ASSUME NEW c \in B, b # c
      PROVE  b.at + b.units <= c.at \/ c.at + c.units <= b.at
  <2>1. b.at + b.units + gap <= c.at \/ c.at + c.units + gap <= b.at
    BY <1>2 DEF Apart
  <2>2. b.at \in Int /\ b.units \in Int /\ c.at \in Int /\ c.units \in Int
    BY <1>1, BlockType
  <2> QED
    BY <2>1, <2>2
<1> QED
  BY <1>1, <1>2, BlockType

(***************************************************************************)
(* slob_page_alloc.                                                         *)
(***************************************************************************)

(* Fragmenting the head of a block: the list has two blocks in its place.    *)
LEMMA SplitHead ==
    ASSUME NEW m \in [Units -> Int], NEW fl, NEW B, Apart(B, 0), Lists(m, fl, B),
           NEW c \in B, NEW d \in Int, 0 < d, d < c.units,
           NEW head \in Block, head.at = c.at, head.units = d,
           NEW tail \in Block, tail.at = c.at + d, tail.units = c.units - d,
           NEW C, C = (B \ {c}) \cup {head, tail},
           NEW next, next = slob_next(m, c.at),
           NEW k, k = set_slob(set_slob(m, c.at + d, c.units - d, next), c.at, d, c.at + d)
    PROVE  /\ k \in [Units -> Int]
           /\ Apart(C, 0)
           /\ Lists(k, fl, C)
           /\ Follows(C, head.at, tail.at)
           /\ \A u \in Units : ~(c.at <= u /\ u < c.at + c.units) => k[u] = m[u]
<1>1. /\ B \in SUBSET Block /\ c \in Block
      /\ c.at \in Int /\ 0 <= c.at /\ c.units \in Int /\ c.at + c.units <= PageUnits
      /\ PageUnits \in Nat
  BY ApartBlock, PageUnitsAssumption
<1>2. /\ head.at = c.at /\ head.units = d
      /\ tail.at = c.at + d /\ tail.units = c.units - d
  OBVIOUS
<1>3. \A b \in B : /\ b.at \in Int /\ 0 <= b.at /\ b.units \in Int /\ 1 <= b.units
                   /\ b.at + b.units <= PageUnits
                   /\ b # c => b.at + b.units <= c.at \/ c.at + c.units <= b.at
  BY ApartBlock
<1>4. Apart(C, 0)
  <2>1. C \subseteq Block
    BY <1>1
  <2>2. ASSUME NEW b \in C
        PROVE  b.at + b.units <= PageUnits
    <3>1. CASE b \in {head, tail}
      BY <3>1, <1>1, <1>2
    <3>2. CASE b \in B
      BY <3>2, <1>3
    <3> QED
      BY <3>1, <3>2
  <2>3. ASSUME NEW a \in C, NEW b \in C, a # b
        PROVE  a.at + a.units + 0 <= b.at \/ b.at + b.units + 0 <= a.at
    <3>1. CASE a \in {head, tail} /\ b \in {head, tail}
      BY <3>1, <2>3, <1>1, <1>2
    <3>2. CASE a \in {head, tail} /\ b \in B \ {c}
      BY <3>2, <1>1, <1>2, ApartBlock
    <3>3. CASE a \in B \ {c} /\ b \in {head, tail}
      BY <3>3, <1>1, <1>2, ApartBlock
    <3>4. CASE a \in B \ {c} /\ b \in B \ {c}
      BY <3>4, <2>3, ApartBlock
    <3> QED
      BY <3>1, <3>2, <3>3, <3>4
  <2> QED
    BY <2>1, <2>2, <2>3 DEF Apart
<1>5. Follows(B, c.at, next) /\ next \in Int
  BY <1>1, ReadListed DEF Follows
<1>6. ASSUME NEW a \in Int, NEW x, Follows(B, a, x), a < c.at \/ a >= c.at + c.units
      PROVE  Follows(C, a, x)
  <2>1. x = PageUnits \/ \E b \in C : x = b.at
    BY <1>6, <1>2 DEF Follows
  <2>2. ASSUME NEW b \in C, a < b.at
        PROVE  x <= b.at
    <3>1. CASE b \in B
      BY <3>1, <2>2, <1>6 DEF Follows
    <3>2. CASE b \in {head, tail}
      BY <3>2, <2>2, <1>6, <1>1, <1>2 DEF Follows
    <3> QED
      BY <3>1, <3>2
  <2> QED
    BY <1>6, <2>1, <2>2 DEF Follows
<1>7. Follows(C, tail.at, next)
  <2>1. next = PageUnits \/ \E b \in C : next = b.at
    BY <1>1, <1>2, <1>5 DEF Follows
  <2>2. tail.at < next
    BY <1>1, <1>2, <1>5, ApartBlock DEF Follows
  <2>3. ASSUME NEW b \in C, tail.at < b.at
        PROVE  next <= b.at
    <3>1. b \in B /\ c.at < b.at
      BY <2>3, <1>1, <1>2, <1>3
    <3> QED
      BY <3>1, <1>5 DEF Follows
  <2> QED
    BY <2>1, <2>2, <2>3, <1>5 DEF Follows
<1>8. Follows(C, head.at, tail.at)
  <2>1. ASSUME NEW b \in C, head.at < b.at
        PROVE  tail.at <= b.at
    <3>1. CASE b \in {head, tail}
      BY <3>1, <2>1, <1>1, <1>2
    <3>2. CASE b \in B
      BY <3>2, <2>1, <1>1, <1>2, <1>3
    <3> QED
      BY <3>1, <3>2
  <2> QED
    BY <2>1, <1>1, <1>2 DEF Follows
<1> DEFINE m1 == set_slob(m, tail.at, tail.units, next)
<1>9. /\ m1 \in [Units -> Int]
      /\ Encodes(m1, tail.at, tail.units, next)
      /\ \A u \in Units : ~(tail.at <= u /\ u < tail.at + tail.units) => m1[u] = m[u]
  BY <1>1, <1>2, <1>5, SetSlob
<1>10. k = set_slob(m1, head.at, head.units, tail.at)
  BY <1>2
<1> HIDE DEF m1
<1>11. /\ k \in [Units -> Int]
       /\ Encodes(k, head.at, head.units, tail.at)
       /\ Encodes(k, tail.at, tail.units, next)
       /\ \A u \in Units : ~(head.at <= u /\ u < head.at + head.units) => k[u] = m1[u]
  <2>1. head # tail /\ tail.at \in Int /\ head \in C /\ tail \in C
    BY <1>1, <1>2
  <2>2. /\ k \in [Units -> Int]
        /\ Encodes(k, head.at, head.units, tail.at)
        /\ \A b \in C, y \in Int :
              b # head /\ Encodes(m1, b.at, b.units, y) => Encodes(k, b.at, b.units, y)
        /\ \A u \in Units : ~(head.at <= u /\ u < head.at + head.units) => k[u] = m1[u]
    <3>1. Wrote(k, m1, C, head, tail.at)
      BY <2>1, <1>4, <1>9, <1>10, WriteBlock
    <3> QED
      BY <3>1 DEF Wrote
  <2>3. Encodes(k, tail.at, tail.units, next)
    BY <2>1, <2>2, <1>5, <1>9
  <2> QED
    BY <2>2, <2>3
<1>12. \A u \in Units : ~(c.at <= u /\ u < c.at + c.units) => k[u] = m[u]
  <2>1. \A u \in Units : u \in Int
    BY PageUnitsAssumption DEF Units
  <2> QED
    BY <2>1, <1>1, <1>2, <1>9, <1>11
<1>13. ASSUME NEW b \in C
       PROVE  \E x \in Int : Follows(C, b.at, x) /\ Encodes(k, b.at, b.units, x)
  <2>1. CASE b = head
    BY <2>1, <1>1, <1>2, <1>8, <1>11
  <2>2. CASE b = tail
    BY <2>2, <1>5, <1>7, <1>11
  <2>3. CASE b \in B \ {c}
    <3>1. PICK x \in Int : Follows(B, b.at, x) /\ Encodes(m, b.at, b.units, x)
      BY <2>3 DEF Lists
    <3>2. b.at \in Int /\ b.units \in Int /\ 1 <= b.units /\ (b.at < c.at \/ b.at >= c.at + c.units)
      BY <2>3, <1>1, ApartBlock
    <3>3. Follows(C, b.at, x)
      BY <3>1, <3>2, <1>6
    <3>4. \A u \in Units : b.at <= u /\ u < b.at + b.units => k[u] = m[u]
      <4>1. \A u \in Units : u \in Int
        BY PageUnitsAssumption DEF Units
      <4>2. b.at + b.units <= c.at \/ c.at + c.units <= b.at
        BY <2>3, ApartBlock
      <4> QED
        BY <4>1, <4>2, <1>12, <1>1, <3>2
    <3>5. Encodes(k, b.at, b.units, x)
      <4>1. b \in Block /\ b.at + b.units <= PageUnits
        BY <2>3, ApartBlock
      <4> QED
        BY <4>1, <3>1, <3>4, EncodesFrame
    <3> QED
      BY <3>3, <3>5
  <2> QED
    BY <2>1, <2>2, <2>3
<1>14. Follows(C, -1, fl)
  <2>1. Follows(B, -1, fl)
    BY DEF Lists
  <2>2. -1 \in Int /\ -1 < c.at
    BY <1>1
  <2> QED
    BY <2>1, <2>2, <1>6
<1> QED
  BY <1>4, <1>8, <1>11, <1>12, <1>13, <1>14 DEF Lists

\* The blocks of C are those of B, but for the first n units of c.
Cut(B, c, n, C) ==
    \E N : /\ C = (B \ {c}) \cup N
           /\ IF n = c.units THEN N = {}
              ELSE \E e \in Block : N = {e} /\ e.at = c.at + n /\ e.units = c.units - n

\* Where the list goes on once they are taken.
Rest(c, n, next) == IF c.units = n THEN next ELSE c.at + n

(* What was cut leaves a list in which only the link to c has changed.       *)
LEMMA CutFollows ==
    ASSUME NEW B, Apart(B, 0), NEW c \in B, NEW n \in Int, 1 <= n, n <= c.units,
           NEW C, Cut(B, c, n, C), NEW next, Follows(B, c.at, next)
    PROVE  /\ Apart(C, 0)
           /\ \A a \in Int : \A x :
              Follows(B, a, x) /\ x # c.at /\ (a < c.at \/ a >= c.at + c.units)
                 => Follows(C, a, x)
           /\ \A a \in Int : Follows(B, a, c.at) => Follows(C, a, Rest(c, n, next))
           /\ \A e \in C : e \notin B => Follows(C, e.at, next)
           /\ Rest(c, n, next) \in Int /\ c.at < Rest(c, n, next)
<1>1. /\ B \in SUBSET Block /\ c \in Block
      /\ c.at \in Int /\ 0 <= c.at /\ c.units \in Int /\ c.at + c.units <= PageUnits
      /\ PageUnits \in Nat
  BY ApartBlock, PageUnitsAssumption
<1>2. \A b \in B : /\ b.at \in Int /\ 0 <= b.at /\ b.units \in Int /\ 1 <= b.units
                   /\ b.at + b.units <= PageUnits
                   /\ b # c => b.at + b.units <= c.at \/ c.at + c.units <= b.at
  BY ApartBlock
<1>3. next \in Int /\ c.at < next /\ next <= PageUnits
  BY DEF Follows
<1>4. c.at + c.units <= next
  <2>1. CASE next = PageUnits
    BY <2>1, <1>1
  <2>2. CASE next # PageUnits
    <3>1. PICK b \in B : next = b.at
      BY <2>2 DEF Follows
    <3> QED
      BY <3>1, <1>2, <1>3, <1>1
  <2> QED
    BY <2>1, <2>2
<1>5. CASE n = c.units
  <2>1. C = B \ {c}
    BY <1>5 DEF Cut
  <2>2. Apart(C, 0)
    BY <2>1 DEF Apart
  <2>3. ASSUME NEW a \in Int, NEW x, Follows(B, a, x), x # c.at
        PROVE  Follows(C, a, x)
    BY <2>1, <2>3 DEF Follows
  <2>4. ASSUME NEW a \in Int, Follows(B, a, c.at)
        PROVE  Follows(C, a, next)
    <3>1. a < c.at /\ a < next
      BY <2>4, <1>1, <1>3 DEF Follows
    <3>2. next = PageUnits \/ \E b \in C : next = b.at
      BY <2>1, <1>3 DEF Follows
    <3>3. ASSUME NEW b \in C, a < b.at
          PROVE  next <= b.at
      <4>1. c.at <= b.at /\ b \in B /\ b # c
        BY <2>1, <2>4, <3>3 DEF Follows
      <4>2. c.at < b.at
        BY <4>1, <1>1, <1>2
      <4> QED
        BY <4>1, <4>2 DEF Follows
    <3> QED
      BY <3>1, <3>2, <3>3, <1>3 DEF Follows
  <2>5. Rest(c, n, next) = next
    BY <1>5 DEF Rest
  <2>6. \A a \in Int : Follows(B, a, c.at) => Follows(C, a, Rest(c, n, next))
    BY <2>4, <2>5
  <2>7. \A e \in C : e \notin B => Follows(C, e.at, next)
    BY <2>1
  <2>8. Rest(c, n, next) \in Int /\ c.at < Rest(c, n, next)
    BY <2>5, <1>3
  <2>9. \A a \in Int : \A x :
              Follows(B, a, x) /\ x # c.at /\ (a < c.at \/ a >= c.at + c.units)
                 => Follows(C, a, x)
    BY <2>3
  <2> QED
    BY <2>2, <2>6, <2>7, <2>8, <2>9
<1>6. CASE n # c.units
  <2>1. PICK e \in Block : C = (B \ {c}) \cup {e} /\ e.at = c.at + n /\ e.units = c.units - n
    BY <1>6 DEF Cut
  <2>2. n < c.units /\ e.at \in Int /\ e.units \in Int /\ 1 <= e.units
    BY <2>1, <1>6, <1>1
  <2>3. Apart(C, 0)
    <3>1. C \subseteq Block
      BY <2>1, <1>1
    <3>2. ASSUME NEW b \in C
          PROVE  b.at + b.units <= PageUnits
      <4>1. CASE b = e
        BY <4>1, <2>1, <1>1
      <4>2. CASE b \in B
        BY <4>2, <1>2
      <4> QED
        BY <4>1, <4>2, <2>1
    <3>3. ASSUME NEW a \in C, NEW b \in C, a # b
          PROVE  a.at + a.units + 0 <= b.at \/ b.at + b.units + 0 <= a.at
      <4>1. CASE a = e /\ b \in B \ {c}
        BY <4>1, <2>1, <2>2, <1>1, <1>2
      <4>2. CASE b = e /\ a \in B \ {c}
        BY <4>2, <2>1, <2>2, <1>1, <1>2
      <4>3. CASE a \in B \ {c} /\ b \in B \ {c}
        BY <4>3, <3>3 DEF Apart
      <4> QED
        BY <4>1, <4>2, <4>3, <3>3, <2>1
    <3> QED
      BY <3>1, <3>2, <3>3 DEF Apart
  <2>4. ASSUME NEW a \in Int, NEW x, Follows(B, a, x), x # c.at,
               a < c.at \/ a >= c.at + c.units
        PROVE  Follows(C, a, x)
    <3>1. x = PageUnits \/ \E b \in C : x = b.at
      BY <2>4, <2>1 DEF Follows
    <3>2. ASSUME NEW b \in C, a < b.at
          PROVE  x <= b.at
      <4>1. CASE b \in B
        BY <4>1, <3>2, <2>4 DEF Follows
      <4>2. CASE b = e
        <5>1. a < c.at
          BY <4>2, <3>2, <2>4, <2>1, <2>2, <1>1
        <5>2. x \in Int /\ x <= c.at
          BY <5>1, <2>4 DEF Follows
        <5> QED
          BY <5>2, <4>2, <2>1, <1>1
      <4> QED
        BY <4>1, <4>2, <2>1
    <3> QED
      BY <3>1, <3>2, <2>4 DEF Follows
  <2>5. ASSUME NEW a \in Int, Follows(B, a, c.at)
        PROVE  Follows(C, a, c.at + n)
    <3>1. a < c.at /\ c.at + n <= PageUnits
      BY <2>2, <2>5, <1>1 DEF Follows
    <3>2. ASSUME NEW b \in C, a < b.at
          PROVE  c.at + n <= b.at
      <4>1. CASE b \in B /\ b # c
        <5>1. c.at <= b.at
          BY <4>1, <3>2, <2>5 DEF Follows
        <5> QED
          BY <5>1, <4>1, <1>1, <1>2
      <4>2. CASE b = e
        BY <4>2, <2>1, <1>1
      <4> QED
        BY <4>1, <4>2, <2>1
    <3>3. c.at + n = e.at /\ e \in C
      BY <2>1
    <3> QED
      BY <3>1, <3>2, <3>3, <1>1 DEF Follows
  <2>6. Follows(C, e.at, next)
    <3>1. e.at < next
      BY <2>1, <2>2, <1>1, <1>3, <1>4
    <3>2. next = PageUnits \/ \E b \in C : next = b.at
      BY <2>1, <1>3 DEF Follows
    <3>3. ASSUME NEW b \in C, e.at < b.at
          PROVE  next <= b.at
      <4>1. b \in B /\ c.at < b.at
        BY <3>3, <2>1, <2>2, <1>1, <1>2
      <4> QED
        BY <4>1 DEF Follows
    <3> QED
      BY <3>1, <3>2, <3>3, <1>3 DEF Follows
  <2>7. Rest(c, n, next) = c.at + n
    BY <1>6 DEF Rest
  <2>8. \A a \in Int : Follows(B, a, c.at) => Follows(C, a, Rest(c, n, next))
    BY <2>5, <2>7
  <2>9. \A b \in C : b \notin B => Follows(C, b.at, next)
    BY <2>1, <2>6
  <2>10. Rest(c, n, next) \in Int /\ c.at < Rest(c, n, next)
    BY <2>7, <1>1
  <2>11. \A a \in Int : \A x :
              Follows(B, a, x) /\ x # c.at /\ (a < c.at \/ a >= c.at + c.units)
                 => Follows(C, a, x)
    BY <2>4
  <2> QED
    BY <2>3, <2>8, <2>9, <2>10, <2>11
<1> QED
  BY <1>5, <1>6

\* prev is where the block before c starts, or NULL if there is none.
Before(B, c, prev) ==
    \/ prev = Nil /\ Follows(B, -1, c.at)
    \/ \E p \in B : prev = p.at /\ Follows(B, p.at, c.at)

(* Taking the first n units off a block: unlinking it if that is all of it,  *)
(* and else a shorter block in its place.                                   *)
LEMMA CutBlock ==
    ASSUME NEW m \in [Units -> Int], NEW fl, NEW B, Apart(B, 0), Lists(m, fl, B),
           NEW c \in B, NEW n \in Int, 1 <= n, n <= c.units,
           NEW C, Cut(B, c, n, C), NEW next, next = slob_next(m, c.at),
           NEW prev, Before(B, c, prev), NEW rest, rest = Rest(c, n, next),
           NEW m2, m2 = IF prev = Nil THEN m ELSE set_slob(m, prev, slob_units(m, prev), rest),
           NEW k, k = IF c.units = n THEN m2 ELSE set_slob(m2, c.at + n, c.units - n, next)
    PROVE  /\ k \in [Units -> Int]
           /\ Apart(C, 0)
           /\ Lists(k, IF prev = Nil THEN rest ELSE fl, C)
           /\ \A u \in Units : u \notin Covered(B) => k[u] = m[u]
<1> DEFINE fl2 == IF prev = Nil THEN rest ELSE fl
<1>1. /\ B \in SUBSET Block /\ c \in Block
      /\ c.at \in Int /\ 0 <= c.at /\ c.units \in Int /\ c.at + c.units <= PageUnits
  BY ApartBlock
<1>2. \A b \in B : /\ b.at \in Int /\ 0 <= b.at /\ b.units \in Int /\ 1 <= b.units
                   /\ b.at + b.units <= PageUnits
                   /\ b # c => b.at + b.units <= c.at \/ c.at + c.units <= b.at
  BY ApartBlock
<1>3. Follows(B, c.at, next) /\ next \in Int
  BY <1>1, ReadListed DEF Follows
<1>4. /\ Apart(C, 0)
      /\ \A a \in Int : \A x :
            Follows(B, a, x) /\ x # c.at /\ (a < c.at \/ a >= c.at + c.units)
               => Follows(C, a, x)
      /\ \A a \in Int : Follows(B, a, c.at) => Follows(C, a, rest)
      /\ \A e \in C : e \notin B => Follows(C, e.at, next)
      /\ rest \in Int
  BY <1>3, CutFollows
<1>5. c \notin C
  BY <1>1 DEF Cut
<1>6. \A b \in B : b \in C \/ b = c
  BY DEF Cut
<1>7. \A u \in Units : u \in Int
  BY PageUnitsAssumption DEF Units
<1>8. \A b \in B, u \in Units : u \notin Covered(B) => ~(b.at <= u /\ u < b.at + b.units)
  BY <1>1, <1>7, CoveredUnit
<1>9. /\ m2 \in [Units -> Int]
      /\ Follows(C, -1, fl2)
      /\ \A b \in B \ {c} : \E x \in Int : Follows(C, b.at, x) /\ Encodes(m2, b.at, b.units, x)
      /\ \A u \in Units : u \notin Covered(B) => m2[u] = m[u]
  <2>1. CASE prev = Nil
    <3>1. Follows(B, -1, c.at)
      <4>1. \A p \in B : p.at # Nil
        BY <1>2, NilAssumption
      <4> QED
        BY <2>1, <4>1 DEF Before
    <3>2. m2 = m /\ fl2 = rest /\ -1 \in Int
      BY <2>1
    <3>3. Follows(C, -1, rest)
      BY <3>1, <3>2, <1>4
    <3>4. ASSUME NEW b \in B \ {c}
          PROVE  \E x \in Int : Follows(C, b.at, x) /\ Encodes(m, b.at, b.units, x)
      <4>1. PICK x \in Int : Follows(B, b.at, x) /\ Encodes(m, b.at, b.units, x)
        BY DEF Lists
      <4>2. c.at <= b.at /\ b.at < x
        BY <3>1, <4>1, <1>1, <1>2 DEF Follows
      <4>3. Follows(C, b.at, x)
        BY <4>1, <4>2, <1>1, <1>2, <1>4
      <4> QED
        BY <4>1, <4>3
    <3> QED
      BY <3>2, <3>3, <3>4
  <2>2. CASE prev # Nil
    <3>1. PICK p \in B : prev = p.at /\ Follows(B, p.at, c.at)
      BY <2>2 DEF Before
    <3>2. p # c /\ p.at < c.at
      BY <3>1, <1>1, <1>2 DEF Follows
    <3>3. m2 = set_slob(m, p.at, p.units, rest) /\ fl2 = fl
      BY <2>2, <3>1, <1>1, ReadListed
    <3>4. /\ m2 \in [Units -> Int]
          /\ Encodes(m2, p.at, p.units, rest)
          /\ \A b \in B, y \in Int :
                b # p /\ Encodes(m, b.at, b.units, y) => Encodes(m2, b.at, b.units, y)
          /\ \A u \in Units : ~(p.at <= u /\ u < p.at + p.units) => m2[u] = m[u]
      <4>1. Wrote(m2, m, B, p, rest)
        BY <3>3, <1>4, WriteBlock
      <4> QED
        BY <4>1 DEF Wrote
    <3>5. Follows(C, -1, fl)
      <4>1. Follows(B, -1, fl) /\ -1 \in Int /\ -1 < c.at
        BY <1>1 DEF Lists
      <4>2. fl <= p.at
        BY <4>1, <1>2 DEF Follows
      <4>3. fl # c.at
        BY <4>2, <3>2, <1>1, <1>2
      <4> QED
        BY <4>1, <4>3, <1>4
    <3>6. ASSUME NEW b \in B \ {c}, b # p
          PROVE  \E x \in Int : Follows(C, b.at, x) /\ Encodes(m2, b.at, b.units, x)
      <4>1. PICK x \in Int : Follows(B, b.at, x) /\ Encodes(m, b.at, b.units, x)
        BY DEF Lists
      <4>2. x # c.at
        <5> SUFFICES ASSUME x = c.at
                     PROVE  FALSE
          OBVIOUS
        <5>1. b.at < c.at /\ p.at < c.at
          BY <3>2, <4>1 DEF Follows
        <5>2. ~(b.at < p.at)
          BY <4>1, <5>1, <3>1, <1>1, <1>2 DEF Follows
        <5>3. ~(p.at < b.at)
          BY <5>1, <3>1, <1>1, <1>2 DEF Follows
        <5>4. b.at + b.units <= p.at \/ p.at + p.units <= b.at
          BY <3>6, ApartBlock
        <5> QED
          BY <5>2, <5>3, <5>4, <1>2
      <4>3. Follows(C, b.at, x)
        BY <4>1, <4>2, <1>1, <1>2, <1>4
      <4>4. Encodes(m2, b.at, b.units, x)
        BY <3>4, <3>6, <4>1
      <4> QED
        BY <4>3, <4>4
    <3>7. Follows(C, p.at, rest)
      BY <3>1, <1>2, <1>4
    <3>8. \A u \in Units : u \notin Covered(B) => m2[u] = m[u]
      BY <1>8, <3>4
    <3>9. \A b \in B \ {c} : \E x \in Int : Follows(C, b.at, x) /\ Encodes(m2, b.at, b.units, x)
      <4>1. \E x \in Int : Follows(C, p.at, x) /\ Encodes(m2, p.at, p.units, x)
        BY <3>4, <3>7, <1>4
      <4> QED
        BY <3>6, <4>1
    <3> QED
      BY <3>3, <3>4, <3>5, <3>8, <3>9
  <2> QED
    BY <2>1, <2>2
<1> HIDE DEF fl2
<1>10. CASE c.units = n
  <2>1. k = m2 /\ C = B \ {c}
    BY <1>10 DEF Cut
  <2> QED
    BY <2>1, <1>4, <1>9 DEF Lists, fl2
<1>11. CASE c.units # n
  <2>1. PICK e \in Block : C = (B \ {c}) \cup {e} /\ e.at = c.at + n /\ e.units = c.units - n
    BY <1>11 DEF Cut
  <2>2. k = set_slob(m2, e.at, e.units, next)
    BY <1>11, <2>1
  <2>3. e \in C /\ e \notin B
    <3>1. e.at \in Int /\ e.units \in Int /\ 1 <= e.units /\ e # c
      BY <2>1, <1>1, BlockType
    <3> QED
      BY <3>1, <2>1, <1>1, <1>2
  <2>4. /\ k \in [Units -> Int]
        /\ Encodes(k, e.at, e.units, next)
        /\ \A b \in C, y \in Int :
              b # e /\ Encodes(m2, b.at, b.units, y) => Encodes(k, b.at, b.units, y)
        /\ \A u \in Units : ~(e.at <= u /\ u < e.at + e.units) => k[u] = m2[u]
    <3>1. Wrote(k, m2, C, e, next)
      BY <2>2, <2>3, <1>3, <1>4, <1>9, WriteBlock
    <3> QED
      BY <3>1 DEF Wrote
  <2>5. ASSUME NEW b \in C
        PROVE  \E x \in Int : Follows(C, b.at, x) /\ Encodes(k, b.at, b.units, x)
    <3>1. CASE b = e
      BY <3>1, <2>3, <2>4, <1>3, <1>4
    <3>2. CASE b # e
      BY <3>2, <2>1, <2>4, <1>9
    <3> QED
      BY <3>1, <3>2
  <2>6. \A u \in Units : u \notin Covered(B) => k[u] = m[u]
    BY <1>1, <1>7, <1>8, <1>9, <2>1, <2>4
  <2> QED
    BY <2>4, <2>5, <2>6, <1>4, <1>9 DEF Lists, fl2
<1> QED
  BY <1>10, <1>11

\* The blocks of C are those of B, but for n units of h after the first d.
Carved(B, h, d, n, C) ==
    \E H, N : /\ C = (B \ {h}) \cup H \cup N
              /\ IF d = 0 THEN H = {}
                 ELSE \E e \in Block : H = {e} /\ e.at = h.at /\ e.units = d
              /\ IF d + n = h.units THEN N = {}
                 ELSE \E e \in Block : N = {e} /\ e.at = h.at + d + n /\ e.units = h.units - d - n

(* An allocation out of hole h leaves the holes around it.                   *)
LEMMA CarvedHoles ==
    ASSUME NEW free \in SUBSET Units, NEW h \in Holes(free), NEW d \in Int, NEW n \in Int,
           0 <= d, 1 <= n, d + n <= h.units, NEW C, Carved(Holes(free), h, d, n, C)
    PROVE  C = Holes(free \ Span(h.at + d, n))
<1> DEFINE B == Holes(free)
           used == Span(h.at + d, n)
<1>1. Apart(B, 1) /\ Covered(B) = free
  BY HolesApart
<1>2. B \in SUBSET Block /\ h \in Block
  BY HoleFacts
<1> HIDE DEF B
<1>3. /\ h \in B /\ h.at \in Int /\ h.units \in Int /\ 0 <= h.at /\ h.at + h.units <= PageUnits
      /\ PageUnits \in Int
  BY <1>1, <1>2, BlockType, PageUnitsAssumption DEF B, Apart
<1>4. \A b \in B : /\ b.at \in Int /\ b.units \in Int /\ 1 <= b.units
                   /\ b.at + b.units <= PageUnits
                   /\ b # h => \/ b.at + b.units + 1 <= h.at
                               \/ h.at + h.units + 1 <= b.at
  BY <1>1, <1>2, <1>3, BlockType DEF Apart
<1>5. PICK H, N :
        /\ C = (B \ {h}) \cup H \cup N
        /\ IF d = 0 THEN H = {}
           ELSE \E e \in Block : H = {e} /\ e.at = h.at /\ e.units = d
        /\ IF d + n = h.units THEN N = {}
           ELSE \E e \in Block : N = {e} /\ e.at = h.at + d + n /\ e.units = h.units - d - n
  BY DEF Carved, B
<1>6. \A e \in H : /\ e \in Block /\ e.at = h.at /\ e.units = d /\ 1 <= d
  BY <1>5, BlockType
<1>7. \A e \in N : /\ e \in Block /\ e.at = h.at + d + n /\ e.units = h.units - d - n
                   /\ d + n < h.units
  BY <1>3, <1>5, BlockType
<1>8. Apart(C, 1)
  <2>1. C \subseteq Block
    BY <1>2, <1>5, <1>6, <1>7
  <2>2. ASSUME NEW b \in C
        PROVE  b.at + b.units <= PageUnits
    <3>1. CASE b \in B
      BY <3>1, <1>4
    <3>2. CASE b \in H
      BY <3>2, <1>3, <1>6
    <3>3. CASE b \in N
      BY <3>3, <1>3, <1>7
    <3> QED
      BY <3>1, <3>2, <3>3, <1>5
  <2>3. ASSUME NEW a \in C, NEW b \in C, a # b
        PROVE  a.at + a.units + 1 <= b.at \/ b.at + b.units + 1 <= a.at
    <3>1. CASE a \in B \ {h} /\ b \in B \ {h}
      BY <3>1, <2>3, <1>1 DEF Apart
    <3>2. CASE a \in B \ {h} /\ b \in H
      BY <3>2, <1>3, <1>4, <1>6
    <3>3. CASE a \in B \ {h} /\ b \in N
      BY <3>3, <1>3, <1>4, <1>7
    <3>4. CASE a \in H /\ b \in B \ {h}
      BY <3>4, <1>3, <1>4, <1>6
    <3>5. CASE a \in N /\ b \in B \ {h}
      BY <3>5, <1>3, <1>4, <1>7
    <3>6. CASE a \in H /\ b \in N
      BY <3>6, <1>3, <1>6, <1>7
    <3>7. CASE a \in N /\ b \in H
      BY <3>7, <1>3, <1>6, <1>7
    <3>8. ~(a \in H /\ b \in H)
      BY <2>3, <1>5
    <3>9. ~(a \in N /\ b \in N)
      BY <2>3, <1>5
    <3> QED
      BY <3>1, <3>2, <3>3, <3>4, <3>5, <3>6, <3>7, <3>8, <3>9, <1>5
  <2> QED
    BY <2>1, <2>2, <2>3 DEF Apart
<1>9. ASSUME NEW u \in Covered(C)
      PROVE  u \in free \ used
  <2>1. C \in SUBSET Block
    BY <1>8 DEF Apart
  <2>2. u \in Int /\ \E b \in C : b.at <= u /\ u < b.at + b.units
    BY <2>1, CoveredUnit
  <2>3. PICK b \in C : b.at <= u /\ u < b.at + b.units
    BY <2>2
  <2>4. CASE b \in B \ {h}
    <3>1. u \in free
      BY <2>2, <2>3, <2>4, <1>1, <1>2, CoveredUnit
    <3>2. u \notin used
      BY <2>2, <2>3, <2>4, <1>3, <1>4 DEF Span
    <3> QED
      BY <3>1, <3>2
  <2>5. CASE b \in H \cup N
    <3>1. h.at <= u /\ u < h.at + h.units /\ u \notin used
      BY <2>2, <2>3, <2>5, <1>3, <1>6, <1>7 DEF Span
    <3>2. u \in free
      BY <2>2, <3>1, <1>1, <1>2, <1>3, CoveredUnit
    <3> QED
      BY <3>1, <3>2
  <2> QED
    BY <2>4, <2>5, <1>5
<1>10. ASSUME NEW u \in free \ used
       PROVE  u \in Covered(C)
  <2>1. u \in Int /\ \E b \in B : b.at <= u /\ u < b.at + b.units
    BY <1>1, <1>2, CoveredUnit
  <2>2. PICK b \in B : b.at <= u /\ u < b.at + b.units
    BY <2>1
  <2>3. \E e \in C : e.at <= u /\ u < e.at + e.units
    <3>1. CASE b # h
      BY <3>1, <2>2, <1>5
    <3>2. CASE b = h
      <4>1. u < h.at + d \/ h.at + d + n <= u
        BY <2>1, <1>3 DEF Span
      <4>2. CASE u < h.at + d
        <5>1. d # 0
          BY <4>2, <3>2, <2>1, <2>2, <1>3
        <5>2. PICK e \in H : TRUE
          BY <5>1, <1>5
        <5> QED
          BY <5>2, <4>2, <3>2, <2>2, <1>5, <1>6
      <4>3. CASE h.at + d + n <= u
        <5>1. d + n # h.units
          BY <4>3, <3>2, <2>1, <2>2, <1>3
        <5>2. PICK e \in N : TRUE
          BY <5>1, <1>5
        <5>3. e.at <= u /\ u < e.at + e.units
          BY <5>2, <4>3, <3>2, <2>1, <2>2, <1>3, <1>7
        <5> QED
          BY <5>2, <5>3, <1>5
      <4> QED
        BY <4>1, <4>2, <4>3
    <3> QED
      BY <3>1, <3>2
  <2>4. C \in SUBSET Block
    BY <1>8 DEF Apart
  <2> QED
    BY <2>1, <2>3, <2>4, CoveredUnit
<1> QED
  <2>1. Covered(C) = free \ used /\ free \ used \in SUBSET Units
    BY <1>9, <1>10
  <2> QED
    BY <2>1, <1>8, OnlyHoles

(* The block ahead of the i-th on the list, as the scan remembers it.        *)
LEMMA PrevIsBefore ==
    ASSUME NEW m \in [Units -> Int], NEW fl, NEW B \in SUBSET Block, Lists(m, fl, B),
           NEW w, w = Walk(m, fl), NEW i \in 0 .. PageUnits, NEW h \in B, w[i] = h.at
    PROVE  Before(B, h, Prev(w, i, 0))
<1>1. CASE i = 0
  <2>1. Follows(B, -1, h.at)
    BY <1>1, WalkSteps DEF Lists
  <2>2. Prev(w, i, 0) = Nil
    BY <1>1 DEF Prev
  <2> QED
    BY <2>1, <2>2 DEF Before
<1>2. CASE i # 0
  <2>1. i - 1 \in 0 .. PageUnits - 1 /\ (i - 1) + 1 = i /\ i - 1 \in 0 .. PageUnits
    BY <1>2, PageUnitsAssumption
  <2>2. w[i - 1] # PageUnits
    <3>1. w[i] # PageUnits
      BY BlockType
    <3> QED
      BY <2>1, <3>1, WalkSteps
  <2>3. PICK p \in B : w[i - 1] = p.at
    BY <2>1, <2>2, WalkSteps DEF Stop
  <2>4. Follows(B, w[i - 1], w[(i - 1) + 1])
    BY <2>1, <2>2, WalkSteps
  <2>5. Follows(B, p.at, h.at)
    BY <2>1, <2>3, <2>4
  <2>6. Prev(w, i, 0) = w[i - 1]
    BY <1>2 DEF Prev
  <2> QED
    BY <2>3, <2>5, <2>6 DEF Before
<1> QED
  BY <1>1, <1>2

\* The end of slob_page_alloc: n units off block c, after prev, if any.
Unlink(m, fl, prev, c, n) ==
    LET next == slob_next(m, c)
        rest == IF slob_units(m, c) = n THEN next ELSE c + n
        m2 == IF prev = Nil THEN m ELSE set_slob(m, prev, slob_units(m, prev), rest)
    IN  [mem |-> IF slob_units(m, c) = n THEN m2
                 ELSE set_slob(m2, c + n, slob_units(m, c) - n, next),
         freelist |-> IF prev = Nil THEN rest ELSE fl,
         block |-> c]

(* Take is that end, on the whole block if it is aligned, and else on its     *)
(* tail, once its head is split off.                                        *)
LEMMA TakeAligned ==
    ASSUME NEW m, NEW fl, NEW w, NEW i, NEW n, NEW align, Delta(w[i], align) = 0
    PROVE  Take(m, fl, w, i, n, align) = Unlink(m, fl, Prev(w, i, 0), w[i] + 0, n)
  BY DEF Take, Unlink

(* ... on the tail of the block, when its head had to be split off.         *)
LEMMA TakeUnaligned ==
    ASSUME NEW m, NEW fl, NEW w, NEW i, NEW n, NEW align,
           NEW d, d = Delta(w[i], align), d # 0
    PROVE  Take(m, fl, w, i, n, align) =
              Unlink(set_slob(set_slob(m, w[i] + d, slob_units(m, w[i]) - d,
                                       slob_next(m, w[i])), w[i], d, w[i] + d),
                     fl, Prev(w, i, d), w[i] + d, n)
  BY DEF Take, Unlink

(* It cuts the first n units off that block.                                 *)
LEMMA UnlinkCuts ==
    ASSUME NEW m \in [Units -> Int], NEW fl, NEW B, Apart(B, 0), Lists(m, fl, B),
           NEW c \in B, NEW n \in Int, 1 <= n, n <= c.units,
           NEW prev, Before(B, c, prev), NEW t, t = Unlink(m, fl, prev, c.at, n)
    PROVE  /\ t.block = c.at
           /\ t.mem \in [Units -> Int]
           /\ \A u \in Units : u \notin Covered(B) => t.mem[u] = m[u]
           /\ \E C : Cut(B, c, n, C) /\ Apart(C, 0) /\ Lists(t.mem, t.freelist, C)
<1>1. /\ B \in SUBSET Block /\ c \in Block
      /\ c.at \in Int /\ 0 <= c.at /\ c.units \in Int /\ c.at + c.units <= PageUnits
  BY ApartBlock
<1>2. slob_units(m, c.at) = c.units
  BY <1>1, ReadListed
<1> DEFINE next == slob_next(m, c.at)
           rest == Rest(c, n, next)
           m2 == IF prev = Nil THEN m ELSE set_slob(m, prev, slob_units(m, prev), rest)
           k == IF c.units = n THEN m2 ELSE set_slob(m2, c.at + n, c.units - n, next)
<1>3. /\ t.block = c.at
      /\ t.mem = k
      /\ t.freelist = IF prev = Nil THEN rest ELSE fl
  BY <1>2 DEF Unlink, Rest
<1>4. PICK C : Cut(B, c, n, C)
  <2>1. CASE n = c.units
    <3> DEFINE C == (B \ {c}) \cup {}
    <3>1. Cut(B, c, n, C)
      BY <2>1 DEF Cut
    <3> QED
      BY <3>1
  <2>2. CASE n # c.units
    <3> DEFINE e == [at |-> c.at + n, units |-> c.units - n]
               C == (B \ {c}) \cup {e}
    <3>1. e \in Block
      <4>1. c.at + n \in Int /\ 0 <= c.at + n
        BY <1>1
      <4>2. c.units - n \in Int /\ 1 <= c.units - n /\ (c.at + n) + (c.units - n) <= PageUnits
        BY <1>1, <2>2, PageUnitsAssumption
      <4> QED
        BY <4>1, <4>2, NewBlock
    <3>2. e.at = c.at + n /\ e.units = c.units - n
      OBVIOUS
    <3> HIDE DEF e
    <3>3. Cut(B, c, n, C)
      BY <2>2, <3>1, <3>2 DEF Cut
    <3> QED
      BY <3>3
  <2> QED
    BY <2>1, <2>2
<1> HIDE DEF next, rest, m2, k
<1>5. /\ k \in [Units -> Int]
      /\ Apart(C, 0)
      /\ Lists(k, IF prev = Nil THEN rest ELSE fl, C)
      /\ \A u \in Units : u \notin Covered(B) => k[u] = m[u]
  BY <1>4, CutBlock DEF next, rest, m2, k
<1> QED
  BY <1>3, <1>4, <1>5

(* slob_page_alloc, once it has settled on the i-th block of the list: the   *)
(* memory then lists the holes that the allocation leaves, and none of the   *)
(* memory that was not free has changed.                                    *)
LEMMA TakeCorrect ==
    ASSUME NEW m \in [Units -> Int], NEW fl, NEW free \in SUBSET Units,
           Lists(m, fl, Holes(free)), NEW w, w = Walk(m, fl),
           NEW n \in Nat \ {0}, NEW align \in Nat, NEW i \in BestLinks(m, w, n, align),
           NEW t, t = Take(m, fl, w, i, n, align)
    PROVE  /\ \E h \in BestFit(Holes(free), n, align) : t.block = Placed(h, align)
           /\ t.mem \in [Units -> Int]
           /\ Lists(t.mem, t.freelist, Holes(free \ Span(t.block, n)))
           /\ \A u \in Units : u \notin free => t.mem[u] = m[u]
<1> DEFINE B == Holes(free)
<1>1. Apart(B, 1) /\ Covered(B) = free /\ Lists(m, fl, B)
  BY HolesApart
<1>2. i \in 0 .. PageUnits /\ \E h \in BestFit(B, n, align) : w[i] = h.at
  BY BestLinkIsBestFit
<1>3. PICK h \in BestFit(B, n, align) : w[i] = h.at
  BY <1>2
<1>4. h \in B /\ Fits(h, n, align)
  BY DEF BestFit, Fitting
<1>5. h \in Holes(free)
  BY <1>4
<1> HIDE DEF B
<1>6. B \in SUBSET Block /\ Apart(B, 0)
  <2>1. \A b \in B : b.at \in Int /\ b.units \in Int
    BY <1>1, BlockType DEF Apart
  <2> QED
    BY <2>1, <1>1 DEF Apart
<1>7. /\ h.at \in Int /\ 0 <= h.at /\ h.units \in Int /\ h.at + h.units <= PageUnits
  BY <1>4, <1>6, ApartBlock
<1>8. PICK d \in Nat : d = Delta(h.at, align)
  BY <1>7, DeltaType
<1>9. d + n <= h.units
  BY <1>4, <1>7, <1>8 DEF Fits
<1>10. Placed(h, align) = h.at + d
  BY <1>8 DEF Placed
<1>11. \A u \in Units : u \notin free =>
          u \notin Covered(B) /\ ~(h.at <= u /\ u < h.at + h.units)
  <2>1. \A u \in Units : u \in Int
    BY PageUnitsAssumption DEF Units
  <2> QED
    BY <2>1, <1>1, <1>4, <1>6, CoveredUnit
<1>12. CASE d = 0
  <2>1. t = Unlink(m, fl, Prev(w, i, 0), h.at, n)
    <3>1. w[i] + 0 = h.at
      BY <1>3, <1>7
    <3>2. Delta(w[i], align) = 0
      BY <1>3, <1>8, <1>12
    <3>3. t = Unlink(m, fl, Prev(w, i, 0), w[i] + 0, n)
      BY <3>2, TakeAligned
    <3> QED
      BY <3>1, <3>3
  <2>2. Before(B, h, Prev(w, i, 0))
    BY <1>1, <1>2, <1>3, <1>4, <1>6, PrevIsBefore
  <2>3. /\ t.block = h.at
        /\ t.mem \in [Units -> Int]
        /\ \A u \in Units : u \notin Covered(B) => t.mem[u] = m[u]
        /\ \E C : Cut(B, h, n, C) /\ Apart(C, 0) /\ Lists(t.mem, t.freelist, C)
    BY <2>1, <2>2, <1>1, <1>4, <1>6, <1>9, <1>12, UnlinkCuts
  <2>4. PICK C : Cut(B, h, n, C) /\ Lists(t.mem, t.freelist, C)
    BY <2>3
  <2>5. Carved(B, h, d, n, C)
    <3>1. PICK N : /\ C = (B \ {h}) \cup N
                   /\ IF n = h.units THEN N = {}
                      ELSE \E e \in Block : N = {e} /\ e.at = h.at + n /\ e.units = h.units - n
      BY <2>4 DEF Cut
    <3>2. C = (B \ {h}) \cup {} \cup N
      BY <3>1
    <3>3. d + n = n /\ h.at + d + n = h.at + n /\ h.units - d - n = h.units - n
      BY <1>7, <1>12
    <3>4. IF d + n = h.units THEN N = {}
          ELSE \E e \in Block : N = {e} /\ e.at = h.at + d + n /\ e.units = h.units - d - n
      BY <3>1, <3>3
    <3> QED
      BY <3>2, <3>4, <1>12 DEF Carved
  <2>6. C = Holes(free \ Span(h.at + d, n))
    BY <2>5, <1>5, <1>9, CarvedHoles DEF B
  <2> QED
    BY <2>3, <2>4, <2>6, <1>3, <1>7, <1>10, <1>11, <1>12 DEF B
<1>13. CASE d # 0
  <2> DEFINE head == [at |-> h.at, units |-> d]
             tail == [at |-> h.at + d, units |-> h.units - d]
             A == (B \ {h}) \cup {head, tail}
             next == slob_next(m, h.at)
             m1 == set_slob(set_slob(m, h.at + d, h.units - d, next), h.at, d, h.at + d)
  <2>1. head \in Block /\ tail \in Block /\ 0 < d /\ d < h.units
    <3>1. 1 <= d /\ d < h.units /\ 1 <= h.units - d
      BY <1>7, <1>9, <1>13
    <3>2. h.at + d <= PageUnits /\ (h.at + d) + (h.units - d) <= PageUnits
      BY <3>1, <1>7, PageUnitsAssumption
    <3> QED
      BY <3>1, <3>2, <1>7, NewBlock
  <2>2. /\ head.at = h.at /\ head.units = d
        /\ tail.at = h.at + d /\ tail.units = h.units - d
    OBVIOUS
  <2> HIDE DEF head, tail
  <2>3. /\ m1 \in [Units -> Int]
        /\ Apart(A, 0)
        /\ Lists(m1, fl, A)
        /\ Follows(A, head.at, tail.at)
        /\ \A u \in Units : ~(h.at <= u /\ u < h.at + h.units) => m1[u] = m[u]
    BY <2>1, <2>2, <1>1, <1>4, <1>6, SplitHead
  <2>4. t = Unlink(m1, fl, Prev(w, i, d), tail.at, n)
    <3>1. w[i] + d = tail.at /\ slob_units(m, w[i]) = h.units
      BY <2>2, <1>1, <1>3, <1>4, <1>6, ReadListed
    <3>2. t = Unlink(set_slob(set_slob(m, w[i] + d, slob_units(m, w[i]) - d,
                                       slob_next(m, w[i])), w[i], d, w[i] + d),
                     fl, Prev(w, i, d), w[i] + d, n)
      BY <1>3, <1>8, <1>13, TakeUnaligned
    <3> QED
      BY <3>1, <3>2, <1>3
  <2>5. Before(A, tail, Prev(w, i, d))
    <3>1. Prev(w, i, d) = head.at
      BY <2>2, <1>3, <1>13 DEF Prev
    <3>2. head \in A
      OBVIOUS
    <3> QED
      BY <3>1, <3>2, <2>3 DEF Before
  <2>6. tail \in A /\ n <= tail.units
    BY <2>2, <1>7, <1>9
  <2>7. /\ t.block = tail.at
        /\ t.mem \in [Units -> Int]
        /\ \A u \in Units : u \notin Covered(A) => t.mem[u] = m1[u]
        /\ \E C : Cut(A, tail, n, C) /\ Apart(C, 0) /\ Lists(t.mem, t.freelist, C)
    <3> HIDE DEF A, m1
    <3> QED
      BY <2>3, <2>4, <2>5, <2>6, UnlinkCuts
  <2>8. PICK C : Cut(A, tail, n, C) /\ Lists(t.mem, t.freelist, C)
    BY <2>7
  <2>9. Carved(B, h, d, n, C)
    <3>1. PICK N : /\ C = (A \ {tail}) \cup N
                   /\ IF n = tail.units THEN N = {}
                      ELSE \E e \in Block : N = {e} /\ e.at = tail.at + n /\ e.units = tail.units - n
      BY <2>8 DEF Cut
    <3>2. tail \notin B /\ tail # head
      <4>1. \A b \in B : b.at # h.at + d
        <5>1. \A b \in B : b # h => \/ b.at + b.units <= h.at
                                    \/ h.at + h.units <= b.at
          BY <1>4, <1>6, ApartBlock
        <5>2. \A b \in B : b.at \in Int /\ b.units \in Int /\ 1 <= b.units
          BY <1>6, ApartBlock
        <5> QED
          BY <5>1, <5>2, <2>1, <1>7
      <4> QED
        BY <4>1, <2>1, <2>2, <1>7
    <3>3. C = (B \ {h}) \cup {head} \cup N
      BY <3>1, <3>2
    <3>4. tail.units = h.units - d /\ tail.at + n = h.at + d + n
          /\ tail.units - n = h.units - d - n /\ (n = tail.units <=> d + n = h.units)
      BY <2>2, <1>7
    <3>5. IF d + n = h.units THEN N = {}
          ELSE \E e \in Block : N = {e} /\ e.at = h.at + d + n /\ e.units = h.units - d - n
      BY <3>1, <3>4
    <3>6. \E e \in Block : {head} = {e} /\ e.at = h.at /\ e.units = d
      BY <2>1, <2>2
    <3> HIDE DEF A
    <3> QED
      BY <3>3, <3>5, <3>6, <1>13 DEF Carved
  <2>10. C = Holes(free \ Span(h.at + d, n))
    BY <2>9, <1>5, <1>9, CarvedHoles DEF B
  <2>11. \A u \in Units : u \notin free => u \notin Covered(A) /\ m1[u] = m[u]
    <3>1. A \in SUBSET Block
      BY <2>3 DEF Apart
    <3>2. ASSUME NEW u \in Units, u \notin free
          PROVE  u \notin Covered(A)
      <4>1. u \in Int /\ ~(h.at <= u /\ u < h.at + h.units) /\ u \notin Covered(B)
        BY <1>11, <3>2, PageUnitsAssumption DEF Units
      <4>2. \A b \in B : ~(b.at <= u /\ u < b.at + b.units)
        BY <4>1, <1>6, CoveredUnit
      <4>3. ~(head.at <= u /\ u < head.at + head.units)
        BY <4>1, <2>1, <2>2, <1>7
      <4>4. ~(tail.at <= u /\ u < tail.at + tail.units)
        BY <4>1, <2>1, <2>2, <1>7
      <4>5. \A b \in A : ~(b.at <= u /\ u < b.at + b.units)
        BY <4>2, <4>3, <4>4
      <4> QED
        BY <4>5, <3>1, CoveredUnit
    <3> QED
      BY <3>2, <2>3, <1>11
  <2>12. \E g \in BestFit(Holes(free), n, align) : t.block = Placed(g, align)
    BY <2>2, <2>7, <1>10 DEF B
  <2>13. Lists(t.mem, t.freelist, Holes(free \ Span(t.block, n)))
    BY <2>2, <2>7, <2>8, <2>10
  <2>14. \A u \in Units : u \notin free => t.mem[u] = m[u]
    BY <2>7, <2>11
  <2> QED
    BY <2>7, <2>12, <2>13, <2>14
<1> QED
  BY <1>12, <1>13

(***************************************************************************)
(* slob_free.                                                               *)
(***************************************************************************)

\* Block o shares no unit with the blocks of B.
Loose(B, o) ==
    /\ o \in Block
    /\ o.at + o.units <= PageUnits
    /\ \A b \in B : b.at + b.units <= o.at \/ o.at + o.units <= b.at

\* Whether the freed block o touches the free block after it.
Touches(o, next) == next # PageUnits /\ o.at + o.units = next

\* e is o with the free block it touches, if any; D is the rest of B.
Joins(B, o, next, D, e) ==
    /\ e \in Block
    /\ e.at = o.at
    /\ IF Touches(o, next)
       THEN \E g \in B : g.at = next /\ D = B \ {g} /\ e.units = o.units + g.units
       ELSE D = B /\ e.units = o.units

\* What the join makes of the blocks and of the links between them: e is at
\* a distance from all that come later, and may touch the one before.
JoinedLinks(B, o, next, D, e, C) ==
    /\ e.at + e.units <= PageUnits
    /\ e \notin D /\ D \subseteq B
    /\ \A b \in D : b.at + b.units <= e.at \/ e.at + e.units + 1 <= b.at
    /\ \A u \in Int : (\E b \in C : b.at <= u /\ u < b.at + b.units)
                      <=> \/ o.at <= u /\ u < o.at + o.units
                          \/ \E b \in B : b.at <= u /\ u < b.at + b.units
    /\ \A a \in Int : \A y :
          /\ Follows(B, a, y)
          /\ a < o.at \/ e.at + e.units <= a
          => IF a < o.at /\ o.at < y THEN Follows(C, a, o.at)
                                     ELSE Follows(C, a, y)
    /\ \A y : (IF Touches(o, next) THEN Follows(B, next, y) ELSE y = next)
                => Follows(C, e.at, y)

(* The freed block, once joined with the one after it, has these links.     *)
LEMMA JoinFollows ==
    ASSUME NEW B, Apart(B, 1), NEW o, Loose(B, o), NEW next, Follows(B, o.at, next),
           NEW D, NEW e, Joins(B, o, next, D, e), NEW C, C = D \cup {e}
    PROVE  JoinedLinks(B, o, next, D, e, C)
<1>1. /\ o.at \in Int /\ 0 <= o.at /\ o.units \in Int /\ 1 <= o.units
      /\ o.at + o.units <= PageUnits /\ PageUnits \in Nat
      /\ e.at = o.at /\ e.units \in Int /\ 1 <= e.units
  BY BlockType, PageUnitsAssumption DEF Loose, Joins
<1>2. \A b \in B : /\ b \in Block /\ b.at \in Int /\ 0 <= b.at
                   /\ b.units \in Int /\ 1 <= b.units
                   /\ b.at + b.units <= PageUnits
                   /\ b.at + b.units <= o.at \/ o.at + o.units <= b.at
  BY BlockType DEF Apart, Loose
<1>3. /\ next \in Int /\ o.at < next /\ next <= PageUnits
      /\ next = PageUnits \/ \E b \in B : next = b.at
      /\ \A b \in B : o.at < b.at => next <= b.at
  BY DEF Follows
<1>4. CASE Touches(o, next)
  <2>1. PICK g \in B : g.at = next /\ D = B \ {g} /\ e.units = o.units + g.units
    BY <1>4 DEF Joins
  <2>2. \A b \in B : b # g => b.at + b.units + 1 <= g.at \/ g.at + g.units + 1 <= b.at
    BY DEF Apart
  <2>3. g.at \in Int /\ g.units \in Int /\ 1 <= g.units /\ g.at + g.units <= PageUnits
        /\ o.at + o.units = g.at /\ e.at + e.units = g.at + g.units
    BY <2>1, <1>1, <1>2, <1>4 DEF Touches
  <2>4. ASSUME NEW b \in D
        PROVE  b.at + b.units <= e.at \/ e.at + e.units + 1 <= b.at
    BY <2>1, <2>2, <2>3, <1>1, <1>2, <1>3
  <2>5. e \notin D
    BY <2>4, <1>1
  <2>6. ASSUME NEW u \in Int
        PROVE  (\E b \in C : b.at <= u /\ u < b.at + b.units)
                  <=> \/ o.at <= u /\ u < o.at + o.units
                      \/ \E b \in B : b.at <= u /\ u < b.at + b.units
    <3>1. (e.at <= u /\ u < e.at + e.units) <=>
             \/ o.at <= u /\ u < o.at + o.units
             \/ g.at <= u /\ u < g.at + g.units
      BY <2>3, <1>1
    <3> QED
      BY <3>1, <2>1
  <2>7. ASSUME NEW a \in Int, NEW y, Follows(B, a, y), a < o.at \/ e.at + e.units <= a
        PROVE  IF a < o.at /\ o.at < y THEN Follows(C, a, o.at) ELSE Follows(C, a, y)
    <3>1. /\ y \in Int /\ a < y /\ y <= PageUnits
          /\ y = PageUnits \/ \E b \in B : y = b.at
          /\ \A b \in B : a < b.at => y <= b.at
      BY <2>7 DEF Follows
    <3>2. CASE a < o.at /\ o.at < y
      <4>1. ASSUME NEW b \in C, a < b.at
            PROVE  o.at <= b.at
        BY <4>1, <3>1, <3>2, <2>1, <1>1, <1>2
      <4> QED
        BY <4>1, <3>2, <1>1 DEF Follows
    <3>3. CASE ~(a < o.at /\ o.at < y)
      <4>1. y # g.at
        BY <3>1, <3>3, <2>3, <2>7, <1>1
      <4>2. y = PageUnits \/ \E b \in C : y = b.at
        BY <4>1, <3>1, <2>1
      <4>3. ASSUME NEW b \in C, a < b.at
            PROVE  y <= b.at
        BY <4>3, <3>1, <3>3, <2>1, <2>3, <2>7, <1>1, <1>2
      <4> QED
        BY <4>2, <4>3, <3>1, <3>3 DEF Follows
    <3> QED
      BY <3>2, <3>3
  <2>8. ASSUME NEW y, Follows(B, next, y)
        PROVE  Follows(C, e.at, y)
    <3>1. /\ y \in Int /\ g.at < y /\ y <= PageUnits
          /\ y = PageUnits \/ \E b \in B : y = b.at
          /\ \A b \in B : g.at < b.at => y <= b.at
      BY <2>1, <2>8 DEF Follows
    <3>2. y = PageUnits \/ \E b \in C : y = b.at
      BY <3>1, <2>1, <2>3
    <3>3. ASSUME NEW b \in C, e.at < b.at
          PROVE  y <= b.at
      <4>1. b \in B /\ b # g
        BY <3>3, <2>1, <1>1
      <4> QED
        BY <4>1, <3>1, <3>3, <2>1, <2>2, <2>3, <1>1, <1>2, <1>3
    <3> QED
      BY <3>1, <3>2, <3>3, <2>3, <1>1 DEF Follows
  <2>9. e.at + e.units <= PageUnits /\ D \subseteq B
    BY <2>1, <2>3
  <2>10. \A y : (IF Touches(o, next) THEN Follows(B, next, y) ELSE y = next)
                     => Follows(C, e.at, y)
    BY <2>8, <1>4
  <2> QED
    BY <2>4, <2>5, <2>6, <2>7, <2>9, <2>10 DEF JoinedLinks
<1>5. CASE ~Touches(o, next)
  <2>1. D = B /\ e.units = o.units
    BY <1>5 DEF Joins
  <2>2. ASSUME NEW b \in D
        PROVE  b.at + b.units <= e.at \/ e.at + e.units + 1 <= b.at
    <3>1. CASE b.at + b.units <= o.at
      BY <3>1, <1>1
    <3>2. CASE o.at + o.units <= b.at
      <4>1. next <= b.at /\ next # PageUnits
        BY <3>2, <2>1, <1>1, <1>2, <1>3
      <4>2. PICK g \in B : next = g.at
        BY <4>1, <1>3
      <4>3. o.at + o.units <= next /\ o.at + o.units # next
        BY <4>1, <4>2, <1>1, <1>2, <1>3, <1>5 DEF Touches
      <4> QED
        BY <4>1, <4>3, <2>1, <1>1, <1>2, <1>3
    <3> QED
      BY <3>1, <3>2, <2>1, <1>2
  <2>3. e \notin D
    BY <2>2, <1>1
  <2>4. ASSUME NEW u \in Int
        PROVE  (\E b \in C : b.at <= u /\ u < b.at + b.units)
                  <=> \/ o.at <= u /\ u < o.at + o.units
                      \/ \E b \in B : b.at <= u /\ u < b.at + b.units
    BY <2>1, <1>1
  <2>5. ASSUME NEW a \in Int, NEW y, Follows(B, a, y), a < o.at \/ e.at + e.units <= a
        PROVE  IF a < o.at /\ o.at < y THEN Follows(C, a, o.at) ELSE Follows(C, a, y)
    <3>1. /\ y \in Int /\ a < y /\ y <= PageUnits
          /\ y = PageUnits \/ \E b \in B : y = b.at
          /\ \A b \in B : a < b.at => y <= b.at
      BY <2>5 DEF Follows
    <3>2. CASE a < o.at /\ o.at < y
      <4>1. ASSUME NEW b \in C, a < b.at
            PROVE  o.at <= b.at
        BY <4>1, <3>1, <3>2, <2>1, <1>1, <1>2
      <4> QED
        BY <4>1, <3>2, <1>1 DEF Follows
    <3>3. CASE ~(a < o.at /\ o.at < y)
      <4>1. y = PageUnits \/ \E b \in C : y = b.at
        BY <3>1, <2>1
      <4>2. ASSUME NEW b \in C, a < b.at
            PROVE  y <= b.at
        BY <4>2, <3>1, <3>3, <2>1, <2>5, <1>1, <1>2
      <4> QED
        BY <4>1, <4>2, <3>1, <3>3 DEF Follows
    <3> QED
      BY <3>2, <3>3
  <2>6. Follows(C, e.at, next)
    <3>1. next = PageUnits \/ \E b \in C : next = b.at
      BY <2>1, <1>3
    <3>2. ASSUME NEW b \in C, e.at < b.at
          PROVE  next <= b.at
      BY <3>2, <2>1, <1>1, <1>3
    <3> QED
      BY <3>1, <3>2, <1>1, <1>3 DEF Follows
  <2>7. e.at + e.units <= PageUnits /\ D \subseteq B
    BY <2>1, <1>1
  <2>8. \A y : (IF Touches(o, next) THEN Follows(B, next, y) ELSE y = next)
                     => Follows(C, e.at, y)
    BY <2>6, <1>5
  <2> QED
    BY <2>2, <2>3, <2>4, <2>5, <2>7, <2>8 DEF JoinedLinks
<1> QED
  BY <1>4, <1>5

\* Memory k is m with o freed and joined into e, which says that x is next.
Joined(k, m, B, o, next, D, e, x) ==
    /\ Joins(B, o, next, D, e)
    /\ k \in [Units -> Int]
    /\ x \in Int /\ Follows(D \cup {e}, e.at, x) /\ Encodes(k, e.at, e.units, x)
    /\ \A b \in D, y \in Int : Encodes(m, b.at, b.units, y) => Encodes(k, b.at, b.units, y)
    /\ \A u \in Units : ~(o.at <= u /\ u < o.at + o.units) /\ u \notin Covered(B) => k[u] = m[u]

(* The first write of slob_free: the freed block, joined with the one after. *)
LEMMA JoinBlock ==
    ASSUME NEW m \in [Units -> Int], NEW fl, NEW B, Apart(B, 1), Lists(m, fl, B),
           NEW o, Loose(B, o), NEW next, Follows(B, o.at, next),
           NEW k, k = IF Touches(o, next)
                      THEN set_slob(m, o.at, o.units + slob_units(m, next), slob_next(m, next))
                      ELSE set_slob(m, o.at, o.units, next)
    PROVE  \E D, e, x : Joined(k, m, B, o, next, D, e, x) /\ Apart(D \cup {e}, 0)
<1>1. /\ o \in Block /\ o.at \in Int /\ 0 <= o.at /\ o.units \in Int /\ 1 <= o.units
      /\ o.at + o.units <= PageUnits /\ PageUnits \in Nat
  BY BlockType, PageUnitsAssumption DEF Loose
<1>2. B \in SUBSET Block /\ \A b \in B : b.at \in Int /\ b.units \in Int /\ 1 <= b.units
  BY BlockType DEF Apart
<1>3. PICK D, e, x : /\ Joins(B, o, next, D, e)
                     /\ x \in Int
                     /\ k = set_slob(m, e.at, e.units, x)
                     /\ IF Touches(o, next) THEN Follows(B, next, x) ELSE x = next
  <2>1. CASE Touches(o, next)
    <3>1. PICK g \in B : next = g.at
      BY <2>1 DEF Follows, Touches
    <3>2. slob_units(m, next) = g.units /\ Follows(B, next, slob_next(m, next))
      BY <3>1, <1>2, ReadListed
    <3>3. g.at + g.units <= PageUnits
      BY DEF Apart
    <3> DEFINE e == [at |-> o.at, units |-> o.units + g.units]
    <3>4. e \in Block
      <4>1. o.units + g.units \in Int /\ 1 <= o.units + g.units
            /\ o.at + (o.units + g.units) <= PageUnits
        BY <1>1, <1>2, <2>1, <3>1, <3>3 DEF Touches
      <4> QED
        BY <4>1, <1>1, NewBlock
    <3>5. e.at = o.at /\ e.units = o.units + g.units
      OBVIOUS
    <3> HIDE DEF e
    <3>6. Joins(B, o, next, B \ {g}, e)
      BY <2>1, <3>1, <3>4, <3>5 DEF Joins
    <3>7. k = set_slob(m, e.at, e.units, slob_next(m, next))
      BY <2>1, <3>2, <3>5
    <3>8. slob_next(m, next) \in Int
      BY <3>2 DEF Follows
    <3> QED
      BY <2>1, <3>2, <3>6, <3>7, <3>8
  <2>2. CASE ~Touches(o, next)
    <3>1. Joins(B, o, next, B, o)
      BY <2>2, <1>1 DEF Joins
    <3>2. next \in Int
      BY DEF Follows
    <3> QED
      BY <2>2, <3>1, <3>2
  <2> QED
    BY <2>1, <2>2
<1> DEFINE C == D \cup {e}
<1>4. /\ e \in Block /\ e.at = o.at /\ e.at + e.units <= PageUnits /\ e \notin D /\ D \subseteq B
      /\ \A b \in D : b.at + b.units <= e.at \/ e.at + e.units + 1 <= b.at
      /\ \A u \in Int : (\E b \in C : b.at <= u /\ u < b.at + b.units)
                             => \/ o.at <= u /\ u < o.at + o.units
                                \/ \E b \in B : b.at <= u /\ u < b.at + b.units
      /\ Follows(C, e.at, x)
  <2>1. e \in Block /\ e.at = o.at /\ Joins(B, o, next, D, e)
    BY <1>3 DEF Joins
  <2>2. JoinedLinks(B, o, next, D, e, C)
    BY <2>1, JoinFollows
  <2>3. IF Touches(o, next) THEN Follows(B, next, x) ELSE x = next
    BY <1>3
  <2> HIDE DEF C
  <2> QED
    BY <2>1, <2>2, <2>3 DEF JoinedLinks
<1>5. e.at \in Int /\ e.units \in Int
  BY <1>4, BlockType
<1>6. Apart(C, 0)
  <2>1. C \subseteq Block
    BY <1>2, <1>4
  <2>2. \A b \in C : b.at + b.units <= PageUnits
    BY <1>4 DEF Apart
  <2>3. ASSUME NEW a \in C, NEW b \in C, a # b
        PROVE  a.at + a.units + 0 <= b.at \/ b.at + b.units + 0 <= a.at
    <3>1. CASE a = e /\ b \in D
      BY <3>1, <1>2, <1>4, <1>5
    <3>2. CASE b = e /\ a \in D
      BY <3>2, <1>2, <1>4, <1>5
    <3>3. CASE a \in D /\ b \in D
      <4>1. a.at + a.units + 1 <= b.at \/ b.at + b.units + 1 <= a.at
        BY <3>3, <2>3, <1>4 DEF Apart
      <4> QED
        BY <4>1, <3>3, <1>2, <1>4
    <3> QED
      BY <3>1, <3>2, <3>3, <2>3
  <2> QED
    BY <2>1, <2>2, <2>3 DEF Apart
<1> HIDE DEF C
<1>7. /\ k \in [Units -> Int]
      /\ Encodes(k, e.at, e.units, x)
      /\ \A b \in C, y \in Int :
            b # e /\ Encodes(m, b.at, b.units, y) => Encodes(k, b.at, b.units, y)
      /\ \A u \in Units : ~(e.at <= u /\ u < e.at + e.units) => k[u] = m[u]
  <2>1. Wrote(k, m, C, e, x)
    BY <1>3, <1>6, WriteBlock DEF C
  <2> QED
    BY <2>1 DEF Wrote
<1>8. ASSUME NEW u \in Units, ~(o.at <= u /\ u < o.at + o.units), u \notin Covered(B)
      PROVE  k[u] = m[u]
  <2>1. u \in Int
    BY PageUnitsAssumption DEF Units
  <2>2. \A b \in B : ~(b.at <= u /\ u < b.at + b.units)
    BY <2>1, <1>2, <1>8, CoveredUnit
  <2>3. ~(e.at <= u /\ u < e.at + e.units)
    BY <2>1, <2>2, <1>4, <1>8 DEF C
  <2> QED
    BY <2>3, <1>7
<1>9. \A b \in D, y \in Int : Encodes(m, b.at, b.units, y) => Encodes(k, b.at, b.units, y)
  BY <1>4, <1>7 DEF C
<1>10. Joined(k, m, B, o, next, D, e, x)
  BY <1>3, <1>4, <1>7, <1>8, <1>9 DEF Joined, C
<1> QED
  BY <1>6, <1>10 DEF C

(* Nothing was free: the freed block is the list.                            *)
LEMMA OnlyBlock ==
    ASSUME NEW m \in [Units -> Int], NEW o \in Block, o.at + o.units <= PageUnits,
           NEW k, k = set_slob(m, o.at, o.units, PageUnits)
    PROVE  /\ k \in [Units -> Int]
           /\ Lists(k, o.at, Holes(Span(o.at, o.units)))
           /\ \A u \in Units : u \notin Span(o.at, o.units) => k[u] = m[u]
<1>1. /\ o.at \in Int /\ 0 <= o.at /\ o.at < PageUnits /\ o.units \in Int /\ 1 <= o.units
      /\ PageUnits \in Nat
  BY BlockType, PageUnitsAssumption
<1>2. /\ k \in [Units -> Int]
      /\ Encodes(k, o.at, o.units, PageUnits)
      /\ \A u \in Units : ~(o.at <= u /\ u < o.at + o.units) => k[u] = m[u]
  BY <1>1, SetSlob
<1>3. {o} = Holes(Span(o.at, o.units))
  <2>1. Apart({o}, 1)
    BY DEF Apart
  <2>2. Covered({o}) = Span(o.at, o.units)
    BY DEF Covered
  <2>3. Span(o.at, o.units) \in SUBSET Units
    BY <1>1 DEF Span, Units
  <2> QED
    BY <2>1, <2>2, <2>3, OnlyHoles
<1>4. Follows({o}, -1, o.at)
  BY <1>1 DEF Follows
<1>5. Follows({o}, o.at, PageUnits)
  BY <1>1 DEF Follows
<1>6. Lists(k, o.at, {o})
  BY <1>1, <1>2, <1>4, <1>5 DEF Lists
<1>7. \A u \in Units : u \notin Span(o.at, o.units) => k[u] = m[u]
  <2>1. \A u \in Units : u \in Int
    BY <1>1 DEF Units
  <2> QED
    BY <2>1, <1>1, <1>2 DEF Span
<1> QED
  BY <1>2, <1>3, <1>6, <1>7

(* An object shares no unit with the free blocks.                            *)
LEMMA LooseObject ==
    ASSUME NEW free \in SUBSET Units, NEW o \in Block, o.at + o.units <= PageUnits,
           Span(o.at, o.units) \cap free = {}
    PROVE  Loose(Holes(free), o)
<1> SUFFICES ASSUME NEW b \in Holes(free), ~(b.at + b.units <= o.at \/ o.at + o.units <= b.at)
             PROVE  FALSE
  BY DEF Loose
<1>1. /\ b.at \in Int /\ b.units \in Int /\ 1 <= b.units
      /\ o.at \in Int /\ o.units \in Int /\ 1 <= o.units
      /\ \A u \in Int : b.at <= u /\ u < b.at + b.units => u \in free
  BY HoleFacts, BlockType
<1>2. \A u \in Int : o.at <= u /\ u < o.at + o.units => u \notin free
  BY <1>1 DEF Span
<1>3. CASE b.at <= o.at
  BY <1>1, <1>2, <1>3
<1>4. CASE o.at <= b.at
  BY <1>1, <1>2, <1>4
<1> QED
  BY <1>1, <1>3, <1>4

(* Blocks at a distance that hold what was free and the freed object are the *)
(* holes that slob_free leaves.                                             *)
LEMMA FreedHoles ==
    ASSUME NEW free \in SUBSET Units, NEW o \in Block, o.at + o.units <= PageUnits,
           NEW C, Apart(C, 1),
           \A u \in Int : (\E b \in C : b.at <= u /\ u < b.at + b.units)
                          <=> \/ o.at <= u /\ u < o.at + o.units
                              \/ \E b \in Holes(free) : b.at <= u /\ u < b.at + b.units
    PROVE  C = Holes(free \cup Span(o.at, o.units))
<1>1. o.at \in Int /\ 0 <= o.at /\ o.units \in Int /\ PageUnits \in Nat
  BY BlockType, PageUnitsAssumption
<1>2. C \in SUBSET Block /\ Holes(free) \in SUBSET Block /\ Covered(Holes(free)) = free
  BY HolesApart, HoleFacts DEF Apart
<1>3. Covered(C) = free \cup Span(o.at, o.units)
  <2>1. ASSUME NEW u \in Int
        PROVE  u \in Covered(C) <=> u \in free \/ u \in Span(o.at, o.units)
    <3>1. u \in Span(o.at, o.units) <=> o.at <= u /\ u < o.at + o.units
      BY <1>1 DEF Span
    <3>2. u \in Covered(C) <=> \E b \in C : b.at <= u /\ u < b.at + b.units
      BY <1>2, CoveredUnit
    <3>3. u \in free <=> \E b \in Holes(free) : b.at <= u /\ u < b.at + b.units
      BY <1>2, CoveredUnit
    <3> QED
      BY <3>1, <3>2, <3>3
  <2>2. ASSUME NEW u \in Covered(C)
        PROVE  u \in Int
    BY <1>2, CoveredUnit
  <2>3. ASSUME NEW u \in free \cup Span(o.at, o.units)
        PROVE  u \in Int
    BY <1>1 DEF Units, Span
  <2> QED
    BY <2>1, <2>2, <2>3
<1>4. free \cup Span(o.at, o.units) \in SUBSET Units
  <2>1. \A u \in Span(o.at, o.units) : u \in Units
    BY <1>1 DEF Span, Units
  <2> QED
    BY <2>1
<1> QED
  BY <1>3, <1>4, OnlyHoles

\* What slob_free makes of memory m, with the list at fl, when it frees o.
Freed(k, fl, m, free, o) ==
    /\ k \in [Units -> Int]
    /\ Lists(k, fl, Holes(free \cup Span(o.at, o.units)))
    /\ \A u \in Units : u \notin free \cup Span(o.at, o.units) => k[u] = m[u]

(* The object lies before all free blocks: it becomes the first, joined with *)
(* the one that was first if they touch.                                    *)
LEMMA FreeLow ==
    ASSUME NEW m \in [Units -> Int], NEW fl, NEW free \in SUBSET Units,
           Lists(m, fl, Holes(free)), fl # PageUnits,
           NEW o \in Block, o.at + o.units <= PageUnits, Span(o.at, o.units) \cap free = {},
           o.at < fl,
           NEW k, k = IF Adjacent(o.at, o.units, fl)
                      THEN set_slob(m, o.at, o.units + slob_units(m, fl), slob_next(m, fl))
                      ELSE set_slob(m, o.at, o.units, fl)
    PROVE  Freed(k, o.at, m, free, o)
<1> DEFINE B == Holes(free)
<1>1. /\ Apart(B, 1) /\ Covered(B) = free /\ Lists(m, fl, B) /\ Loose(B, o)
      /\ B \in SUBSET Block
  BY HolesApart, LooseObject, HoleFacts
<1>2. o.at \in Int /\ 0 <= o.at /\ o.units \in Int /\ 1 <= o.units
  BY BlockType
<1> HIDE DEF B
<1>3. Follows(B, -1, fl)
  BY <1>1 DEF Lists
<1>4. /\ fl \in Int /\ fl <= PageUnits
      /\ fl = PageUnits \/ \E b \in B : fl = b.at
      /\ \A b \in B : fl <= b.at /\ b.at \in Int /\ b.units \in Int /\ 1 <= b.units
  <2>1. \A b \in B : b.at \in Int /\ 0 <= b.at /\ b.units \in Int /\ 1 <= b.units
    BY <1>1, BlockType
  <2> QED
    BY <2>1, <1>3 DEF Follows
<1>5. Follows(B, o.at, fl)
  BY <1>4 DEF Follows
<1>6. PICK D, e, x : Joined(k, m, B, o, fl, D, e, x) /\ Apart(D \cup {e}, 0)
  <2>1. k = IF Touches(o, fl)
            THEN set_slob(m, o.at, o.units + slob_units(m, fl), slob_next(m, fl))
            ELSE set_slob(m, o.at, o.units, fl)
    BY DEF Touches, Adjacent
  <2> QED
    BY <2>1, <1>1, <1>5, JoinBlock
<1> DEFINE C == D \cup {e}
<1>7. /\ Joins(B, o, fl, D, e) /\ e \in Block /\ e.at = o.at
      /\ k \in [Units -> Int]
      /\ x \in Int /\ Follows(C, e.at, x) /\ Encodes(k, e.at, e.units, x)
      /\ \A b \in D, y \in Int : Encodes(m, b.at, b.units, y) => Encodes(k, b.at, b.units, y)
      /\ \A u \in Units : ~(o.at <= u /\ u < o.at + o.units) /\ u \notin Covered(B) => k[u] = m[u]
  BY <1>6 DEF Joined, Joins
<1>8. JoinedLinks(B, o, fl, D, e, C)
  BY <1>1, <1>5, <1>7, JoinFollows
<1> HIDE DEF C
<1>9. e.units \in Int /\ 1 <= e.units
  BY <1>7, BlockType
<1>10. \A b \in D : b \in B /\ e.at + e.units + 1 <= b.at /\ e.at < b.at
  BY <1>2, <1>4, <1>7, <1>8, <1>9 DEF JoinedLinks
<1>11. C = Holes(free \cup Span(o.at, o.units))
  <2>1. Apart(C, 1)
    <3>1. C \subseteq Block /\ \A b \in C : b.at + b.units <= PageUnits
      BY <1>6 DEF Apart, C
    <3>2. ASSUME NEW a \in C, NEW b \in C, a # b
          PROVE  a.at + a.units + 1 <= b.at \/ b.at + b.units + 1 <= a.at
      <4>1. CASE a \in D /\ b \in D
        BY <4>1, <3>2, <1>1, <1>10 DEF Apart
      <4>2. CASE a = e \/ b = e
        BY <4>2, <3>2, <1>10 DEF C
      <4> QED
        BY <4>1, <4>2 DEF C
    <3> QED
      BY <3>1, <3>2 DEF Apart
  <2>2. \A u \in Int : (\E b \in C : b.at <= u /\ u < b.at + b.units)
                          <=> \/ o.at <= u /\ u < o.at + o.units
                              \/ \E b \in B : b.at <= u /\ u < b.at + b.units
    BY <1>8 DEF JoinedLinks
  <2> QED
    BY <2>1, <2>2, FreedHoles DEF B
<1>12. Lists(k, o.at, C)
  <2>1. Follows(C, -1, o.at)
    <3>1. -1 \in Int /\ -1 < o.at
      BY <1>2
    <3> QED
      BY <3>1, <1>3, <1>8 DEF JoinedLinks
  <2>2. ASSUME NEW b \in D
        PROVE  \E y \in Int : Follows(C, b.at, y) /\ Encodes(k, b.at, b.units, y)
    <3>1. PICK y \in Int : Follows(B, b.at, y) /\ Encodes(m, b.at, b.units, y)
      BY <1>1, <1>10 DEF Lists
    <3>2. b.at \in Int /\ e.at + e.units <= b.at /\ ~(b.at < o.at)
      BY <1>2, <1>4, <1>7, <1>9, <1>10
    <3>3. Follows(C, b.at, y)
      BY <3>1, <3>2, <1>8 DEF JoinedLinks
    <3> QED
      BY <3>1, <3>3, <1>7
  <2> QED
    BY <2>1, <2>2, <1>7 DEF Lists, C
<1>13. \A u \in Units : u \notin free \cup Span(o.at, o.units) => k[u] = m[u]
  <2>1. \A u \in Units : u \in Int
    BY PageUnitsAssumption DEF Units
  <2> QED
    BY <2>1, <1>1, <1>2, <1>7 DEF Span
<1> QED
  BY <1>7, <1>11, <1>12, <1>13 DEF Freed

\* What becomes of the blocks and the links of C when q replaces p and e.
FusedLinks(C, p, e, q, F) ==
    /\ Apart(F, 0)
    /\ q \notin C
    /\ \A b \in C : b # p /\ b # e => \/ b.at + b.units <= q.at
                                      \/ q.at + q.units <= b.at
    /\ \A u \in Int : (\E b \in F : b.at <= u /\ u < b.at + b.units)
                      <=> \E b \in C : b.at <= u /\ u < b.at + b.units
    /\ \A a \in Int : \A y :
          /\ Follows(C, a, y)
          /\ a < p.at \/ e.at + e.units <= a
          => Follows(F, a, y)
    /\ \A y : Follows(C, e.at, y) => Follows(F, q.at, y)

(* Joining the freed block e with the free block p that ends where it starts. *)
LEMMA FuseFollows ==
    ASSUME NEW C, Apart(C, 0), NEW p \in C, NEW e \in C, p # e, p.at + p.units = e.at,
           NEW q \in Block, q.at = p.at, q.units = p.units + e.units,
           NEW F, F = (C \ {p, e}) \cup {q}
    PROVE  FusedLinks(C, p, e, q, F)
<1>1. \A b \in C : /\ b \in Block /\ b.at \in Int /\ b.units \in Int /\ 1 <= b.units
                   /\ b.at + b.units <= PageUnits
                   /\ b # p => b.at + b.units <= p.at \/ p.at + p.units <= b.at
                   /\ b # e => b.at + b.units <= e.at \/ e.at + e.units <= b.at
  BY ApartBlock
<1>2. q.at \in Int /\ q.units \in Int /\ q.at + q.units = e.at + e.units
  BY <1>1
<1>3. \A b \in C : b # p /\ b # e => b.at + b.units <= q.at \/ q.at + q.units <= b.at
  BY <1>1, <1>2
<1>4. q \notin C
  <2>1. q # p /\ q # e
    BY <1>1
  <2> QED
    BY <2>1, <1>1, <1>3
<1>5. Apart(F, 0)
  <2>1. F \subseteq Block /\ \A b \in F : b.at + b.units <= PageUnits
    BY <1>1, <1>2
  <2>2. ASSUME NEW a \in F, NEW b \in F, a # b
        PROVE  a.at + a.units + 0 <= b.at \/ b.at + b.units + 0 <= a.at
    <3>1. CASE a = q \/ b = q
      BY <3>1, <2>2, <1>1, <1>2, <1>3
    <3>2. CASE a # q /\ b # q
      BY <3>2, <2>2 DEF Apart
    <3> QED
      BY <3>1, <3>2
  <2> QED
    BY <2>1, <2>2 DEF Apart
<1>6. ASSUME NEW u \in Int
      PROVE  (\E b \in F : b.at <= u /\ u < b.at + b.units)
                <=> \E b \in C : b.at <= u /\ u < b.at + b.units
  <2>1. (q.at <= u /\ u < q.at + q.units) <=> \/ p.at <= u /\ u < p.at + p.units
                                              \/ e.at <= u /\ u < e.at + e.units
    BY <1>1, <1>2
  <2> QED
    BY <2>1
<1>7. ASSUME NEW a \in Int, NEW y, Follows(C, a, y), a < p.at \/ e.at + e.units <= a
      PROVE  Follows(F, a, y)
  <2>1. /\ y \in Int /\ a < y /\ y <= PageUnits
        /\ y = PageUnits \/ \E b \in C : y = b.at
        /\ \A b \in C : a < b.at => y <= b.at
    BY <1>7 DEF Follows
  <2>2. y # e.at
    BY <2>1, <1>1, <1>7
  <2>3. y = PageUnits \/ \E b \in F : y = b.at
    <3>1. CASE y = PageUnits
      BY <3>1
    <3>2. CASE \E b \in C : y = b.at
      <4>1. PICK b \in C : y = b.at
        BY <3>2
      <4>2. CASE b = p
        BY <4>1, <4>2
      <4>3. CASE b # p
        BY <4>1, <4>3, <2>2
      <4> QED
        BY <4>2, <4>3
    <3> QED
      BY <3>1, <3>2, <2>1
  <2>4. ASSUME NEW b \in F, a < b.at
        PROVE  y <= b.at
    BY <2>4, <2>1
  <2> QED
    BY <2>1, <2>3, <2>4 DEF Follows
<1>8. ASSUME NEW y, Follows(C, e.at, y)
      PROVE  Follows(F, q.at, y)
  <2>1. /\ y \in Int /\ e.at < y /\ y <= PageUnits
        /\ y = PageUnits \/ \E b \in C : y = b.at
        /\ \A b \in C : e.at < b.at => y <= b.at
    BY <1>8 DEF Follows
  <2>2. y = PageUnits \/ \E b \in F : y = b.at
    <3>1. y # e.at /\ y # p.at
      BY <2>1, <1>1
    <3> QED
      BY <3>1, <2>1
  <2>3. ASSUME NEW b \in F, q.at < b.at
        PROVE  y <= b.at
    <3>1. b \in C /\ b # p /\ b # e
      BY <2>3, <1>2
    <3>2. e.at < b.at
      BY <3>1, <2>3, <1>1, <1>2, <1>3
    <3> QED
      BY <3>1, <3>2, <2>1
  <2> QED
    BY <2>1, <2>2, <2>3, <1>1, <1>2 DEF Follows
<1> QED
  BY <1>3, <1>4, <1>5, <1>6, <1>7, <1>8 DEF FusedLinks

(* The object lies after the free block p and before the next one, or the    *)
(* end of the page: it is linked in between, or joined with either or both.  *)
LEMMA FreeHigh ==
    ASSUME NEW m \in [Units -> Int], NEW fl, NEW free \in SUBSET Units,
           Lists(m, fl, Holes(free)), NEW p \in Holes(free),
           NEW o \in Block, o.at + o.units <= PageUnits, Span(o.at, o.units) \cap free = {},
           NEW next, next = slob_next(m, p.at), p.at < o.at, o.at < next,
           NEW k1, k1 = IF ~slob_last(m, p.at) /\ Adjacent(o.at, o.units, next)
                        THEN set_slob(m, o.at, o.units + slob_units(m, next), slob_next(m, next))
                        ELSE set_slob(m, o.at, o.units, next),
           NEW k, k = IF Adjacent(p.at, slob_units(k1, p.at), o.at)
                      THEN set_slob(k1, p.at, slob_units(k1, o.at) + slob_units(k1, p.at),
                                    slob_next(k1, o.at))
                      ELSE set_slob(k1, p.at, slob_units(k1, p.at), o.at)
    PROVE  Freed(k, fl, m, free, o)
<1> DEFINE B == Holes(free)
<1>1. /\ Apart(B, 1) /\ Covered(B) = free /\ Lists(m, fl, B) /\ Loose(B, o)
      /\ B \in SUBSET Block /\ p \in B
  BY HolesApart, LooseObject, HoleFacts
<1>2. o.at \in Int /\ 0 <= o.at /\ o.units \in Int /\ 1 <= o.units
  BY BlockType
<1> HIDE DEF B
<1>3. \A b \in B : /\ b.at \in Int /\ 0 <= b.at /\ b.units \in Int /\ 1 <= b.units
                   /\ b.at + b.units <= PageUnits
                   /\ b # p => b.at + b.units + 1 <= p.at \/ p.at + p.units + 1 <= b.at
                   /\ b.at + b.units <= o.at \/ o.at + o.units <= b.at
  BY <1>1, BlockType DEF Apart, Loose
<1>4. /\ Follows(B, p.at, next) /\ Encodes(m, p.at, p.units, next)
      /\ slob_last(m, p.at) <=> next = PageUnits
  BY <1>1, ReadListed
<1>5. /\ next \in Int /\ next <= PageUnits
      /\ next = PageUnits \/ \E b \in B : next = b.at
      /\ \A b \in B : p.at < b.at => next <= b.at
  BY <1>4 DEF Follows
<1>6. Follows(B, o.at, next)
  <2>1. ASSUME NEW b \in B, o.at < b.at
        PROVE  next <= b.at
    BY <2>1, <1>1, <1>2, <1>3, <1>5
  <2> QED
    BY <2>1, <1>5 DEF Follows
<1>7. PICK D, e, x : Joined(k1, m, B, o, next, D, e, x) /\ Apart(D \cup {e}, 0)
  <2>1. k1 = IF Touches(o, next)
             THEN set_slob(m, o.at, o.units + slob_units(m, next), slob_next(m, next))
             ELSE set_slob(m, o.at, o.units, next)
    BY <1>4 DEF Touches, Adjacent
  <2> QED
    BY <2>1, <1>1, <1>6, JoinBlock
<1> DEFINE C == D \cup {e}
<1>8. /\ Joins(B, o, next, D, e) /\ e \in Block /\ e.at = o.at
      /\ k1 \in [Units -> Int]
      /\ x \in Int /\ Follows(C, e.at, x) /\ Encodes(k1, e.at, e.units, x)
      /\ \A b \in D, y \in Int : Encodes(m, b.at, b.units, y) => Encodes(k1, b.at, b.units, y)
      /\ \A u \in Units : ~(o.at <= u /\ u < o.at + o.units) /\ u \notin Covered(B)
                             => k1[u] = m[u]
  BY <1>7 DEF Joined, Joins
<1>9. JoinedLinks(B, o, next, D, e, C)
  BY <1>1, <1>6, <1>8, JoinFollows
<1> HIDE DEF C
<1>10. e.units \in Int /\ 1 <= e.units
  BY <1>8, BlockType
<1>11. \A b \in D : b \in B /\ (b.at + b.units <= e.at \/ e.at + e.units + 1 <= b.at)
  BY <1>9 DEF JoinedLinks
<1>12. p \in D
  <2>1. p.at # next
    BY <1>1, <1>2, <1>3
  <2> QED
    BY <2>1, <1>1, <1>8 DEF Joins
<1>13. /\ Follows(C, -1, fl) /\ Follows(C, p.at, o.at)
       /\ \A b \in C : b # p =>
             \E y \in Int : Follows(C, b.at, y) /\ Encodes(k1, b.at, b.units, y)
  <2>1. Follows(C, -1, fl)
    <3>1. Follows(B, -1, fl) /\ fl <= p.at /\ fl \in Int /\ -1 \in Int /\ -1 < o.at
      BY <1>1, <1>2, <1>3 DEF Lists, Follows
    <3>2. ~(o.at < fl)
      BY <3>1, <1>1, <1>2, <1>3
    <3> QED
      BY <3>1, <3>2, <1>9 DEF JoinedLinks
  <2>2. Follows(C, p.at, o.at)
    <3>1. p.at \in Int
      BY <1>1, <1>3
    <3> QED
      BY <3>1, <1>4, <1>9 DEF JoinedLinks
  <2>3. ASSUME NEW b \in D, b # p
        PROVE  \E y \in Int : Follows(C, b.at, y) /\ Encodes(k1, b.at, b.units, y)
    <3>1. PICK y \in Int : Follows(B, b.at, y) /\ Encodes(m, b.at, b.units, y)
      BY <1>1, <1>11 DEF Lists
    <3>2. b.at \in Int /\ (b.at < o.at \/ e.at + e.units <= b.at)
      <4>1. b.at \in Int /\ b.units \in Int /\ 1 <= b.units
        BY <1>3, <1>11
      <4>2. b.at + b.units <= e.at \/ e.at + e.units + 1 <= b.at
        BY <1>11
      <4> QED
        BY <4>1, <4>2, <1>2, <1>8, <1>10
    <3>3. ~(b.at < o.at /\ o.at < y)
      <4>1. CASE b.at < p.at
        BY <4>1, <3>1, <1>1, <1>2, <1>3 DEF Follows
      <4>2. CASE p.at < b.at
        BY <4>2, <1>2, <1>3, <1>5, <1>11
      <4> QED
        BY <4>1, <4>2, <2>3, <1>1, <1>3, <1>11
    <3>4. Follows(C, b.at, y)
      BY <3>1, <3>2, <3>3, <1>9 DEF JoinedLinks
    <3> QED
      BY <3>1, <3>4, <1>8
  <2> QED
    BY <2>1, <2>2, <2>3, <1>8 DEF C
<1>14. /\ slob_units(k1, p.at) = p.units
       /\ slob_units(k1, o.at) = e.units /\ slob_next(k1, o.at) = x
  <2>1. p \in Block /\ p.at \in Units /\ p.units \in 1 .. PageUnits
        /\ o.at \in Units /\ e.units \in 1 .. PageUnits
    BY <1>1, <1>8 DEF Block
  <2>2. next \in 1 .. PageUnits
    BY <1>2, <1>5, PageUnitsAssumption
  <2>3. x \in 1 .. PageUnits
    BY <1>2, <1>8, PageUnitsAssumption DEF Follows
  <2>4. Encodes(k1, p.at, p.units, next)
    BY <1>4, <1>5, <1>8, <1>12
  <2>5. slob_units(k1, p.at) = p.units
    BY <2>1, <2>2, <2>4, <1>8, ReadSlob
  <2>6. Encodes(k1, o.at, e.units, x)
    BY <1>8
  <2> QED
    BY <2>1, <2>3, <2>5, <2>6, <1>8, ReadSlob
<1>15. Apart(C, 0) /\ p \in C /\ e \in C /\ p # e
  BY <1>2, <1>7, <1>8, <1>12 DEF C
<1>16. \A u \in Int : (\E b \in C : b.at <= u /\ u < b.at + b.units)
                      <=> \/ o.at <= u /\ u < o.at + o.units
                          \/ \E b \in B : b.at <= u /\ u < b.at + b.units
  BY <1>9 DEF JoinedLinks
<1>17. \A u \in Units : /\ u \in Int
                        /\ u \notin free \cup Span(o.at, o.units) =>
                              k1[u] = m[u] /\ ~(p.at <= u /\ u < p.at + p.units)
                              /\ ~(e.at <= u /\ u < e.at + e.units)
  <2>1. \A u \in Units : u \in Int
    BY PageUnitsAssumption DEF Units
  <2>2. ASSUME NEW u \in Units, u \notin free \cup Span(o.at, o.units)
        PROVE  \A b \in C : ~(b.at <= u /\ u < b.at + b.units)
    <3>1. ~(o.at <= u /\ u < o.at + o.units)
      BY <2>1, <2>2, <1>2 DEF Span
    <3>2. \A b \in B : ~(b.at <= u /\ u < b.at + b.units)
      BY <2>1, <2>2, <1>1, CoveredUnit
    <3> QED
      BY <2>1, <3>1, <3>2, <1>16
  <2>3. ASSUME NEW u \in Units, u \notin free \cup Span(o.at, o.units)
        PROVE  k1[u] = m[u]
    BY <2>1, <2>3, <1>1, <1>2, <1>8 DEF Span
  <2> QED
    BY <2>1, <2>2, <2>3, <1>15
<1>18. CASE Adjacent(p.at, p.units, o.at)
  <2> DEFINE q == [at |-> p.at, units |-> p.units + e.units]
             F == (C \ {p, e}) \cup {q}
  <2>1. q \in Block
    <3>1. p.units + e.units \in Int /\ 1 <= p.units + e.units
          /\ p.at + (p.units + e.units) <= PageUnits /\ p.at \in Int /\ 0 <= p.at
      BY <1>1, <1>2, <1>3, <1>8, <1>9, <1>10, <1>18 DEF Adjacent, JoinedLinks
    <3> QED
      BY <3>1, NewBlock
  <2>2. q.at = p.at /\ q.units = p.units + e.units
    OBVIOUS
  <2> HIDE DEF q
  <2>3. k = set_slob(k1, q.at, q.units, x)
    <3>1. q.units = e.units + p.units
      BY <2>2, <1>1, <1>3, <1>10
    <3> QED
      BY <2>2, <3>1, <1>14, <1>18
  <2>4. FusedLinks(C, p, e, q, F)
    <3>1. p.at + p.units = e.at
      BY <1>8, <1>18 DEF Adjacent
    <3> QED
      BY <2>1, <2>2, <3>1, <1>15, FuseFollows
  <2> DEFINE G == F
  <2>5. q \in G /\ G = (C \ {p, e}) \cup {q}
    OBVIOUS
  <2> HIDE DEF F, G
  <2>6. /\ Apart(G, 0) /\ q \notin C
        /\ \A b \in C : b # p /\ b # e => b.at + b.units <= q.at \/ q.at + q.units <= b.at
        /\ \A u \in Int : (\E b \in G : b.at <= u /\ u < b.at + b.units)
                             <=> \E b \in C : b.at <= u /\ u < b.at + b.units
        /\ \A a \in Int : \A y :
              Follows(C, a, y) /\ (a < p.at \/ e.at + e.units <= a) => Follows(G, a, y)
        /\ \A y : Follows(C, e.at, y) => Follows(G, q.at, y)
    BY <2>4 DEF FusedLinks, G
  <2>7. /\ k \in [Units -> Int]
        /\ Encodes(k, q.at, q.units, x)
        /\ \A u \in Units : ~(q.at <= u /\ u < q.at + q.units) => k[u] = k1[u]
    <3>1. Wrote(k, k1, G, q, x)
      BY <2>3, <2>5, <2>6, <1>8, WriteBlock
    <3> QED
      BY <3>1 DEF Wrote
  <2>8. \A b \in C : b # p /\ b # e =>
           /\ b \in Block /\ b.at + b.units <= PageUnits
           /\ b.at \in Int /\ b.units \in Int /\ 1 <= b.units
    BY <1>15, ApartBlock
  <2>9. ASSUME NEW b \in C, b # p, b # e
        PROVE  \E y \in Int : Follows(G, b.at, y) /\ Encodes(k, b.at, b.units, y)
    <3>1. PICK y \in Int : Follows(C, b.at, y) /\ Encodes(k1, b.at, b.units, y)
      BY <2>9, <1>13
    <3>2. b.at < p.at \/ e.at + e.units <= b.at
      <4>1. b.at + b.units <= q.at \/ q.at + q.units <= b.at
        BY <2>6, <2>9
      <4>2. e.at = p.at + p.units /\ p.at \in Int /\ p.units \in Int
        BY <1>1, <1>3, <1>8, <1>18 DEF Adjacent
      <4> QED
        BY <4>1, <4>2, <2>2, <2>8, <2>9, <1>10
    <3>3. Follows(G, b.at, y)
      BY <2>6, <2>8, <2>9, <3>1, <3>2
    <3>4. \A u \in Units : b.at <= u /\ u < b.at + b.units => k[u] = k1[u]
      <4>1. b.at + b.units <= q.at \/ q.at + q.units <= b.at
        BY <2>6, <2>9
      <4>2. q.at \in Int /\ q.units \in Int
        BY <2>1, BlockType
      <4>3. b.at \in Int /\ b.units \in Int
        BY <2>8, <2>9
      <4>4. \A u \in Units : u \in Int
        BY <1>17
      <4> QED
        BY <4>1, <4>2, <4>3, <4>4, <2>7
    <3>5. Encodes(k, b.at, b.units, y)
      <4>1. b \in Block /\ b.at + b.units <= PageUnits
        BY <2>8, <2>9
      <4>2. Encodes(k1, b.at, b.units, y)
        BY <3>1
      <4> HIDE DEF F
      <4> QED
        BY <3>4, <4>1, <4>2, EncodesFrame
    <3> QED
      BY <3>3, <3>5
  <2>10. Lists(k, fl, G)
    <3>1. Follows(G, -1, fl)
      <4>1. -1 \in Int /\ -1 < p.at
        BY <1>1, <1>3
      <4> QED
        BY <4>1, <2>6, <1>13
    <3>2. Follows(G, q.at, x)
      BY <2>6, <1>8
    <3> QED
      BY <3>1, <3>2, <2>5, <2>7, <2>9, <1>8 DEF Lists
  <2>11. Apart(G, 1)
    <3>1. G \subseteq Block /\ \A b \in G : b.at + b.units <= PageUnits
      BY <2>6 DEF Apart
    <3>2. ASSUME NEW b \in C, b # p, b # e
          PROVE  b.at + b.units + 1 <= q.at \/ q.at + q.units + 1 <= b.at
      <4>1. b \in D
        BY <3>2 DEF C
      <4>2. b.at + b.units + 1 <= p.at \/ p.at + p.units + 1 <= b.at
        BY <3>2, <4>1, <1>3, <1>11
      <4>3. b.at + b.units <= e.at \/ e.at + e.units + 1 <= b.at
        BY <4>1, <1>11
      <4>4. e.at = p.at + p.units /\ p.at \in Int /\ p.units \in Int
        BY <1>1, <1>3, <1>8, <1>18 DEF Adjacent
      <4> QED
        BY <4>2, <4>3, <4>4, <2>2, <2>8, <3>2, <1>10
    <3>3. ASSUME NEW a \in G, NEW b \in G, a # b
          PROVE  a.at + a.units + 1 <= b.at \/ b.at + b.units + 1 <= a.at
      <4>1. CASE a = q \/ b = q
        BY <4>1, <3>2, <3>3, <2>5
      <4>2. CASE a # q /\ b # q
        <5>1. a \in B /\ b \in B
          BY <4>2, <2>5, <1>11 DEF C
        <5> QED
          BY <5>1, <3>3, <1>1 DEF Apart
      <4> QED
        BY <4>1, <4>2
    <3> QED
      BY <3>1, <3>3 DEF Apart
  <2>12. G = Holes(free \cup Span(o.at, o.units))
    <3>1. \A u \in Int : (\E b \in G : b.at <= u /\ u < b.at + b.units)
                          <=> \/ o.at <= u /\ u < o.at + o.units
                              \/ \E b \in B : b.at <= u /\ u < b.at + b.units
      BY <2>6, <1>16
    <3> QED
      BY <3>1, <2>11, FreedHoles DEF B
  <2>13. \A u \in Units : u \notin free \cup Span(o.at, o.units) => k[u] = m[u]
    <3>1. \A u \in Units : (q.at <= u /\ u < q.at + q.units) =>
             (p.at <= u /\ u < p.at + p.units) \/ (e.at <= u /\ u < e.at + e.units)
      <4>1. e.at = p.at + p.units /\ p.at \in Int /\ p.units \in Int
        BY <1>1, <1>3, <1>8, <1>18 DEF Adjacent
      <4> QED
        BY <4>1, <2>2, <1>10, <1>17
    <3> QED
      BY <3>1, <2>7, <1>17
  <2> QED
    BY <2>7, <2>10, <2>12, <2>13 DEF Freed
<1>19. CASE ~Adjacent(p.at, p.units, o.at)
  <2>1. k = set_slob(k1, p.at, p.units, o.at)
    BY <1>14, <1>19
  <2>2. /\ k \in [Units -> Int]
        /\ Encodes(k, p.at, p.units, o.at)
        /\ \A b \in C, y \in Int :
              b # p /\ Encodes(k1, b.at, b.units, y) => Encodes(k, b.at, b.units, y)
        /\ \A u \in Units : ~(p.at <= u /\ u < p.at + p.units) => k[u] = k1[u]
    <3>1. Wrote(k, k1, C, p, o.at)
      BY <2>1, <1>2, <1>8, <1>15, WriteBlock
    <3> QED
      BY <3>1 DEF Wrote
  <2>3. Lists(k, fl, C)
    <3>1. ASSUME NEW b \in C
          PROVE  \E y \in Int : Follows(C, b.at, y) /\ Encodes(k, b.at, b.units, y)
      <4>1. CASE b = p
        BY <4>1, <2>2, <1>2, <1>13
      <4>2. CASE b # p
        BY <4>2, <2>2, <1>13
      <4> QED
        BY <4>1, <4>2
    <3> QED
      BY <3>1, <1>13 DEF Lists
  <2>4. Apart(C, 1)
    <3>1. C \subseteq Block /\ \A b \in C : b.at + b.units <= PageUnits
      BY <1>15 DEF Apart
    <3>2. ASSUME NEW b \in D
          PROVE  b.at + b.units + 1 <= e.at \/ e.at + e.units + 1 <= b.at
      <4>1. b.at \in Int /\ b.units \in Int /\ p.at \in Int /\ p.units \in Int
            /\ b.at + b.units <= PageUnits /\ 1 <= b.units
        BY <1>1, <1>3, <1>11
      <4>2. CASE b = p
        BY <4>1, <4>2, <1>2, <1>8, <1>11, <1>19 DEF Adjacent
      <4>3. CASE b # p
        <5>1. b.at + b.units + 1 <= p.at \/ p.at + p.units + 1 <= b.at
          BY <4>3, <1>3, <1>11
        <5>2. b.at + b.units <= e.at \/ e.at + e.units + 1 <= b.at
          BY <1>11
        <5>3. p.at < b.at => next <= b.at
          BY <1>5, <1>11
        <5>4. p.at + p.units <= e.at
          <6>1. p.at + p.units <= e.at \/ e.at + e.units + 1 <= p.at
            BY <1>11, <1>12
          <6> QED
            BY <6>1, <4>1, <1>2, <1>8, <1>10
        <5>5. CASE b.at + b.units + 1 <= p.at
          <6>1. 1 <= p.units
            BY <1>1, <1>3
          <6> QED
            BY <4>1, <5>4, <5>5, <6>1, <1>2, <1>8
        <5>6. CASE p.at + p.units + 1 <= b.at
          <6>1. p.at < b.at
            BY <4>1, <5>6, <1>1, <1>3
          <6>2. e.at < b.at
            BY <6>1, <5>3, <4>1, <1>2, <1>5, <1>8
          <6> QED
            BY <6>2, <5>2, <4>1, <1>2, <1>8, <1>10
        <5> QED
          BY <5>1, <5>5, <5>6
      <4> QED
        BY <4>2, <4>3
    <3>3. ASSUME NEW a \in C, NEW b \in C, a # b
          PROVE  a.at + a.units + 1 <= b.at \/ b.at + b.units + 1 <= a.at
      <4>1. CASE a = e \/ b = e
        BY <4>1, <3>2, <3>3 DEF C
      <4>2. CASE a # e /\ b # e
        <5>1. a \in B /\ b \in B
          BY <4>2, <1>11 DEF C
        <5> QED
          BY <5>1, <3>3, <1>1 DEF Apart
      <4> QED
        BY <4>1, <4>2
    <3> QED
      BY <3>1, <3>3 DEF Apart
  <2>5. C = Holes(free \cup Span(o.at, o.units))
    BY <2>4, <1>16, FreedHoles DEF B
  <2>6. \A u \in Units : u \notin free \cup Span(o.at, o.units) => k[u] = m[u]
    BY <2>2, <1>17
  <2> QED
    BY <2>2, <2>3, <2>5, <2>6 DEF Freed
<1> QED
  BY <1>18, <1>19

(* The search for the free block before the object finds it.                 *)
LEMMA LinkBefore ==
    ASSUME NEW m \in [Units -> Int], NEW fl, NEW free \in SUBSET Units,
           Lists(m, fl, Holes(free)), NEW w, w = Walk(m, fl),
           NEW o \in Block, Span(o.at, o.units) \cap free = {}, ~(o.at < fl)
    PROVE  /\ \E i \in DOMAIN w : w[i] < o.at /\ (i = PageUnits \/ w[i + 1] > o.at)
           /\ \A k \in DOMAIN w : w[k] < o.at /\ (k = PageUnits \/ w[k + 1] > o.at) =>
                 \E p \in Holes(free) :
                    w[k] = p.at /\ p.at < o.at /\ o.at < slob_next(m, p.at)
<1> DEFINE B == Holes(free)
<1>1. B \in SUBSET Block /\ Lists(m, fl, B)
  BY HoleFacts
<1>2. /\ PageUnits \in Nat \ {0}
      /\ o.at \in Int /\ 0 <= o.at /\ o.at < PageUnits /\ o.units \in Int /\ 1 <= o.units
  BY BlockType, PageUnitsAssumption
<1>3. \A b \in B : b.at # o.at
  <2>1. \A b \in B : b.at \in free
    BY DEF Holes
  <2>2. o.at \in Span(o.at, o.units)
    BY <1>2 DEF Span
  <2> QED
    BY <2>1, <2>2
<1> HIDE DEF B
<1>4. /\ DOMAIN w = 0 .. PageUnits /\ w[0] = fl
      /\ \A i \in 0 .. PageUnits : Stop(B, w[i])
      /\ \A i \in 0 .. PageUnits : w[i] \in Int
      /\ w[PageUnits] = PageUnits
  <2>1. DOMAIN w = 0 .. PageUnits /\ w[0] = fl
    BY <1>1, WalkSteps
  <2>2. \A i \in 0 .. PageUnits : Stop(B, w[i])
    BY <1>1, WalkSteps
  <2>3. w[PageUnits] = PageUnits
    BY <1>1, WalkAscends
  <2>4. \A i \in 0 .. PageUnits : w[i] \in Int
    BY <2>2, <1>1, StopType
  <2> QED
    BY <2>1, <2>2, <2>3, <2>4
<1>5. \A i \in 0 .. PageUnits : w[i] # o.at
  BY <1>2, <1>3, <1>4 DEF Stop
<1> DEFINE T == {i \in 0 .. PageUnits : w[i] < o.at}
<1>6. PICK t \in T : \A i \in T : i <= t
  <2>1. 0 \in T
    BY <1>2, <1>4, <1>5
  <2>2. T \in SUBSET (0 .. PageUnits) /\ T # {} /\ PageUnits \in Nat
    BY <2>1, <1>2
  <2> HIDE DEF T
  <2> QED
    BY <2>2, GreatestOf
<1>7. t \in DOMAIN w /\ w[t] < o.at /\ (t = PageUnits \/ w[t + 1] > o.at)
  <2>1. t \in 0 .. PageUnits /\ w[t] < o.at
    BY DEF T
  <2>2. ASSUME t # PageUnits
        PROVE  w[t + 1] > o.at
    <3>1. t + 1 \in 0 .. PageUnits /\ ~(t + 1 <= t)
      BY <2>1, <2>2, <1>2
    <3>2. ~(w[t + 1] < o.at)
      BY <3>1, <1>6
    <3> QED
      BY <3>1, <3>2, <1>2, <1>4, <1>5
  <2> QED
    BY <2>1, <2>2, <1>4
<1> HIDE DEF T
<1>8. ASSUME NEW k \in DOMAIN w, w[k] < o.at, k = PageUnits \/ w[k + 1] > o.at
      PROVE  \E p \in B : w[k] = p.at /\ p.at < o.at /\ o.at < slob_next(m, p.at)
  <2>1. k \in 0 .. PageUnits - 1 /\ k \in 0 .. PageUnits /\ k + 1 \in 0 .. PageUnits
        /\ w[k] # PageUnits /\ w[k + 1] > o.at
    <3>1. w[k] # PageUnits
      BY <1>2, <1>8
    <3>2. k # PageUnits /\ k \in 0 .. PageUnits
      BY <3>1, <1>4
    <3> QED
      BY <3>1, <3>2, <1>2, <1>8
  <2>2. PICK p \in B : w[k] = p.at
    BY <2>1, <1>4 DEF Stop
  <2>3. Follows(B, p.at, w[k + 1])
    BY <2>1, <2>2, <1>1, WalkSteps
  <2>4. Follows(B, p.at, slob_next(m, p.at)) /\ p.at \in Int
    BY <2>2, <1>1, ReadListed, BlockType
  <2>5. w[k + 1] = slob_next(m, p.at)
    BY <2>3, <2>4, <1>1, FollowsOne
  <2>6. w[k + 1] \in Int
    BY <2>1, <1>4
  <2> QED
    BY <2>1, <2>2, <2>5, <2>6, <1>2, <1>8
<1> QED
  BY <1>7, <1>8 DEF B

(***************************************************************************)
(* Counting free units.                                                     *)
(***************************************************************************)

(* A block of n units has n units.                                          *)
LEMMA SpanCount ==
    ASSUME NEW a \in Int, NEW n \in Int, 1 <= n
    PROVE  IsFiniteSet(Span(a, n)) /\ Cardinality(Span(a, n)) = n
<1>1. a + n - 1 \in Int /\ ~(a > a + n - 1) /\ (a + n - 1) - a + 1 = n
  OBVIOUS
<1> QED
  BY <1>1, FS_Interval DEF Span

(* Sets of units are finite, and known by their size when empty or full.    *)
LEMMA UnitsCount ==
    ASSUME NEW S \in SUBSET Units
    PROVE  /\ IsFiniteSet(S) /\ Cardinality(S) \in Nat /\ Cardinality(S) <= PageUnits
           /\ Cardinality(S) = PageUnits => S = Units
           /\ Cardinality(S) = 0 <=> S = {}
<1>1. IsFiniteSet(Units) /\ Cardinality(Units) = PageUnits
  <2>1. 0 \in Int /\ PageUnits - 1 \in Int /\ ~(0 > PageUnits - 1)
        /\ (PageUnits - 1) - 0 + 1 = PageUnits
    BY PageUnitsAssumption
  <2> QED
    BY <2>1, FS_Interval DEF Units
<1>2. IsFiniteSet(S) /\ Cardinality(S) <= PageUnits /\ (Cardinality(S) = PageUnits => S = Units)
  BY <1>1, FS_Subset
<1> QED
  BY <1>2, FS_EmptySet, FS_CardinalityType

(* An allocation out of free memory takes its units off the count.           *)
LEMMA TakenCount ==
    ASSUME NEW S \in SUBSET Units, NEW a \in Int, NEW n \in Int, 1 <= n, Span(a, n) \subseteq S
    PROVE  Cardinality(S \ Span(a, n)) = Cardinality(S) - n
<1>1. S \cap Span(a, n) = Span(a, n) /\ IsFiniteSet(S)
  BY UnitsCount
<1>2. Cardinality(S \ Span(a, n)) = Cardinality(S) - Cardinality(S \cap Span(a, n))
  BY <1>1, FS_Difference
<1> QED
  BY <1>1, <1>2, SpanCount

(* The free of an object adds its units.                                    *)
LEMMA GivenCount ==
    ASSUME NEW S \in SUBSET Units, NEW a \in Int, NEW n \in Int, 1 <= n, Span(a, n) \cap S = {}
    PROVE  Cardinality(S \cup Span(a, n)) = Cardinality(S) + n
<1>1. S \cap Span(a, n) = {}
  OBVIOUS
<1>2. Cardinality(S \cup Span(a, n)) = Cardinality(S) + Cardinality(Span(a, n)) - 0
  BY <1>1, SpanCount, UnitsCount, FS_Union, FS_EmptySet
<1> QED
  BY <1>2, SpanCount, UnitsCount

(* Fewer free units than asked for: no hole has room.                        *)
LEMMA TooFew ==
    ASSUME NEW free \in SUBSET Units, NEW n \in Nat, NEW align \in Nat,
           Cardinality(free) < n
    PROVE  Fitting(Holes(free), n, align) = {}
<1> SUFFICES ASSUME NEW h \in Holes(free), Fits(h, n, align)
             PROVE  FALSE
  BY DEF Fitting
<1>1. h \in Block /\ h.at \in Int /\ h.units \in Int /\ 1 <= h.units
  BY HoleFacts, BlockType
<1>2. h.units >= n
  <2>1. Delta(h.at, align) \in Nat
    BY <1>1, DeltaType
  <2> QED
    BY <2>1, <1>1 DEF Fits
<1>3. Span(h.at, h.units) \in SUBSET free
  BY DEF Holes
<1>4. Cardinality(Span(h.at, h.units)) <= Cardinality(free)
  BY <1>3, UnitsCount, FS_Subset
<1> QED
  BY <1>1, <1>2, <1>4, SpanCount, UnitsCount

(***************************************************************************)
(* The inductive invariant: what the list is, what the count counts, and    *)
(* that the objects, all free memory aside, are apart.                      *)
(***************************************************************************)

ListIsHoles == listed => Lists(mem, freelist, Holes(FreeUnits))

CountIsFree == slab => units = Cardinality(FreeUnits) /\ (listed <=> units > 0)

NotYetOurs == ~slab => live = {} /\ ~listed

Inv == TypeOK /\ Apart(live, 0) /\ ListIsHoles /\ CountIsFree /\ NotYetOurs

(* The free units, as the objects come and go.                               *)
LEMMA FreeType == FreeUnits \in SUBSET Units
  BY DEF FreeUnits

(* An object lies inside the page, and its units are not free.              *)
LEMMA ObjectUnits ==
    ASSUME Apart(live, 0), NEW o \in live
    PROVE  /\ o \in Block /\ o.at + o.units <= PageUnits
           /\ Span(o.at, o.units) \subseteq Units
           /\ Span(o.at, o.units) \cap FreeUnits = {}
<1>1. o \in Block /\ o.at + o.units <= PageUnits
  BY DEF Apart
<1>2. o.at \in Int /\ 0 <= o.at /\ o.units \in Int /\ PageUnits \in Nat
  BY <1>1, BlockType, PageUnitsAssumption
<1>3. \A u \in Span(o.at, o.units) : u \in Units
  BY <1>1, <1>2 DEF Span, Units
<1>4. Span(o.at, o.units) \cap FreeUnits = {}
  BY DEF FreeUnits, Covered
<1> QED
  BY <1>1, <1>3, <1>4

(* An allocation takes the units of the new object off the free ones.       *)
LEMMA FreeAfterAlloc ==
    ASSUME NEW e, live' = live \cup {e}
    PROVE  FreeUnits' = FreeUnits \ Span(e.at, e.units)
<1>1. Covered(live)' = Covered(live) \cup Span(e.at, e.units)
  BY DEF Covered
<1> QED
  BY <1>1 DEF FreeUnits

(* A free adds the units of the object to them, and only those.             *)
LEMMA FreeAfterFree ==
    ASSUME Apart(live, 0), NEW o \in live, live' = live \ {o}
    PROVE  FreeUnits' = FreeUnits \cup Span(o.at, o.units)
<1>1. live \in SUBSET Block /\ live' \in SUBSET Block
  BY DEF Apart
<1>2. \A p \in live : /\ p.at \in Int /\ p.units \in Int
                      /\ p # o => p.at + p.units <= o.at \/ o.at + o.units <= p.at
  BY ApartBlock
<1>3. ASSUME NEW u \in Units
      PROVE  u \in FreeUnits' <=> u \in FreeUnits \/ u \in Span(o.at, o.units)
  <2>1. u \in Int
    BY PageUnitsAssumption DEF Units
  <2>2. u \in Covered(live) <=> \E p \in live : p.at <= u /\ u < p.at + p.units
    BY <1>1, <2>1, CoveredUnit
  <2>3. u \in Covered(live') <=> \E p \in live' : p.at <= u /\ u < p.at + p.units
    BY <1>1, <2>1, CoveredUnit
  <2>4. u \in Span(o.at, o.units) <=> o.at <= u /\ u < o.at + o.units
    BY <1>2, <2>1 DEF Span
  <2>5. u \in FreeUnits <=> u \notin Covered(live)
    BY DEF FreeUnits
  <2>6. u \in FreeUnits' <=> u \notin Covered(live')
    BY DEF FreeUnits, Covered
  <2> QED
    BY <1>2, <2>1, <2>2, <2>3, <2>4, <2>5, <2>6
<1>4. FreeUnits' \subseteq Units /\ FreeUnits \subseteq Units
  BY DEF FreeUnits
<1>5. Span(o.at, o.units) \subseteq Units
  BY ObjectUnits
<1> QED
  BY <1>3, <1>4, <1>5

(* A list starts inside the page, or at its end.                             *)
LEMMA ListStart ==
    ASSUME NEW m, NEW fl, NEW B \in SUBSET Block, Lists(m, fl, B)
    PROVE  fl \in 0 .. PageUnits
<1>1. fl \in Int /\ -1 < fl /\ fl <= PageUnits
  BY DEF Lists, Follows
<1> QED
  BY <1>1, PageUnitsAssumption

(* A list with a free block on it starts at one.                             *)
LEMMA ListStartsAtBlock ==
    ASSUME NEW m, NEW fl, NEW free \in SUBSET Units, Lists(m, fl, Holes(free)), free # {}
    PROVE  fl # PageUnits
<1>1. PICK u \in free : TRUE
  OBVIOUS
<1>2. PICK h \in Holes(free) : TRUE
  BY <1>1, HoleOfUnit
<1>3. h.at \in Int /\ 0 <= h.at /\ h.at < PageUnits
  BY <1>2, HoleFacts, BlockType
<1>4. -1 < h.at => fl <= h.at
  BY <1>2 DEF Lists, Follows
<1>5. fl \in 0 .. PageUnits
  <2>1. Holes(free) \in SUBSET Block
    BY HoleFacts
  <2> QED
    BY <2>1, ListStart
<1> QED
  BY <1>3, <1>4, <1>5, PageUnitsAssumption

\* The step of the page's heap that an allocation takes.
HeapAllocates(n, align) == Heap!Alloc(n, align) \/ Heap!NoRoom(n, align)

(* PageHeap's definitions are those of this page.                            *)
LEMMA SameHeap ==
    /\ Heap!Free = FreeUnits
    /\ Heap!Units = Units
    /\ \A free : Heap!Holes(free) = Holes(free)
    /\ \A h, n, align : Heap!BestFit(h, n, align) = BestFit(h, n, align)
    /\ \A h, n, align : Heap!Fitting(h, n, align) = Fitting(h, n, align)
    /\ \A h, align : Heap!Placed(h, align) = Placed(h, align)
<1>1. Heap!Units = Units
  BY DEF Heap!Units, Units
<1>2. Heap!Free = FreeUnits
  BY <1>1 DEF Heap!Free, FreeUnits, Heap!Covered, Covered, Heap!Span, Span
<1>3. ASSUME NEW free PROVE Heap!Holes(free) = Holes(free)
  BY DEF Heap!Holes, Holes, Heap!Span, Span
<1>4. ASSUME NEW h, NEW align PROVE Heap!Placed(h, align) = Placed(h, align)
  BY DEF Heap!Placed, Placed, Heap!Delta, Delta
<1>5. ASSUME NEW h, NEW n, NEW align PROVE Heap!Fitting(h, n, align) = Fitting(h, n, align)
  BY DEF Heap!Fitting, Fitting, Heap!Fits, Fits, Heap!Delta, Delta
<1>6. ASSUME NEW h, NEW n, NEW align PROVE Heap!BestFit(h, n, align) = BestFit(h, n, align)
  BY <1>5 DEF Heap!BestFit, BestFit, Heap!Slack, Slack, Heap!Delta, Delta
<1> QED
  BY <1>1, <1>2, <1>3, <1>4, <1>5, <1>6

(* slob_page_alloc on a page whose list is right: the list and the count     *)
(* stay right, only free memory changes, and it is the step of the heap that *)
(* has no list.                                                             *)
LEMMA PageAlloc ==
    ASSUME Apart(live, 0), NEW m \in [Units -> Int], NEW fl, NEW u,
           Lists(m, fl, Holes(FreeUnits)), u = Cardinality(FreeUnits), u > 0,
           NEW n \in 1 .. PageUnits, NEW align \in Aligns,
           slab' = TRUE, slob_page_alloc(m, fl, u, n, align)
    PROVE  /\ Inv'
           /\ HeapAllocates(n, align)
           /\ \A x \in Units : x \notin FreeUnits => mem'[x] = m[x]
<1>1. /\ FreeUnits \in SUBSET Units /\ u \in 0 .. PageUnits /\ PageUnits \in Nat
      /\ n \in Nat \ {0} /\ align \in Nat
  BY FreeType, UnitsCount, PageUnitsAssumption, AlignsAssumption
<1> DEFINE w == Walk(m, fl)
           best == BestLinks(m, w, n, align)
<1>2. CASE best = {}
  <2>1. /\ ret' = Nil /\ live' = live /\ mem' = m
        /\ freelist' = fl /\ units' = u /\ listed' = TRUE
    BY <1>2 DEF slob_page_alloc
  <2>2. FreeUnits' = FreeUnits
    BY <2>1 DEF FreeUnits, Covered
  <2>3. freelist' \in 0 .. PageUnits
    BY <2>1, <1>1, HoleFacts, ListStart
  <2>4. TypeOK'
    BY <2>1, <2>3, <1>1 DEF TypeOK, Apart
  <2>5. Apart(live, 0)'
    BY <2>1 DEF Apart
  <2>6. ListIsHoles'
    BY <2>1, <2>2 DEF ListIsHoles
  <2>7. CountIsFree' /\ NotYetOurs'
    BY <2>1, <2>2 DEF CountIsFree, NotYetOurs
  <2>8. Fitting(Holes(FreeUnits), n, align) = {}
    BY <1>1, <1>2, NoLinkNoFit
  <2>9. HeapAllocates(n, align)
    BY <2>1, <2>8, SameHeap DEF HeapAllocates, Heap!NoRoom
  <2> QED
    BY <2>1, <2>4, <2>5, <2>6, <2>7, <2>9 DEF Inv
<1>3. CASE best # {}
  <2>1. PICK i \in best :
           LET t == Take(m, fl, w, i, n, align) IN
                /\ mem' = t.mem
                /\ freelist' = t.freelist
                /\ units' = u - n
                /\ listed' = (u - n # 0)
                /\ live' = live \cup {[at |-> t.block, units |-> n]}
                /\ ret' = t.block
    BY <1>3 DEF slob_page_alloc
  <2>2. PICK t : t = Take(m, fl, w, i, n, align)
    OBVIOUS
  <2>3. /\ mem' = t.mem /\ freelist' = t.freelist /\ units' = u - n
        /\ listed' = (u - n # 0)
        /\ live' = live \cup {[at |-> t.block, units |-> n]}
        /\ ret' = t.block
    BY <2>1, <2>2
  <2>4. /\ \E h \in BestFit(Holes(FreeUnits), n, align) : t.block = Placed(h, align)
        /\ t.mem \in [Units -> Int]
        /\ Lists(t.mem, t.freelist, Holes(FreeUnits \ Span(t.block, n)))
        /\ \A x \in Units : x \notin FreeUnits => t.mem[x] = m[x]
    <3>1. i \in BestLinks(m, w, n, align) /\ w = Walk(m, fl)
      OBVIOUS
    <3> HIDE DEF w, best
    <3> QED
      BY <3>1, <2>2, <1>1, TakeCorrect
  <2>5. t.block \in Units /\ Span(t.block, n) \subseteq FreeUnits
    BY <2>4, <1>1, PlacedInHole
  <2>6. t.block \in Int /\ 0 <= t.block /\ n \in Int /\ 1 <= n /\ t.block + n <= PageUnits
    <3>1. t.block \in Int /\ 0 <= t.block /\ n \in Int /\ 1 <= n
      BY <2>5, <1>1 DEF Units
    <3>2. t.block + n - 1 \in Span(t.block, n)
      BY <3>1 DEF Span
    <3>3. t.block + n - 1 \in Units
      BY <3>2, <2>5 DEF FreeUnits
    <3> QED
      BY <3>1, <3>3, <1>1 DEF Units
  <2> DEFINE e == [at |-> t.block, units |-> n]
  <2>7. e \in Block
    BY <2>6, NewBlock
  <2>8. e.at = t.block /\ e.units = n
    OBVIOUS
  <2> HIDE DEF e
  <2>9. live' = live \cup {e}
    BY <2>3 DEF e
  <2>10. FreeUnits' = FreeUnits \ Span(t.block, n)
    BY <2>8, <2>9, FreeAfterAlloc
  <2>11. Apart(live', 0)
    <3>1. ASSUME NEW o \in live
          PROVE  o.at + o.units <= e.at \/ e.at + e.units <= o.at
      <4>1. o.at \in Int /\ o.units \in Int /\ 1 <= o.units
        BY ApartBlock
      <4>2. \A x \in Int : o.at <= x /\ x < o.at + o.units => x \notin FreeUnits
        BY <4>1, ObjectUnits DEF Span
      <4>3. \A x \in Int : e.at <= x /\ x < e.at + e.units => x \in FreeUnits
        BY <2>5, <2>6, <2>8 DEF Span
      <4>4. CASE o.at <= e.at
        BY <4>1, <4>2, <4>3, <4>4, <2>6, <2>8
      <4>5. CASE e.at <= o.at
        BY <4>1, <4>2, <4>3, <4>5, <2>6, <2>8
      <4> QED
        BY <4>1, <4>4, <4>5, <2>6, <2>8
    <3>2. \A o \in live : o \in Block /\ o.at \in Int /\ o.units \in Int
                          /\ o.at + o.units <= PageUnits
      BY ApartBlock
    <3>3. live' \subseteq Block /\ \A o \in live' : o.at + o.units <= PageUnits
      BY <3>2, <2>6, <2>7, <2>8, <2>9
    <3>4. ASSUME NEW a \in live', NEW b \in live', a # b
          PROVE  a.at + a.units + 0 <= b.at \/ b.at + b.units + 0 <= a.at
      <4>1. CASE a \in live /\ b \in live
        BY <4>1, <3>4 DEF Apart
      <4>2. CASE a = e /\ b \in live
        BY <4>2, <3>1, <3>2, <2>6, <2>8
      <4>3. CASE b = e /\ a \in live
        BY <4>3, <3>1, <3>2, <2>6, <2>8
      <4> QED
        BY <4>1, <4>2, <4>3, <3>4, <2>9
    <3> QED
      BY <3>3, <3>4 DEF Apart
  <2>12. Apart(live, 0)'
    BY <2>11 DEF Apart
  <2>13. Cardinality(FreeUnits') = u - n /\ u - n \in 0 .. PageUnits
    <3>1. Cardinality(FreeUnits') = u - n
      BY <2>5, <2>6, <2>10, <1>1, TakenCount
    <3>2. FreeUnits' \in SUBSET Units
      BY <2>10, <1>1
    <3>3. Cardinality(FreeUnits') \in Nat /\ Cardinality(FreeUnits') <= PageUnits
      BY <3>2, UnitsCount
    <3> QED
      BY <3>1, <3>3, <1>1
  <2>14. freelist' \in 0 .. PageUnits
    <3>1. FreeUnits \ Span(t.block, n) \in SUBSET Units
      BY <1>1
    <3> QED
      BY <2>3, <2>4, <3>1, HoleFacts, ListStart
  <2>15. TypeOK'
    BY <2>3, <2>4, <2>5, <2>11, <2>13, <2>14 DEF TypeOK, Apart
  <2>16. ListIsHoles'
    BY <2>3, <2>4, <2>10 DEF ListIsHoles
  <2>17. CountIsFree'
    <3>1. units' = Cardinality(FreeUnits')
      BY <2>3, <2>13
    <3>2. (u - n # 0) <=> u - n > 0
      BY <2>13, <1>1
    <3>3. listed' <=> units' > 0
      BY <2>3, <3>2
    <3> QED
      BY <3>1, <3>3 DEF CountIsFree
  <2>18. NotYetOurs'
    BY DEF NotYetOurs
  <2>19. HeapAllocates(n, align)
    <3>1. t.block \in Heap!Units /\ live' = live \cup {[at |-> t.block, units |-> n]}
          /\ ret' = t.block
      BY <2>3, <2>5, SameHeap
    <3>2. \E h \in Heap!BestFit(Heap!Holes(Heap!Free), n, align) :
             t.block = Heap!Placed(h, align)
      BY <2>4, SameHeap
    <3>3. Heap!Alloc(n, align)
      BY <3>1, <3>2 DEF Heap!Alloc
    <3> QED
      BY <3>3 DEF HeapAllocates
  <2> QED
    BY <2>3, <2>4, <2>12, <2>15, <2>16, <2>17, <2>18, <2>19 DEF Inv
<1> QED
  BY <1>2, <1>3

(* slob_page_alloc on a page just taken: all of it is one free block.        *)
LEMMA PageNew ==
    ASSUME Inv, NEW n \in 1 .. PageUnits, NEW align \in Aligns, NewPage(n, align)
    PROVE  Inv' /\ HeapAllocates(n, align) /\ live = {}
<1> DEFINE m == set_slob(mem, 0, PageUnits, PageUnits)
<1>1. ~slab /\ slab' = TRUE /\ slob_page_alloc(m, 0, PageUnits, n, align)
  BY DEF NewPage
<1>2. live = {} /\ FreeUnits = Units /\ PageUnits \in Nat \ {0}
  BY <1>1, PageUnitsAssumption DEF Inv, NotYetOurs, FreeUnits, Covered
<1>3. m \in [Units -> Int] /\ Lists(m, 0, Holes(Units))
  <2> DEFINE o == [at |-> 0, units |-> PageUnits]
  <2>1. o \in Block /\ o.at + o.units <= PageUnits
    BY <1>2, NewBlock
  <2>2. o.at = 0 /\ o.units = PageUnits
    OBVIOUS
  <2> HIDE DEF o
  <2>3. Span(o.at, o.units) = Units
    BY <2>2, <1>2 DEF Span, Units
  <2>4. mem \in [Units -> Int]
    BY DEF Inv, TypeOK
  <2>5. m = set_slob(mem, o.at, o.units, PageUnits)
    BY <2>2
  <2> HIDE DEF m
  <2>6. m \in [Units -> Int] /\ Lists(m, o.at, Holes(Span(o.at, o.units)))
    BY <2>1, <2>4, <2>5, OnlyBlock
  <2> QED
    BY <2>2, <2>3, <2>6
<1>4. Cardinality(FreeUnits) = PageUnits
  <2>1. 0 \in Int /\ PageUnits - 1 \in Int /\ ~(0 > PageUnits - 1)
        /\ (PageUnits - 1) - 0 + 1 = PageUnits
    BY <1>2
  <2> QED
    BY <2>1, <1>2, FS_Interval DEF Units
<1>5. Apart(live, 0)
  BY DEF Inv
<1> HIDE DEF m
<1>6. Inv' /\ HeapAllocates(n, align)
  BY <1>1, <1>2, <1>3, <1>4, <1>5, PageAlloc
<1> QED
  BY <1>2, <1>6

(* slob_alloc comes by a page of ours.                                       *)
LEMMA PageTry ==
    ASSUME Inv, NEW n \in 1 .. PageUnits, NEW align \in Aligns, TryPage(n, align)
    PROVE  /\ Inv'
           /\ HeapAllocates(n, align)
           /\ \A x \in Units : x \notin FreeUnits => mem'[x] = mem[x]
<1>1. /\ listed /\ slab /\ slab' = slab /\ mem \in [Units -> Int] /\ slab \in BOOLEAN
      /\ units = Cardinality(FreeUnits) /\ units > 0
      /\ Lists(mem, freelist, Holes(FreeUnits))
      /\ Apart(live, 0)
  BY DEF Inv, TypeOK, ListIsHoles, CountIsFree, NotYetOurs, TryPage
<1>2. CASE units < n
  <2>1. ret' = Nil /\ UNCHANGED <<mem, slab, listed, units, freelist, live>>
    BY <1>2 DEF TryPage
  <2>2. FreeUnits' = FreeUnits
    BY <2>1 DEF FreeUnits, Covered
  <2>3. TypeOK' /\ Apart(live, 0)' /\ NotYetOurs'
    BY <2>1 DEF Inv, TypeOK, Apart, NotYetOurs
  <2>4. ListIsHoles' /\ CountIsFree'
    BY <2>1, <2>2 DEF Inv, ListIsHoles, CountIsFree
  <2>5. Fitting(Holes(FreeUnits), n, align) = {}
    BY <1>1, <1>2, FreeType, TooFew, AlignsAssumption
  <2>6. HeapAllocates(n, align)
    BY <2>1, <2>5, SameHeap DEF HeapAllocates, Heap!NoRoom
  <2> QED
    BY <2>1, <2>3, <2>4, <2>6 DEF Inv
<1>3. CASE ~(units < n)
  <2>1. slob_page_alloc(mem, freelist, units, n, align)
    BY <1>3 DEF TryPage
  <2>2. slab' = TRUE
    BY <1>1
  <2> QED
    BY <2>1, <2>2, <1>1, PageAlloc
<1> QED
  BY <1>2, <1>3

(* slob_free: the object's units join the free ones, on the list and in the  *)
(* count, and no other memory that was in use changes.                      *)
LEMMA PageFree ==
    ASSUME Inv, NEW o \in live, Free(o)
    PROVE  /\ Inv'
           /\ \A x \in Units : x \notin FreeUnits \cup Span(o.at, o.units) => mem'[x] = mem[x]
<1>1. /\ TypeOK /\ Apart(live, 0) /\ slab /\ slab \in BOOLEAN /\ listed \in BOOLEAN
      /\ mem \in [Units -> Int] /\ units \in 0 .. PageUnits
      /\ units = Cardinality(FreeUnits) /\ (listed <=> units > 0)
      /\ listed => Lists(mem, freelist, Holes(FreeUnits))
      /\ live' = live \ {o} /\ ret' = ret
  BY DEF Inv, TypeOK, ListIsHoles, CountIsFree, NotYetOurs, Free
<1>2. /\ o \in Block /\ o.at + o.units <= PageUnits
      /\ Span(o.at, o.units) \subseteq Units
      /\ Span(o.at, o.units) \cap FreeUnits = {}
      /\ o.at \in Int /\ 0 <= o.at /\ o.at < PageUnits /\ o.units \in Int /\ 1 <= o.units
      /\ PageUnits \in Nat \ {0}
  BY <1>1, ObjectUnits, BlockType, PageUnitsAssumption
<1>3. FreeUnits \in SUBSET Units /\ FreeUnits' = FreeUnits \cup Span(o.at, o.units)
  BY <1>1, FreeType, FreeAfterFree
<1>4. FreeUnits' \in SUBSET Units
  BY <1>2, <1>3
<1>5. Cardinality(FreeUnits') = units + o.units
  BY <1>1, <1>2, <1>3, GivenCount
<1>6. units + o.units \in 0 .. PageUnits /\ units + o.units > 0
  BY <1>1, <1>2, <1>4, <1>5, UnitsCount
<1>7. Apart(live, 0)' /\ live' \subseteq Block
  BY <1>1 DEF Apart
<1>8. CASE Empties(o)
  <2>1. slab' = FALSE /\ listed' = FALSE /\ UNCHANGED <<mem, units, freelist>>
    BY <1>8 DEF Free, ReleasePage
  <2>2. live' = {}
    <3>1. FreeUnits' = Units
      BY <1>4, <1>5, <1>8, UnitsCount DEF Empties
    <3>2. ASSUME NEW p \in live'
          PROVE  FALSE
      <4>1. p \in Block /\ p.at \in Span(p.at, p.units)
        BY <3>2, <1>7, BlockType DEF Span
      <4>2. p.at \in Covered(live') /\ p.at \in Units
        BY <3>2, <4>1 DEF Covered, Block
      <4>3. FreeUnits' = Units \ Covered(live')
        BY DEF FreeUnits, Covered
      <4> QED
        BY <3>1, <4>2, <4>3
    <3> QED
      BY <3>2
  <2>3. TypeOK'
    BY <2>1, <1>1, <1>7 DEF TypeOK
  <2>4. ListIsHoles' /\ CountIsFree' /\ NotYetOurs'
    BY <2>1, <2>2 DEF ListIsHoles, CountIsFree, NotYetOurs
  <2> QED
    BY <2>1, <2>3, <2>4, <1>7 DEF Inv
<1>9. CASE ~Empties(o) /\ ~listed
  <2>1. /\ units' = o.units /\ freelist' = o.at /\ listed' = TRUE /\ slab' = slab
        /\ mem' = set_slob(mem, o.at, o.units, PageUnits)
    BY <1>9 DEF Free, FirstFree
  <2>2. units = 0 /\ FreeUnits = {}
    BY <1>1, <1>3, <1>9, UnitsCount
  <2>3. /\ mem' \in [Units -> Int]
        /\ Lists(mem', o.at, Holes(Span(o.at, o.units)))
        /\ \A x \in Units : x \notin Span(o.at, o.units) => mem'[x] = mem[x]
    BY <2>1, <1>1, <1>2, OnlyBlock
  <2>4. FreeUnits' = Span(o.at, o.units) /\ units' = units + o.units
    BY <2>1, <2>2, <1>2, <1>3
  <2>5. TypeOK'
    BY <2>1, <2>3, <2>4, <1>1, <1>2, <1>6, <1>7 DEF TypeOK
  <2>6. ListIsHoles'
    BY <2>1, <2>3, <2>4 DEF ListIsHoles
  <2>7. CountIsFree' /\ NotYetOurs'
    BY <2>1, <2>4, <1>1, <1>5, <1>6 DEF CountIsFree, NotYetOurs
  <2> QED
    BY <2>3, <2>5, <2>6, <2>7, <1>7 DEF Inv
<1>10. CASE ~Empties(o) /\ listed
  <2>1. /\ units' = units + o.units /\ slab' = slab /\ listed' = listed
        /\ IF GoesFirst(o) THEN FreeBeforeAll(o) ELSE FreeAfter(o)
    BY <1>10 DEF Free, PartlyFree
  <2>2. Lists(mem, freelist, Holes(FreeUnits)) /\ FreeUnits # {}
    <3>1. Cardinality(FreeUnits) # 0
      BY <1>1, <1>10
    <3> QED
      BY <3>1, <1>1, <1>3, <1>10, UnitsCount
  <2>3. Freed(mem', freelist', mem, FreeUnits, o)
    <3>1. CASE GoesFirst(o)
      <4>1. /\ freelist' = o.at
            /\ mem' = IF Adjacent(o.at, o.units, freelist)
                      THEN set_slob(mem, o.at, o.units + slob_units(mem, freelist),
                                    slob_next(mem, freelist))
                      ELSE set_slob(mem, o.at, o.units, freelist)
            /\ o.at < freelist
        BY <2>1, <3>1 DEF FreeBeforeAll, GoesFirst
      <4>2. freelist # PageUnits
        BY <2>2, <1>3, ListStartsAtBlock
      <4> QED
        BY <4>1, <4>2, <2>2, <1>1, <1>2, <1>3, FreeLow
    <3>2. CASE ~GoesFirst(o)
      <4> DEFINE w == Walk(mem, freelist)
                 k == CHOOSE i \in DOMAIN w :
                         w[i] < o.at /\ (i = PageUnits \/ w[i + 1] > o.at)
                 prev == w[k]
                 next == slob_next(mem, prev)
                 m1 == IF ~slob_last(mem, prev) /\ Adjacent(o.at, o.units, next)
                       THEN set_slob(mem, o.at, o.units + slob_units(mem, next),
                                     slob_next(mem, next))
                       ELSE set_slob(mem, o.at, o.units, next)
      <4>1. /\ mem' = IF Adjacent(prev, slob_units(m1, prev), o.at)
                      THEN set_slob(m1, prev, slob_units(m1, o.at) + slob_units(m1, prev),
                                    slob_next(m1, o.at))
                      ELSE set_slob(m1, prev, slob_units(m1, prev), o.at)
            /\ freelist' = freelist
        BY <2>1, <3>2 DEF FreeAfter
      <4>2. ~(o.at < freelist)
        BY <3>2 DEF GoesFirst
      <4> HIDE DEF w
      <4>3. PICK p \in Holes(FreeUnits) :
               w[k] = p.at /\ p.at < o.at /\ o.at < slob_next(mem, p.at)
        <5>1. w = Walk(mem, freelist)
          BY DEF w
        <5>2. /\ \E i \in DOMAIN w : w[i] < o.at /\ (i = PageUnits \/ w[i + 1] > o.at)
              /\ \A j \in DOMAIN w : w[j] < o.at /\ (j = PageUnits \/ w[j + 1] > o.at) =>
                    \E p \in Holes(FreeUnits) :
                       w[j] = p.at /\ p.at < o.at /\ o.at < slob_next(mem, p.at)
          BY <5>1, <4>2, <2>2, <1>1, <1>2, <1>3, LinkBefore
        <5>3. k \in DOMAIN w /\ w[k] < o.at /\ (k = PageUnits \/ w[k + 1] > o.at)
          BY <5>2
        <5> HIDE DEF k
        <5> QED
          BY <5>2, <5>3
      <4>4. prev = p.at
        BY <4>3
      <4> HIDE DEF prev, k
      <4> QED
        BY <4>1, <4>3, <4>4, <2>2, <1>1, <1>2, <1>3, FreeHigh
    <3> QED
      BY <3>1, <3>2
  <2>4. /\ mem' \in [Units -> Int]
        /\ Lists(mem', freelist', Holes(FreeUnits'))
        /\ \A x \in Units : x \notin FreeUnits \cup Span(o.at, o.units) => mem'[x] = mem[x]
    BY <2>3, <1>3 DEF Freed
  <2>5. freelist' \in 0 .. PageUnits
    BY <2>4, <1>4, HoleFacts, ListStart
  <2>6. TypeOK'
    BY <2>1, <2>4, <2>5, <1>1, <1>6, <1>7 DEF TypeOK
  <2>7. ListIsHoles'
    BY <2>4 DEF ListIsHoles
  <2>8. CountIsFree' /\ NotYetOurs'
    BY <2>1, <1>1, <1>5, <1>6, <1>10 DEF CountIsFree, NotYetOurs
  <2> QED
    BY <2>4, <2>6, <2>7, <2>8, <1>7 DEF Inv
<1> QED
  BY <1>8, <1>9, <1>10

(* The owner of an object writes it: the list lies elsewhere.                *)
LEMMA PageWrite ==
    ASSUME Inv, NEW o \in live, NEW v \in UserValues, UserWrite(o, v)
    PROVE  Inv'
<1>1. /\ mem' = [u \in Units |-> IF u \in Span(o.at, o.units) THEN v ELSE mem[u]]
      /\ UNCHANGED <<slab, listed, units, freelist, live, ret>>
      /\ mem \in [Units -> Int] /\ v \in Int
  BY UserValuesAssumption DEF UserWrite, Inv, TypeOK
<1>2. mem' \in [Units -> Int] /\ \A u \in FreeUnits : u \in Units /\ mem'[u] = mem[u]
  <2>1. Span(o.at, o.units) \cap FreeUnits = {}
    BY ObjectUnits DEF Inv
  <2> QED
    BY <2>1, <1>1, FreeType
<1>3. FreeUnits' = FreeUnits
  BY <1>1 DEF FreeUnits, Covered
<1>4. TypeOK' /\ Apart(live, 0)' /\ NotYetOurs' /\ CountIsFree'
  BY <1>1, <1>2, <1>3 DEF Inv, TypeOK, Apart, NotYetOurs, CountIsFree
<1>5. ListIsHoles'
  <2> SUFFICES ASSUME listed
               PROVE  Lists(mem', freelist, Holes(FreeUnits))
    BY <1>1, <1>3 DEF ListIsHoles
  <2>1. /\ Lists(mem, freelist, Holes(FreeUnits)) /\ Holes(FreeUnits) \in SUBSET Block
        /\ \A b \in Holes(FreeUnits) : b.at + b.units <= PageUnits
    BY FreeType, HoleFacts DEF Inv, ListIsHoles
  <2>2. ASSUME NEW u \in Units, NEW b \in Holes(FreeUnits), b.at <= u, u < b.at + b.units
        PROVE  mem'[u] = mem[u]
    <3>1. u \in Int
      BY PageUnitsAssumption DEF Units
    <3>2. u \in FreeUnits
      BY <2>2, <3>1, FreeType, HoleFacts
    <3> QED
      BY <3>2, <1>2
  <2> QED
    BY <2>1, <2>2, ListsFrame
<1> QED
  BY <1>4, <1>5 DEF Inv

(* No page yet: nothing to list, nothing to count.                          *)
LEMMA InitInv == Init => Inv
<1> SUFFICES ASSUME Init
             PROVE  Inv
  OBVIOUS
<1>1. PageUnits \in Nat \ {0}
  BY PageUnitsAssumption
<1>2. TypeOK
  <2>1. 0 \in 0 .. PageUnits /\ mem \in [Units -> Int]
    BY <1>1 DEF Init
  <2> QED
    BY <2>1 DEF Init, TypeOK
<1>3. Apart(live, 0)
  BY DEF Init, Apart
<1>4. ListIsHoles /\ CountIsFree /\ NotYetOurs
  BY DEF Init, ListIsHoles, CountIsFree, NotYetOurs
<1> QED
  BY <1>2, <1>3, <1>4 DEF Inv

(* Every operation on the page keeps the invariant.                         *)
LEMMA NextInv == Inv /\ [Next]_vars => Inv'
<1> SUFFICES ASSUME Inv, [Next]_vars
             PROVE  Inv'
  OBVIOUS
<1>1. ASSUME NEW n \in 1 .. PageUnits, NEW align \in Aligns, NewPage(n, align)
      PROVE  Inv'
  BY <1>1, PageNew
<1>2. ASSUME NEW n \in 1 .. PageUnits, NEW align \in Aligns, TryPage(n, align)
      PROVE  Inv'
  BY <1>2, PageTry
<1>3. ASSUME NEW o \in live, Free(o)
      PROVE  Inv'
  BY <1>3, PageFree
<1>4. ASSUME NEW o \in live, NEW v \in UserValues, UserWrite(o, v)
      PROVE  Inv'
  BY <1>4, PageWrite
<1>5. CASE UNCHANGED vars
  BY <1>5 DEF vars, Inv, TypeOK, Apart, ListIsHoles, CountIsFree, NotYetOurs,
              FreeUnits, Covered
<1> QED
  BY <1>1, <1>2, <1>3, <1>4, <1>5 DEF Next

(* The invariant holds in every reachable state.                            *)
LEMMA AlwaysInv == Spec => []Inv
  BY InitInv, NextInv, PTL DEF Spec

(***************************************************************************)
(* What holds of a page.                                                    *)
(***************************************************************************)

(* slob_page_alloc and slob_free write sizes and links in the page only,     *)
(* never past its end, and the count and the list head stay within the page  *)
(* (slob.c:156-168, sp->units, sp->freelist), whatever the size of the page, *)
(* the requests and what the callers write.                                  *)
THEOREM TypeCorrect == Spec => []TypeOK
<1>1. Inv => TypeOK
  BY DEF Inv
<1> QED
  BY <1>1, AlwaysInv, PTL

(* The list that is threaded through the free memory is the list of the gaps *)
(* between the objects, and sp->units counts what is on it: slob_page_alloc  *)
(* and slob_free lose no unit, list none twice and leave no two free         *)
(* neighbours apart, on a page of any size, for any requests, and whatever   *)
(* the callers write.                                                       *)
THEOREM ListIsTheHoles == Spec => []FreeListIsTheHoles
<1>1. Inv => FreeListIsTheHoles
  <2> SUFFICES ASSUME Inv
               PROVE  FreeListIsTheHoles
    OBVIOUS
  <2>1. ASSUME listed
        PROVE  ListedBlocks(mem, freelist) = Holes(FreeUnits)
    <3> DEFINE B == Holes(FreeUnits)
    <3>1. mem \in [Units -> Int] /\ Lists(mem, freelist, B) /\ B \in SUBSET Block
      BY <2>1, FreeType, HoleFacts DEF Inv, TypeOK, ListIsHoles
    <3>2. \A b, c \in B : b.at = c.at => b = c
      <4>1. Apart(B, 1)
        BY FreeType, HolesApart
      <4>2. \A b \in B : b.at \in Int /\ b.units \in Int /\ 1 <= b.units
        BY <3>1, BlockType
      <4> QED
        BY <4>1, <4>2 DEF Apart
    <3> QED
      BY <3>1, <3>2, WalkedBlocks
  <2> QED
    BY <2>1 DEF Inv, CountIsFree, FreeListIsTheHoles
<1> QED
  BY <1>1, AlwaysInv, PTL

(* slob_page_alloc and slob_free write only free memory: an object that      *)
(* stays live keeps what its owner wrote.                                   *)
THEOREM ObjectsAreSpared == Spec => SparesObjects
<1> DEFINE Quiet == \A o \in live, v \in UserValues : ~UserWrite(o, v)
           Kept == \A o \in live \cap live' : \A u \in Span(o.at, o.units) : mem'[u] = mem[u]
<1>1. Inv /\ [Next]_vars => [Quiet => Kept]_vars
  <2> SUFFICES ASSUME Inv, Next, Quiet, NEW o \in live, o \in live',
                      NEW u \in Span(o.at, o.units)
               PROVE  mem'[u] = mem[u]
    OBVIOUS
  <2>1. u \in Units /\ u \notin FreeUnits
    BY ObjectUnits DEF Inv
  <2>2. ASSUME NEW n \in 1 .. PageUnits, NEW align \in Aligns, NewPage(n, align)
        PROVE  mem'[u] = mem[u]
    BY <2>2, PageNew
  <2>3. ASSUME NEW n \in 1 .. PageUnits, NEW align \in Aligns, TryPage(n, align)
        PROVE  mem'[u] = mem[u]
    BY <2>1, <2>3, PageTry
  <2>4. ASSUME NEW p \in live, Free(p)
        PROVE  mem'[u] = mem[u]
    <3>1. live' = live \ {p} /\ p # o
      BY <2>4 DEF Free
    <3>2. u \in Int /\ o.at <= u /\ u < o.at + o.units
          /\ o.at \in Int /\ o.units \in Int /\ p.at \in Int /\ p.units \in Int
      <4>1. /\ o.at \in Int /\ o.units \in Int /\ p.at \in Int /\ p.units \in Int
        BY ApartBlock DEF Inv
      <4> QED
        BY <4>1 DEF Span
    <3>3. o.at + o.units <= p.at \/ p.at + p.units <= o.at
      BY <3>1, ApartBlock DEF Inv
    <3>4. u \notin Span(p.at, p.units)
      BY <3>2, <3>3 DEF Span
    <3> QED
      BY <2>1, <2>4, <3>4, PageFree
  <2> QED
    BY <2>2, <2>3, <2>4 DEF Next
<1>2. SparesObjects <=> [][Quiet => Kept]_vars
  BY DEF SparesObjects
<1> HIDE DEF Quiet, Kept
<1> QED
  BY <1>1, <1>2, AlwaysInv, PTL DEF Spec

(* The page, with its list in memory that it shares with its callers, is the *)
(* heap that has no list: every allocation is the best fit among the gaps,   *)
(* it fails only when none has room, and a free gives the span back whole.   *)
THEOREM PageImplementsHeap == Spec => ImplementsHeap
<1>1. Init => Heap!Init
  BY DEF Init, Heap!Init
<1>2. Inv /\ [Next]_vars => [Heap!Next]_(Heap!vars)
  <2> SUFFICES ASSUME Inv, [Next]_vars
               PROVE  [Heap!Next]_(Heap!vars)
    OBVIOUS
  <2>1. ASSUME NEW n \in 1 .. PageUnits, NEW align \in Aligns, HeapAllocates(n, align)
        PROVE  Heap!Next
    BY <2>1 DEF HeapAllocates, Heap!Next
  <2>2. ASSUME NEW n \in 1 .. PageUnits, NEW align \in Aligns,
               NewPage(n, align) \/ TryPage(n, align)
        PROVE  Heap!Next
    BY <2>1, <2>2, PageNew, PageTry
  <2>3. ASSUME NEW o \in live, Free(o)
        PROVE  Heap!Next
    BY <2>3 DEF Free, Heap!Next, Heap!Release
  <2>4. ASSUME NEW o \in live, NEW v \in UserValues, UserWrite(o, v)
        PROVE  UNCHANGED Heap!vars
    BY <2>4 DEF UserWrite, Heap!vars
  <2>5. CASE UNCHANGED vars
    BY <2>5 DEF vars, Heap!vars
  <2> QED
    BY <2>2, <2>3, <2>4, <2>5 DEF Next
<1> QED
  BY <1>1, <1>2, AlwaysInv, PTL DEF Spec, ImplementsHeap, Heap!Spec

(* An allocation of the heap overlaps no live object and stays inside the    *)
(* page, and freeing an object disturbs no other.                           *)
THEOREM HeapIsSafe == Heap!Spec => []Heap!Safe
<1>1. Heap!Init => Heap!Safe
  BY DEF Heap!Init, Heap!Safe, Heap!NoOverlap, Heap!InsidePage, Heap!Covered
<1>2. Heap!Safe /\ [Heap!Next]_(Heap!vars) => Heap!Safe'
  <2> SUFFICES ASSUME Heap!Safe, [Heap!Next]_(Heap!vars)
               PROVE  Heap!Safe'
    OBVIOUS
  <2>1. ASSUME NEW n \in 1 .. PageUnits, NEW align \in Aligns, Heap!Alloc(n, align)
        PROVE  Heap!Safe'
    <3>1. PICK at \in Units :
             /\ live' = live \cup {[at |-> at, units |-> n]}
             /\ \E h \in BestFit(Holes(FreeUnits), n, align) : at = Placed(h, align)
      BY <2>1, SameHeap DEF Heap!Alloc
    <3>2. Span(at, n) \subseteq FreeUnits
      <4>1. FreeUnits \in SUBSET Units /\ n \in Nat \ {0} /\ align \in Nat
        BY PageUnitsAssumption, AlignsAssumption DEF FreeUnits
      <4> QED
        BY <3>1, <4>1, PlacedInHole
    <3>3. \A u \in Span(at, n) : u \in Units /\ u \notin Covered(live)
      BY <3>2 DEF FreeUnits
    <3> DEFINE new == [at |-> at, units |-> n]
    <3>4. new.at = at /\ new.units = n
      OBVIOUS
    <3> HIDE DEF new
    <3>5. live' = live \cup {new}
      BY <3>1 DEF new
    <3>6. \A a, k : Heap!Span(a, k) = Span(a, k)
      BY DEF Heap!Span, Span
    <3>7. \A o \in live : Span(o.at, o.units) \cap Span(new.at, new.units) = {}
      BY <3>3, <3>4 DEF Covered
    <3>8. Heap!NoOverlap'
      BY <3>5, <3>6, <3>7 DEF Heap!Safe, Heap!NoOverlap
    <3>9. Heap!InsidePage'
      BY <3>3, <3>4, <3>5, <3>6, SameHeap DEF Heap!Safe, Heap!InsidePage, Heap!Covered
    <3> QED
      BY <3>8, <3>9 DEF Heap!Safe
  <2>2. ASSUME NEW n \in 1 .. PageUnits, NEW align \in Aligns, Heap!NoRoom(n, align)
        PROVE  Heap!Safe'
    BY <2>2 DEF Heap!NoRoom, Heap!Safe, Heap!NoOverlap, Heap!InsidePage, Heap!Covered
  <2>3. ASSUME NEW o \in live, Heap!Release(o)
        PROVE  Heap!Safe'
    BY <2>3 DEF Heap!Release, Heap!Safe, Heap!NoOverlap, Heap!InsidePage, Heap!Covered
  <2>4. CASE UNCHANGED Heap!vars
    BY <2>4 DEF Heap!vars, Heap!Safe, Heap!NoOverlap, Heap!InsidePage, Heap!Covered
  <2> QED
    BY <2>1, <2>2, <2>3, <2>4 DEF Heap!Next
<1> QED
  BY <1>1, <1>2, PTL DEF Heap!Spec

(* The objects of a page therefore never overlap and lie inside it, although *)
(* the code finds their place by what callers may have written around it.    *)
COROLLARY ObjectsNeverOverlap == Spec => []Heap!Safe
  BY PageImplementsHeap, HeapIsSafe, PTL DEF ImplementsHeap
=============================================================================
