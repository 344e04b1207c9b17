------------------------------ MODULE SlobProofs ------------------------------
(***************************************************************************)
(* Proofs that Slob keeps its objects apart and its lists right, for any    *)
(* finite page size, any set of pages and threads and any request sizes     *)
(* that fit a page; then, from "Calls" on, that SlobFrontEnd implements     *)
(* Slob, accounts for every block, leaves objects to their owners and        *)
(* answers the statistics calls correctly, for any contexts, readers, sizes  *)
(* of kmalloc and caches and any finite memory.                             *)
(***************************************************************************)
EXTENDS SlobFrontEnd, SlobHolesProofs, FiniteSetTheorems, SequenceTheorems, TLAPS

(***************************************************************************)
(* Lists of pages.                                                          *)
(***************************************************************************)

\* A list has each of its pages once.
Once(l) == \A i, j \in 1 .. Len(l) : l[i] = l[j] => i = j

(* The domain of a list, and the set of its elements.                       *)
LEMMA ToSetOfSeq ==
    ASSUME NEW S, NEW l \in Seq(S)
    PROVE  /\ DOMAIN l = 1 .. Len(l) /\ Len(l) \in Nat
           /\ ToSet(l) = {l[i] : i \in 1 .. Len(l)}
  BY LenProperties DEF ToSet

(* Where the pages of a list go when the i-th leaves it.                     *)
LEMMA RemovedAt ==
    ASSUME NEW l \in Seq(Pages), NEW i \in 1 .. Len(l)
    PROVE  /\ RemoveAt(l, i) \in Seq(Pages) /\ Len(RemoveAt(l, i)) = Len(l) - 1
           /\ \A k \in 1 .. Len(l) - 1 :
                 RemoveAt(l, i)[k] = IF k < i THEN l[k] ELSE l[k + 1]
<1> DEFINE x == SubSeq(l, 1, i - 1)
           y == SubSeq(l, i + 1, Len(l))
<1>1. Len(l) \in Nat
  BY LenProperties
<1>2. /\ x \in Seq(Pages) /\ Len(x) = i - 1
      /\ \A k \in 1 .. i - 1 : x[k] = l[k]
  BY <1>1, SubSeqProperties
<1>3. /\ y \in Seq(Pages) /\ Len(y) = Len(l) - i
      /\ \A k \in 1 .. Len(l) - i : y[k] = l[i + k]
  BY <1>1, SubSeqProperties
<1> HIDE DEF x, y
<1>4. PICK r : r = x \o y
  OBVIOUS
<1>5. /\ r \in Seq(Pages) /\ Len(r) = Len(x) + Len(y)
      /\ \A k \in 1 .. Len(x) + Len(y) :
            r[k] = IF k <= Len(x) THEN x[k] ELSE y[k - Len(x)]
  BY <1>2, <1>3, <1>4, ConcatProperties
<1>6. /\ r \in Seq(Pages) /\ Len(r) = Len(l) - 1
      /\ \A k \in 1 .. Len(l) - 1 : r[k] = IF k < i THEN l[k] ELSE l[k + 1]
  <2>1. Len(r) = Len(l) - 1
    BY <1>1, <1>2, <1>3, <1>5
  <2>2. ASSUME NEW k \in 1 .. Len(l) - 1, k < i
        PROVE  r[k] = l[k]
    <3>1. k \in 1 .. Len(x) + Len(y) /\ k <= Len(x) /\ k \in 1 .. i - 1
      BY <1>1, <1>2, <1>3, <2>2
    <3> QED
      BY <1>2, <1>5, <3>1
  <2>3. ASSUME NEW k \in 1 .. Len(l) - 1, ~(k < i)
        PROVE  r[k] = l[k + 1]
    <3>1. PICK b \in 1 .. Len(l) - i : b = k - (i - 1) /\ i + b = k + 1
      BY <1>1, <2>3
    <3>2. k \in 1 .. Len(x) + Len(y) /\ ~(k <= Len(x)) /\ k - Len(x) = b
      BY <1>1, <1>2, <1>3, <2>3, <3>1
    <3>3. r[k] = y[b]
      BY <1>5, <3>2
    <3>4. y[b] = l[i + b]
      BY <1>3, <3>1
    <3> QED
      BY <3>1, <3>3, <3>4
  <2> QED
    BY <1>5, <2>1, <2>2, <2>3
<1>7. RemoveAt(l, i) = r
  BY <1>4 DEF x, y, RemoveAt
<1> QED
  BY <1>6, <1>7

(* A page that leaves a list is no longer on it, and the others still are.  *)
LEMMA RemoveAtPages ==
    ASSUME NEW l \in Seq(Pages), Once(l), NEW i \in 1 .. Len(l)
    PROVE  /\ RemoveAt(l, i) \in Seq(Pages)
           /\ Once(RemoveAt(l, i))
           /\ ToSet(RemoveAt(l, i)) = ToSet(l) \ {l[i]}
<1>1. Len(l) \in Nat
  BY LenProperties
<1>2. PICK r : r = RemoveAt(l, i)
  OBVIOUS
<1>4. /\ r \in Seq(Pages)
      /\ Len(r) = Len(l) - 1
      /\ \A k \in 1 .. Len(l) - 1 : r[k] = IF k < i THEN l[k] ELSE l[k + 1]
  BY <1>2, RemovedAt
<1>5. Once(r)
  <2> SUFFICES ASSUME NEW a \in 1 .. Len(l) - 1, NEW b \in 1 .. Len(l) - 1, r[a] = r[b]
               PROVE  a = b
    BY <1>4 DEF Once
  <2>1. PICK x \in 1 .. Len(l) : r[a] = l[x] /\ x = IF a < i THEN a ELSE a + 1
    BY <1>1, <1>4
  <2>2. PICK y \in 1 .. Len(l) : r[b] = l[y] /\ y = IF b < i THEN b ELSE b + 1
    BY <1>1, <1>4
  <2>3. x = y
    BY <2>1, <2>2 DEF Once
  <2> QED
    BY <1>1, <2>1, <2>2, <2>3
<1>6. ToSet(r) = ToSet(l) \ {l[i]}
  <2>1. \A k \in 1 .. Len(l) - 1 : r[k] \in ToSet(l) /\ r[k] # l[i]
    BY <1>1, <1>4, ToSetOfSeq DEF Once
  <2>2. ASSUME NEW j \in 1 .. Len(l), j # i
        PROVE  \E k \in 1 .. Len(l) - 1 : r[k] = l[j]
    <3>1. CASE j < i
      BY <1>1, <1>4, <3>1
    <3>2. CASE j > i
      <4>1. j - 1 \in 1 .. Len(l) - 1 /\ r[j - 1] = l[j]
        BY <1>1, <1>4, <3>2
      <4> QED
        BY <4>1
    <3> QED
      BY <2>2, <3>1, <3>2
  <2>3. ToSet(r) = {r[k] : k \in 1 .. Len(l) - 1}
    BY <1>4, ToSetOfSeq
  <2>4. ToSet(l) = {l[j] : j \in 1 .. Len(l)}
    BY ToSetOfSeq
  <2>5. ToSet(r) \subseteq ToSet(l) \ {l[i]}
    BY <2>1, <2>3
  <2>6. ASSUME NEW e \in ToSet(l) \ {l[i]}
        PROVE  e \in ToSet(r)
    <3>1. PICK j \in 1 .. Len(l) : e = l[j]
      BY <2>4
    <3>2. j # i
      BY <3>1
    <3> QED
      BY <2>2, <2>3, <3>1, <3>2
  <2> QED
    BY <2>5, <2>6
<1> QED
  BY <1>2, <1>4, <1>5, <1>6

(* slob_alloc's two guards (slob.c:396-397) let the list be rotated to its    *)
(* i-th page just where there is one and it is not the first already; they    *)
(* never let slob_list be moved before itself.                               *)
LEMMA RotatedIs ==
    ASSUME NEW l, Len(l) \in Nat, NEW i \in 1 .. Len(l) + 1
    PROVE  Rotated(l, i) = IF i \in 2 .. Len(l)
                           THEN SubSeq(l, i, Len(l)) \o SubSeq(l, 1, i - 1) ELSE l
<1>1. PICK n \in Nat : n = Len(l)
  OBVIOUS
<1>2. PICK prev \in 0 .. n : prev = i - 1
  BY <1>1
<1>3. /\ LruPrev(l, 0) = n /\ LruNext(l, 0) = (IF n > 0 THEN 1 ELSE 0)
      /\ LruNext(l, prev) = IF prev < n THEN i ELSE 0
  BY <1>1, <1>2 DEF LruPrev, LruNext
<1>4. Rotated(l, i) = IF prev # LruPrev(l, 0) /\ LruNext(l, 0) # LruNext(l, prev)
                      THEN StartAt(l, LruNext(l, prev)) ELSE l
  BY <1>2 DEF Rotated
<1>5. CASE i \in 2 .. Len(l)
  <2>1. prev # LruPrev(l, 0) /\ LruNext(l, 0) # LruNext(l, prev) /\ LruNext(l, prev) = i
    BY <1>1, <1>2, <1>3, <1>5
  <2>2. StartAt(l, i) = SubSeq(l, i, Len(l)) \o SubSeq(l, 1, i - 1)
    BY <1>5 DEF StartAt
  <2> QED
    BY <1>4, <1>5, <2>1, <2>2
<1>6. CASE i \notin 2 .. Len(l)
  <2>1. ~(prev # LruPrev(l, 0) /\ LruNext(l, 0) # LruNext(l, prev))
    BY <1>1, <1>2, <1>3, <1>6
  <2> QED
    BY <1>4, <1>6, <2>1
<1> QED
  BY <1>5, <1>6

(* Where the pages of a list go when it is rotated to its i-th; past the end *)
(* is where it was.                                                         *)
LEMMA RotatedAt ==
    ASSUME NEW l \in Seq(Pages), NEW i \in 1 .. Len(l) + 1
    PROVE  /\ Rotated(l, i) \in Seq(Pages) /\ Len(Rotated(l, i)) = Len(l)
           /\ \A k \in 1 .. Len(l) :
                 Rotated(l, i)[k] =
                    IF k <= Len(l) - i + 1 THEN l[i + k - 1] ELSE l[k - (Len(l) - i + 1)]
<1>1. Len(l) \in Nat
  BY LenProperties
<1>2. CASE i \notin 2 .. Len(l)
  <2>1. Rotated(l, i) = l
    BY <1>1, <1>2, RotatedIs
  <2>2. i = 1 \/ i = Len(l) + 1
    BY <1>1, <1>2
  <2>3. \A k \in 1 .. Len(l) : IF k <= Len(l) - i + 1 THEN i + k - 1 = k
                                                      ELSE k - (Len(l) - i + 1) = k
    BY <1>1, <2>2
  <2> QED
    BY <2>1, <2>3
<1>3. CASE i \in 2 .. Len(l)
  <2> DEFINE x == SubSeq(l, i, Len(l))
             y == SubSeq(l, 1, i - 1)
  <2>1. /\ x \in Seq(Pages) /\ Len(x) = Len(l) - i + 1
        /\ \A k \in 1 .. Len(l) - i + 1 : x[k] = l[i + k - 1]
    BY <1>1, <1>3, SubSeqProperties
  <2>2. /\ y \in Seq(Pages) /\ Len(y) = i - 1
        /\ \A k \in 1 .. i - 1 : y[k] = l[k]
    BY <1>1, <1>3, SubSeqProperties
  <2> HIDE DEF x, y
  <2>3. /\ x \o y \in Seq(Pages) /\ Len(x \o y) = Len(x) + Len(y)
        /\ \A k \in 1 .. Len(x) + Len(y) :
              (x \o y)[k] = IF k <= Len(x) THEN x[k] ELSE y[k - Len(x)]
    BY <2>1, <2>2, ConcatProperties
  <2>4. PICK r : r = x \o y
    OBVIOUS
  <2>5. /\ r \in Seq(Pages) /\ Len(r) = Len(l)
        /\ \A k \in 1 .. Len(l) :
              r[k] = IF k <= Len(l) - i + 1 THEN l[i + k - 1] ELSE l[k - (Len(l) - i + 1)]
    BY <1>1, <1>3, <2>1, <2>2, <2>3, <2>4
  <2>6. Rotated(l, i) = r
    BY <1>1, <1>3, <2>4, RotatedIs DEF x, y
  <2> QED
    BY <2>5, <2>6
<1> QED
  BY <1>2, <1>3

(* Rotating a list keeps its pages.                                         *)
LEMMA RotatedPages ==
    ASSUME NEW l \in Seq(Pages), Once(l), NEW i \in 1 .. Len(l) + 1
    PROVE  /\ Rotated(l, i) \in Seq(Pages)
           /\ Once(Rotated(l, i))
           /\ ToSet(Rotated(l, i)) = ToSet(l)
<1>1. Len(l) \in Nat
  BY LenProperties
<1>2. CASE i \notin 2 .. Len(l)
  BY <1>1, <1>2, RotatedIs
<1>3. CASE i \in 2 .. Len(l)
  <2>1. PICK m \in Int : m = Len(l) - i + 1
    BY <1>1
  <2>2. PICK r : r = Rotated(l, i)
    OBVIOUS
  <2>3. /\ r \in Seq(Pages)
        /\ Len(r) = Len(l)
        /\ \A k \in 1 .. Len(l) : r[k] = IF k <= m THEN l[i + k - 1] ELSE l[k - m]
    BY <1>1, <1>3, <2>1, <2>2, RotatedAt
  <2>m. m = Len(l) - i + 1 /\ m >= 1
    BY <1>3, <2>1
  <2>i. ASSUME NEW j \in 1 .. Len(l)
        PROVE  \E a \in 1 .. Len(l) : /\ r[j] = l[a]
                                      /\ \/ j <= m /\ a = i + j - 1 /\ a >= i
                                         \/ j > m /\ a = j - m /\ a < i
    <3>1. CASE j <= m
      <4>1. PICK a \in 1 .. Len(l) : a = i + j - 1 /\ a >= i
        <5>1. i + j - 1 \in 1 .. Len(l) /\ i + j - 1 >= i
          BY <1>1, <1>3, <2>1, <2>m, <3>1
        <5> QED
          BY <5>1
      <4>2. r[j] = l[a]
        BY <2>3, <3>1, <4>1
      <4> QED
        BY <3>1, <4>1, <4>2
    <3>2. CASE j > m
      <4>1. PICK a \in 1 .. Len(l) : a = j - m /\ a < i
        <5>1. j - m \in 1 .. Len(l) /\ j - m < i
          BY <1>1, <1>3, <2>1, <2>m, <3>2
        <5> QED
          BY <5>1
      <4>2. r[j] = l[a]
        BY <2>3, <3>2, <4>1
      <4> QED
        BY <3>2, <4>1, <4>2
    <3> QED
      BY <1>1, <2>m, <3>1, <3>2
  <2>4. Once(r)
    <3> SUFFICES ASSUME NEW j \in 1 .. Len(l), NEW k \in 1 .. Len(l), r[j] = r[k]
                 PROVE  j = k
      BY <2>3 DEF Once
    <3>1. PICK a \in 1 .. Len(l) : /\ r[j] = l[a]
                                   /\ \/ j <= m /\ a = i + j - 1 /\ a >= i
                                      \/ j > m /\ a = j - m /\ a < i
      BY <2>i
    <3>2. PICK b \in 1 .. Len(l) : /\ r[k] = l[b]
                                   /\ \/ k <= m /\ b = i + k - 1 /\ b >= i
                                      \/ k > m /\ b = k - m /\ b < i
      BY <2>i
    <3>3. a = b
      BY <3>1, <3>2 DEF Once
    <3> QED
      BY <1>1, <1>3, <2>m, <3>1, <3>2, <3>3
  <2>5. ToSet(r) = ToSet(l)
    <3>1. \A k \in 1 .. Len(l) : \E j \in 1 .. Len(l) : r[k] = l[j]
      BY <2>i
    <3>2. \A j \in 1 .. Len(l) : \E k \in 1 .. Len(l) : r[k] = l[j]
      <4> SUFFICES ASSUME NEW j \in 1 .. Len(l)
                   PROVE  \E k \in 1 .. Len(l) : r[k] = l[j]
        OBVIOUS
      <4>1. CASE j >= i
        <5> DEFINE k == j - i + 1
        <5>1. k \in 1 .. Len(l) /\ k <= m /\ i + k - 1 = j
          BY <1>1, <1>3, <2>m, <4>1
        <5> HIDE DEF k
        <5>2. r[k] = l[j]
          BY <2>3, <5>1
        <5> QED
          BY <5>1, <5>2
      <4>2. CASE j < i
        <5> DEFINE k == j + m
        <5>1. k \in 1 .. Len(l) /\ ~(k <= m) /\ k - m = j
          BY <1>1, <1>3, <2>m, <4>2
        <5> HIDE DEF k
        <5>2. r[k] = l[j]
          BY <2>3, <5>1
        <5> QED
          BY <5>1, <5>2
      <4> QED
        BY <1>1, <1>3, <2>m, <4>1, <4>2
    <3>3. ToSet(r) = {r[k] : k \in 1 .. Len(l)}
      BY <2>3, ToSetOfSeq
    <3>4. ToSet(l) = {l[k] : k \in 1 .. Len(l)}
      BY ToSetOfSeq
    <3> QED
      BY <3>1, <3>2, <3>3, <3>4
  <2> QED
    BY <2>2, <2>3, <2>4, <2>5
<1> QED
  BY <1>2, <1>3

(* Taking a page off a list, whether or not it is there.                    *)
LEMMA UnlistedPages ==
    ASSUME NEW l \in Seq(Pages), Once(l), NEW p
    PROVE  /\ Unlisted(l, p) \in Seq(Pages)
           /\ Once(Unlisted(l, p))
           /\ ToSet(Unlisted(l, p)) = ToSet(l) \ {p}
<1>1. CASE p \notin ToSet(l)
  BY <1>1 DEF Unlisted
<1>2. CASE p \in ToSet(l)
  <2> DEFINE i == CHOOSE k \in DOMAIN l : l[k] = p
  <2>1. i \in 1 .. Len(l) /\ l[i] = p
    BY <1>2, ToSetOfSeq
  <2> QED
    BY <1>2, <2>1, RemoveAtPages DEF Unlisted
<1> QED
  BY <1>1, <1>2

(* Putting a page in front of a list it is not on.                          *)
LEMMA PushedPages ==
    ASSUME NEW l \in Seq(Pages), Once(l), NEW p \in Pages, p \notin ToSet(l)
    PROVE  /\ <<p>> \o l \in Seq(Pages)
           /\ Once(<<p>> \o l)
           /\ ToSet(<<p>> \o l) = ToSet(l) \cup {p}
<1>1. /\ <<p>> \in Seq(Pages) /\ Len(<<p>>) = 1 /\ <<p>>[1] = p
      /\ Len(l) \in Nat
  BY LenProperties
<1> DEFINE r == <<p>> \o l
<1>2. /\ r \in Seq(Pages) /\ Len(r) = 1 + Len(l)
      /\ \A k \in 1 .. 1 + Len(l) : r[k] = IF k <= 1 THEN <<p>>[k] ELSE l[k - 1]
  BY <1>1, ConcatProperties
<1> HIDE DEF r
<1>3. \A k \in 1 .. 1 + Len(l) : r[k] = IF k = 1 THEN p ELSE l[k - 1]
  BY <1>1, <1>2
<1>4. \A j \in 1 .. Len(l) : l[j] # p /\ j + 1 \in 1 .. 1 + Len(l) /\ r[j + 1] = l[j]
  BY <1>1, <1>3, ToSetOfSeq
<1>5. Once(r)
  <2> SUFFICES ASSUME NEW j \in 1 .. 1 + Len(l), NEW k \in 1 .. 1 + Len(l),
                      r[j] = r[k]
               PROVE  j = k
    BY <1>2 DEF Once
  <2>1. CASE j = 1 \/ k = 1
    BY <1>1, <1>3, <1>4, <2>1
  <2>2. CASE j # 1 /\ k # 1
    <3>1. /\ j - 1 \in 1 .. Len(l) /\ k - 1 \in 1 .. Len(l)
          /\ l[j - 1] = l[k - 1]
      BY <1>1, <1>3, <2>2
    <3> QED
      BY <1>1, <3>1 DEF Once
  <2> QED
    BY <2>1, <2>2
<1>6. ToSet(r) = ToSet(l) \cup {p}
  <2>1. ToSet(r) \subseteq ToSet(l) \cup {p}
    BY <1>1, <1>2, <1>3, ToSetOfSeq
  <2>2. p \in ToSet(r)
    BY <1>1, <1>2, <1>3, ToSetOfSeq
  <2>3. ToSet(l) \subseteq ToSet(r)
    BY <1>1, <1>2, <1>4, ToSetOfSeq
  <2> QED
    BY <2>1, <2>2, <2>3
<1> QED
  BY <1>2, <1>5, <1>6 DEF r

(***************************************************************************)
(* The inductive invariant: the safety properties of Slob, ListedOnce in    *)
(* terms of the sets of pages on the lists, and what the threads hold       *)
(* outside the lock.                                                        *)
(***************************************************************************)

ListsSound ==
    /\ \A c \in Classes : Once(lists[c])
    /\ \A c, d \in Classes : c # d => ToSet(lists[c]) \cap ToSet(lists[d]) = {}
    /\ \A p \in Pages : Listed(p) <=> InUse(p) /\ units[p] > 0

\* A page outside the lock is one thread's alone, on its way in or out.
HeldApart ==
    /\ \A t \in Threads : pc[t] \in {"grow", "fresh"} => req[t] \in Request
    /\ \A t \in Threads : pc[t] \in {"fresh", "put"} => page[t] \in slab
    /\ \A t \in Threads : pc[t] \in {"idle", "grow"} => page[t] = Nil
    /\ \A t, u \in Threads : t # u /\ page[t] = page[u] => page[t] = Nil

PagesSound == ObjectsApart /\ NothingLost /\ NoEmptyPage

IInv == TypeOK /\ HeldApart /\ PagesSound /\ ListsSound /\ Segregated

(***************************************************************************)
(* Spans, objects and pages.                                                *)
(***************************************************************************)

(* A page has PageUnits units.                                              *)
LEMMA UnitsFinite == IsFiniteSet(Units) /\ Cardinality(Units) = PageUnits
  BY PageUnitsAssumption, FS_Interval DEF Units

(* A span of n units has n of them.                                         *)
LEMMA SpanSize ==
    ASSUME NEW at \in Int, NEW n \in Nat \ {0}
    PROVE  /\ IsFiniteSet(Span(at, n)) /\ Cardinality(Span(at, n)) = n
           /\ at \in Span(at, n)
<1>1. at \in Int /\ at + n - 1 \in Int /\ ~(at > at + n - 1)
  OBVIOUS
<1>2. /\ IsFiniteSet(at .. at + n - 1)
      /\ Cardinality(at .. at + n - 1) = (at + n - 1) - at + 1
  BY <1>1, FS_Interval
<1> QED
  BY <1>2 DEF Span

(* An object covers as many units as its size asks for, at least one.       *)
LEMMA ObjectSize ==
    ASSUME NEW o \in Object
    PROVE  /\ SLOB_UNITS(o.size) \in 1 .. PageUnits
           /\ IsFiniteSet(SpanOf(o))
           /\ Cardinality(SpanOf(o)) = SLOB_UNITS(o.size)
           /\ SpanOf(o) # {}
<1>1. o.at \in Int /\ SLOB_UNITS(o.size) \in 1 .. PageUnits
  BY SizesAssumption, PageUnitsAssumption DEF Object, Units
<1>2. SLOB_UNITS(o.size) \in Nat \ {0}
  BY <1>1, PageUnitsAssumption
<1> QED
  BY <1>1, <1>2, SpanSize DEF SpanOf

(* What an object that comes changes on the pages.                          *)
LEMMA ObjectAdded ==
    ASSUME NEW o \in Object, live' = live \cup {o}
    PROVE  /\ ObjectsOn(o.page)' = ObjectsOn(o.page) \cup {o}
           /\ Occupied(o.page)' = Occupied(o.page) \cup SpanOf(o)
           /\ \A p \in Pages \ {o.page} : /\ ObjectsOn(p)' = ObjectsOn(p)
                                          /\ Occupied(p)' = Occupied(p)
<1>1. ObjectsOn(o.page)' = ObjectsOn(o.page) \cup {o}
  BY DEF ObjectsOn
<1>2. \A p \in Pages \ {o.page} : ObjectsOn(p)' = ObjectsOn(p)
  BY DEF ObjectsOn
<1>3. Occupied(o.page)' = Occupied(o.page) \cup SpanOf(o)
  BY <1>1 DEF Occupied
<1>4. \A p \in Pages \ {o.page} : Occupied(p)' = Occupied(p)
  BY <1>2 DEF Occupied
<1> QED
  BY <1>1, <1>2, <1>3, <1>4

(* What an object that goes changes on the pages.                           *)
LEMMA ObjectDropped ==
    ASSUME TypeOK, ObjectsApart, NEW o \in live, live' = live \ {o}
    PROVE  /\ ObjectsOn(o.page)' = ObjectsOn(o.page) \ {o}
           /\ Occupied(o.page)' = Occupied(o.page) \ SpanOf(o)
           /\ SpanOf(o) \subseteq Occupied(o.page)
           /\ \A p \in Pages \ {o.page} : /\ ObjectsOn(p)' = ObjectsOn(p)
                                          /\ Occupied(p)' = Occupied(p)
<1>1. ObjectsOn(o.page)' = ObjectsOn(o.page) \ {o}
  BY DEF ObjectsOn
<1>2. \A p \in Pages \ {o.page} : ObjectsOn(p)' = ObjectsOn(p)
  BY DEF ObjectsOn
<1>3. o \in ObjectsOn(o.page)
  BY DEF ObjectsOn
<1>4. \A q \in ObjectsOn(o.page) \ {o} : SpanOf(o) \cap SpanOf(q) = {}
  BY DEF ObjectsApart
<1>5. Occupied(o.page)' = Occupied(o.page) \ SpanOf(o)
  BY <1>1, <1>3, <1>4 DEF Occupied
<1>6. \A p \in Pages \ {o.page} : Occupied(p)' = Occupied(p)
  BY <1>2 DEF Occupied
<1>7. SpanOf(o) \subseteq Occupied(o.page)
  BY <1>3 DEF Occupied
<1> QED
  BY <1>1, <1>2, <1>5, <1>6, <1>7

(* slob_page_alloc on a page whose free units are those of no object: the    *)
(* new object takes free units only, and the count stays right.              *)
LEMMA TakeFromPage ==
    ASSUME NEW p \in Pages, NEW f \in SUBSET Units, NEW u, u = Cardinality(f),
           NEW size \in Sizes, NEW align \in Aligns,
           NEW h \in BestFit(Holes(f), SLOB_UNITS(size), align),
           TakeFrom(p, f, u, size, h, align)
    PROVE  \E o \in Object :
              /\ o.page = p /\ o.size = size
              /\ live' = live \cup {o}
              /\ SpanOf(o) \subseteq f
              /\ free' = [free EXCEPT ![p] = f \ SpanOf(o)]
              /\ units' = [units EXCEPT ![p] = u - SLOB_UNITS(size)]
              /\ u - SLOB_UNITS(size) = Cardinality(f \ SpanOf(o))
              /\ u - SLOB_UNITS(size) \in 0 .. PageUnits
<1> DEFINE o == [page |-> p, at |-> Placed(h, align), size |-> size]
<1>1. SLOB_UNITS(size) \in Nat \ {0} /\ align \in Nat
  BY SizesAssumption, AlignsAssumption, PageUnitsAssumption
<1>2. Placed(h, align) \in Units /\ Span(Placed(h, align), SLOB_UNITS(size)) \subseteq f
  BY <1>1, PlacedInHole
<1>3. o \in Object /\ o.page = p /\ o.size = size
  BY <1>2 DEF Object
<1>4. SpanOf(o) = Span(Placed(h, align), SLOB_UNITS(size))
  BY DEF SpanOf
<1>5. /\ live' = live \cup {o}
      /\ free' = [free EXCEPT ![p] = f \ SpanOf(o)]
      /\ units' = [units EXCEPT ![p] = u - SLOB_UNITS(size)]
  BY <1>4 DEF TakeFrom
<1> HIDE DEF o
<1>6. SpanOf(o) \subseteq f
  BY <1>2, <1>4
<1>7. /\ IsFiniteSet(f) /\ Cardinality(f) <= PageUnits /\ Cardinality(f) \in Nat
  BY UnitsFinite, FS_Subset, FS_CardinalityType
<1>8. /\ Cardinality(SpanOf(o)) = SLOB_UNITS(size)
      /\ f \cap SpanOf(o) = SpanOf(o)
  BY <1>3, <1>6, ObjectSize
<1>9. /\ IsFiniteSet(f \ SpanOf(o))
      /\ Cardinality(f \ SpanOf(o)) = Cardinality(f) - Cardinality(f \cap SpanOf(o))
      /\ Cardinality(f \ SpanOf(o)) \in Nat
  BY <1>7, FS_Difference, FS_CardinalityType
<1>10. Cardinality(f \ SpanOf(o)) = Cardinality(f) - SLOB_UNITS(size)
  BY <1>8, <1>9
<1>11. /\ u - SLOB_UNITS(size) = Cardinality(f \ SpanOf(o))
       /\ u - SLOB_UNITS(size) \in 0 .. PageUnits
  <2>1. Cardinality(f \ SpanOf(o)) \in 0 .. PageUnits
    BY <1>1, <1>7, <1>9, <1>10, PageUnitsAssumption
  <2> QED
    BY <2>1, <1>10
<1> QED
  BY <1>3, <1>5, <1>6, <1>11

(***************************************************************************)
(* Initially the heap is empty.                                             *)
(***************************************************************************)

(* The invariant holds of the empty heap.                                   *)
LEMMA InitIInv == Init => IInv
<1> SUFFICES ASSUME Init
             PROVE  IInv
  OBVIOUS
<1>1. TypeOK
  <2>1. 0 \in 0 .. PageUnits
    BY PageUnitsAssumption
  <2>2. lists \in [Classes -> Seq(Pages)]
    BY EmptySeq DEF Init
  <2> QED
    BY <2>1, <2>2 DEF Init, TypeOK
<1>2. HeldApart
  BY DEF Init, HeldApart
<1>3. PagesSound
  BY DEF Init, PagesSound, ObjectsApart, NothingLost, NoEmptyPage, InUse
<1>4. \A c \in Classes : lists[c] = <<>> /\ ToSet(lists[c]) = {} /\ Once(lists[c])
  <2> SUFFICES ASSUME NEW c \in Classes
               PROVE  lists[c] = <<>> /\ ToSet(lists[c]) = {} /\ Once(lists[c])
    OBVIOUS
  <2>1. lists[c] = <<>> /\ <<>> \in Seq(Pages) /\ Len(<<>>) = 0
    BY EmptySeq DEF Init
  <2>2. 1 .. Len(lists[c]) = {} /\ lists[c] \in Seq(Pages)
    BY <2>1
  <2> HIDE <2>1
  <2>3. ToSet(lists[c]) = {lists[c][i] : i \in 1 .. Len(lists[c])}
    BY <2>2, ToSetOfSeq
  <2> QED
    BY <2>1, <2>2, <2>3, Zenon DEF Once
<1>5. ListsSound
  BY <1>4 DEF Init, ListsSound, Listed, InUse
<1>6. Segregated
  BY <1>4 DEF Init, Segregated
<1> QED
  BY <1>1, <1>2, <1>3, <1>5, <1>6 DEF IInv

(***************************************************************************)
(* Steps that touch no page at rest.                                        *)
(***************************************************************************)

(* If no page at rest changes, the invariants about pages are kept.         *)
LEMMA PagesAtRest ==
    ASSUME IInv, UNCHANGED <<lists, live>>,
           \A p \in Pages : InUse(p)' <=> InUse(p),
           \A p \in Pages : InUse(p) => units'[p] = units[p] /\ free'[p] = free[p]
    PROVE  PagesSound' /\ ListsSound' /\ Segregated'
<1>1. \A p : ObjectsOn(p)' = ObjectsOn(p) /\ Occupied(p)' = Occupied(p)
  BY DEF ObjectsOn, Occupied
<1>2. \A p : Listed(p)' <=> Listed(p)
  BY DEF Listed
<1>3. \A o \in live : o.page \in Pages
  BY DEF IInv, TypeOK, Object
<1>4. ObjectsApart'
  BY <1>1, <1>3 DEF IInv, PagesSound, ObjectsApart
<1>5. NothingLost'
  BY <1>1 DEF IInv, PagesSound, NothingLost
<1>6. NoEmptyPage'
  BY <1>1 DEF IInv, PagesSound, NoEmptyPage
<1>7. ListsSound'
  BY <1>2 DEF IInv, ListsSound
<1>8. Segregated'
  BY <1>1 DEF IInv, Segregated
<1> QED
  BY <1>4, <1>5, <1>6, <1>7, <1>8 DEF PagesSound

(* A search that fails changes nothing but where the thread is.             *)
LEMMA AllocMissStep ==
    ASSUME IInv, NEW t \in Threads, NEW size \in Sizes, NEW align \in Aligns,
           AllocMiss(t, size, align)
    PROVE  IInv'
<1>1. TypeOK'
  BY DEF IInv, TypeOK, AllocMiss, Request
<1>2. HeldApart'
  BY DEF IInv, TypeOK, HeldApart, AllocMiss, Request
<1>3. PagesSound' /\ ListsSound' /\ Segregated'
  <2>1. \A p \in Pages : InUse(p)' <=> InUse(p)
    BY DEF AllocMiss, InUse
  <2> QED
    BY <2>1, PagesAtRest DEF AllocMiss
<1> QED
  BY <1>1, <1>2, <1>3 DEF IInv

(* A page allocator that has no page leaves the heap as it was.             *)
LEMMA GrowFailsStep ==
    ASSUME IInv, NEW t \in Threads, GrowFails(t)
    PROVE  IInv'
<1>1. TypeOK'
  BY DEF IInv, TypeOK, GrowFails
<1>2. HeldApart'
  BY DEF IInv, TypeOK, HeldApart, GrowFails
<1>3. PagesSound' /\ ListsSound' /\ Segregated'
  <2>1. \A p \in Pages : InUse(p)' <=> InUse(p)
    BY DEF GrowFails, InUse
  <2> QED
    BY <2>1, PagesAtRest DEF GrowFails
<1> QED
  BY <1>1, <1>2, <1>3 DEF IInv

(* A new page is outside the lock: no page at rest changes.                 *)
LEMMA GrowStep ==
    ASSUME IInv, NEW t \in Threads, NEW p \in Pages, Grow(t, p)
    PROVE  IInv'
<1>1. TypeOK'
  BY DEF IInv, TypeOK, Grow
<1>2. HeldApart'
  BY NilAssumption DEF IInv, TypeOK, HeldApart, Grow
<1>3. PagesSound' /\ ListsSound' /\ Segregated'
  <2>1. page[t] = Nil
    BY DEF IInv, HeldApart, Grow
  <2>2. \A q \in Pages : InUse(q)' <=> InUse(q)
    BY <2>1, NilAssumption DEF IInv, TypeOK, Grow, InUse
  <2> QED
    BY <2>2, PagesAtRest DEF Grow
<1> QED
  BY <1>1, <1>2, <1>3 DEF IInv

(* A page that is given back was outside the lock already.                  *)
LEMMA PutPageStep ==
    ASSUME IInv, NEW t \in Threads, PutPage(t)
    PROVE  IInv'
<1>1. page[t] \in slab /\ page[t] \in Pages
  BY DEF IInv, TypeOK, HeldApart, PutPage
<1>2. TypeOK'
  <2>1. 0 \in 0 .. PageUnits
    BY PageUnitsAssumption
  <2> QED
    BY <1>1, <2>1 DEF IInv, TypeOK, PutPage
<1>3. HeldApart'
  BY <1>1, NilAssumption DEF IInv, TypeOK, HeldApart, PutPage
<1>4. PagesSound' /\ ListsSound' /\ Segregated'
  <2>1. \A q \in Pages : InUse(q)' <=> InUse(q)
    BY <1>1, NilAssumption DEF IInv, TypeOK, PutPage, InUse
  <2>2. ~InUse(page[t])
    BY DEF InUse
  <2>3. \A q \in Pages : InUse(q) => units'[q] = units[q] /\ free'[q] = free[q]
    BY <2>2 DEF IInv, TypeOK, PutPage
  <2> QED
    BY <2>1, <2>3, PagesAtRest DEF PutPage
<1> QED
  BY <1>2, <1>3, <1>4 DEF IInv

(***************************************************************************)
(* Steps that change one page, and perhaps one list.                        *)
(***************************************************************************)

(* Every size has a class.                                                  *)
LEMMA ClassType == \A size : Class(size) \in Classes
  BY DEF Class, Classes

PageSound(p) ==
    /\ \A o \in ObjectsOn(p) :
          /\ InUse(p)
          /\ SpanOf(o) \subseteq Units
          /\ \A q \in ObjectsOn(p) \ {o} : SpanOf(o) \cap SpanOf(q) = {}
    /\ InUse(p) => /\ ObjectsOn(p) # {}
                   /\ free[p] = Units \ Occupied(p)
                   /\ units[p] = Cardinality(free[p])

AllPagesSound == \A p \in Pages : PageSound(p)

(* The invariant of the pages, one page at a time.                          *)
LEMMA PageByPage == TypeOK => (PagesSound <=> AllPagesSound)
<1> SUFFICES ASSUME TypeOK
             PROVE  PagesSound <=> AllPagesSound
  OBVIOUS
<1>1. \A o \in live : o.page \in Pages /\ o \in ObjectsOn(o.page)
  BY DEF TypeOK, Object, ObjectsOn
<1>2. \A p : \A o \in ObjectsOn(p) : o \in live /\ o.page = p
  BY DEF ObjectsOn
<1>3. ObjectsApart <=>
        \A p \in Pages : \A o \in ObjectsOn(p) :
           /\ InUse(p)
           /\ SpanOf(o) \subseteq Units
           /\ \A q \in ObjectsOn(p) \ {o} : SpanOf(o) \cap SpanOf(q) = {}
  BY <1>1, <1>2 DEF ObjectsApart
<1> QED
  BY <1>3 DEF PagesSound, NothingLost, NoEmptyPage, AllPagesSound, PageSound

(* The same of the next state.                                              *)
LEMMA PageByPageNext == (TypeOK => (PagesSound <=> AllPagesSound))'
  BY PageByPage, PTL

\* Nothing changes on the other pages.
OthersKept(p) ==
    \A q \in Pages \ {p} : /\ InUse(q)' <=> InUse(q)
                           /\ ObjectsOn(q)' = ObjectsOn(q)
                           /\ Occupied(q)' = Occupied(q)
                           /\ units'[q] = units[q]
                           /\ free'[q] = free[q]

(* If one page is sound after a step that keeps the others, all are.        *)
LEMMA OnePageChanges ==
    ASSUME IInv, TypeOK', NEW p \in Pages, OthersKept(p), PageSound(p)'
    PROVE  PagesSound'
<1>1. \A q \in Pages \ {p} : PageSound(q)'
  <2> SUFFICES ASSUME NEW q \in Pages \ {p}
               PROVE  PageSound(q)'
    OBVIOUS
  <2>1. PageSound(q)
    BY PageByPage DEF IInv, AllPagesSound
  <2> QED
    BY <2>1 DEF OthersKept, PageSound
<1>2. AllPagesSound'
  BY <1>1 DEF AllPagesSound
<1> QED
  BY <1>2, PageByPageNext

\* One list becomes l, which may gain or lose the page p.
ListBecomes(c, l, p) ==
    /\ l \in Seq(Pages) /\ Once(l)
    /\ ToSet(l) \ {p} = ToSet(lists[c]) \ {p}
    /\ \A d \in Classes \ {c} : p \notin ToSet(lists[d])
    /\ lists' = [lists EXCEPT ![c] = l]

(* If one list gains or loses one page as its free units say, the lists     *)
(* are right.                                                               *)
LEMMA OneListChanges ==
    ASSUME IInv, NEW p \in Pages, NEW c \in Classes, NEW l,
           ListBecomes(c, l, p), OthersKept(p),
           p \in ToSet(l) <=> InUse(p)' /\ units'[p] > 0
    PROVE  lists' \in [Classes -> Seq(Pages)] /\ ListsSound'
<1>1. /\ lists' \in [Classes -> Seq(Pages)]
      /\ lists'[c] = l
      /\ \A d \in Classes \ {c} : lists'[d] = lists[d]
  BY DEF IInv, TypeOK, ListBecomes
<1>2. \A d \in Classes : Once(lists'[d])
  BY <1>1 DEF IInv, ListsSound, ListBecomes
<1>3. \A d, e \in Classes : d # e => ToSet(lists'[d]) \cap ToSet(lists'[e]) = {}
  BY <1>1 DEF IInv, ListsSound, ListBecomes
<1>4. \A q \in Pages \ {p} : Listed(q)' <=> Listed(q)
  BY <1>1 DEF Listed, ListBecomes
<1>5. Listed(p)' <=> p \in ToSet(l)
  BY <1>1 DEF Listed, ListBecomes
<1>6. \A q \in Pages : Listed(q)' <=> InUse(q)' /\ units'[q] > 0
  BY <1>4, <1>5 DEF IInv, ListsSound, OthersKept
<1> QED
  BY <1>1, <1>2, <1>3, <1>6 DEF ListsSound

(***************************************************************************)
(* slob_alloc: a page serves a request.                                     *)
(***************************************************************************)

(* An object placed in free units of a page leaves that page sound.         *)
LEMMA ObjectComes ==
    ASSUME IInv, TypeOK', NEW o \in Object, live' = live \cup {o},
           NEW f, f = Units \ Occupied(o.page), SpanOf(o) \subseteq f,
           free'[o.page] = f \ SpanOf(o),
           units'[o.page] = Cardinality(f \ SpanOf(o)),
           InUse(o.page)',
           \A q \in Pages \ {o.page} : /\ InUse(q)' <=> InUse(q)
                                      /\ units'[q] = units[q]
                                      /\ free'[q] = free[q]
    PROVE  PagesSound' /\ OthersKept(o.page)
<1>1. /\ ObjectsOn(o.page)' = ObjectsOn(o.page) \cup {o}
      /\ Occupied(o.page)' = Occupied(o.page) \cup SpanOf(o)
      /\ \A p \in Pages \ {o.page} : /\ ObjectsOn(p)' = ObjectsOn(p)
                                     /\ Occupied(p)' = Occupied(p)
  BY ObjectAdded
<1>2. o.page \in Pages
  BY DEF Object
<1>3. PageSound(o.page)
  BY <1>2, PageByPage DEF IInv, AllPagesSound
<1>4. \A q \in ObjectsOn(o.page) : SpanOf(q) \subseteq Occupied(o.page)
  BY DEF Occupied
<1>5. PageSound(o.page)'
  <2>1. \A q \in ObjectsOn(o.page)' : SpanOf(q) \subseteq Units
    BY <1>1, <1>3 DEF PageSound
  <2>2. \A q \in ObjectsOn(o.page) : SpanOf(q) \cap SpanOf(o) = {}
    BY <1>4
  <2>3. \A q \in ObjectsOn(o.page)' : \A r \in ObjectsOn(o.page)' \ {q} :
           SpanOf(q) \cap SpanOf(r) = {}
    BY <1>1, <1>3, <2>2 DEF PageSound
  <2>4. free'[o.page] = Units \ Occupied(o.page)'
    BY <1>1
  <2> QED
    BY <1>1, <2>1, <2>3, <2>4 DEF PageSound
<1>6. OthersKept(o.page)
  BY <1>1 DEF OthersKept
<1> QED
  BY <1>2, <1>5, <1>6, OnePageChanges

(* The classes stay apart when an object comes to a page of its class.      *)
LEMMA ObjectComesToClass ==
    ASSUME IInv, NEW o \in Object, live' = live \cup {o},
           \A q \in ObjectsOn(o.page) : Class(q.size) = Class(o.size),
           NEW l, ListBecomes(Class(o.size), l, o.page)
    PROVE  Segregated'
<1> DEFINE c == Class(o.size)
<1>1. /\ c \in Classes /\ lists'[c] = l
      /\ \A d \in Classes \ {c} : lists'[d] = lists[d]
  BY ClassType DEF IInv, TypeOK, ListBecomes
<1>2. \A x, q \in live' : x.page = q.page => Class(x.size) = Class(q.size)
  BY DEF IInv, Segregated, ObjectsOn
<1>3. ASSUME NEW d \in Classes, NEW p \in ToSet(lists'[d]), NEW x \in ObjectsOn(p)'
      PROVE  Class(x.size) = d
  <2>1. x \in live' /\ x.page = p
    BY <1>3 DEF ObjectsOn
  <2>2. CASE p = o.page
    <3>1. d = c
      BY <1>1, <1>3, <2>2 DEF ListBecomes
    <3> QED
      BY <1>2, <2>1, <2>2, <3>1
  <2>3. CASE p # o.page
    <3>1. p \in ToSet(lists[d])
      BY <1>1, <1>3, <2>3 DEF ListBecomes
    <3>2. x \in ObjectsOn(p)
      BY <2>1, <2>3 DEF ObjectsOn
    <3> QED
      BY <3>1, <3>2 DEF IInv, Segregated
  <2> QED
    BY <2>2, <2>3
<1> QED
  BY <1>2, <1>3 DEF Segregated

(* A listed page serves a request.                                          *)
LEMMA AllocHitStep ==
    ASSUME IInv, NEW t \in Threads, NEW size \in Sizes, NEW align \in Aligns,
           AllocHit(t, size, align)
    PROVE  IInv'
<1> DEFINE c == Class(size)
           l == lists[c]
<1>1. c \in Classes /\ l \in Seq(Pages) /\ Once(l)
  BY ClassType DEF IInv, TypeOK, ListsSound
<1>2. DOMAIN l = 1 .. Len(l) /\ Len(l) \in Nat
  BY <1>1, ToSetOfSeq
<1>3. PICK i \in 1 .. Len(l) :
         /\ \E h \in BestFit(Holes(free[l[i]]), SLOB_UNITS(size), align) :
               TakeFrom(l[i], free[l[i]], units[l[i]], size, h, align)
         /\ lists' = [lists EXCEPT
               ![c] = Rotated(IF units[l[i]] = SLOB_UNITS(size)
                              THEN RemoveAt(l, i) ELSE l, i)]
  BY <1>2 DEF AllocHit
<1>4. PICK p \in Pages : p = l[i] /\ p \in ToSet(l)
  BY <1>1, ToSetOfSeq, ElementOfSeq
<1>5. PICK k : k = Rotated(IF units[p] = SLOB_UNITS(size) THEN RemoveAt(l, i) ELSE l, i)
  OBVIOUS
<1>6. InUse(p) /\ Listed(p)
  BY <1>1, <1>4 DEF IInv, ListsSound, Listed
<1>7. /\ free[p] \in SUBSET Units /\ free[p] = Units \ Occupied(p)
      /\ units[p] = Cardinality(free[p])
  BY <1>4, <1>6 DEF IInv, TypeOK, PagesSound, NothingLost
<1>8. ListBecomes(c, k, p) /\ (p \in ToSet(k) <=> units[p] # SLOB_UNITS(size))
  <2>1. \A d \in Classes \ {c} : p \notin ToSet(lists[d])
    BY <1>1, <1>4 DEF IInv, ListsSound
  <2>2. lists' = [lists EXCEPT ![c] = k]
    BY <1>3, <1>4, <1>5
  <2>3. CASE units[p] = SLOB_UNITS(size)
    <3>1. /\ RemoveAt(l, i) \in Seq(Pages) /\ Once(RemoveAt(l, i))
          /\ ToSet(RemoveAt(l, i)) = ToSet(l) \ {p}
      BY <1>1, <1>4, RemoveAtPages
    <3>2. k = Rotated(RemoveAt(l, i), i) /\ i \in 1 .. Len(RemoveAt(l, i)) + 1
      BY <1>1, <1>2, <1>5, <2>3, RemovedAt
    <3>3. /\ k \in Seq(Pages) /\ Once(k) /\ ToSet(k) = ToSet(l) \ {p}
      BY <3>1, <3>2, RotatedPages
    <3> QED
      BY <2>1, <2>2, <2>3, <3>3 DEF ListBecomes
  <2>4. CASE units[p] # SLOB_UNITS(size)
    <3>1. k = Rotated(l, i) /\ i \in 1 .. Len(l) + 1
      BY <1>2, <1>5, <2>4
    <3>2. /\ k \in Seq(Pages) /\ Once(k) /\ ToSet(k) = ToSet(l)
      BY <1>1, <3>1, RotatedPages
    <3> QED
      BY <1>4, <2>1, <2>2, <2>4, <3>2 DEF ListBecomes
  <2> QED
    BY <2>3, <2>4
<1>9. PICK o \in Object :
         /\ o.page = p /\ o.size = size
         /\ live' = live \cup {o}
         /\ SpanOf(o) \subseteq free[p]
         /\ free' = [free EXCEPT ![p] = free[p] \ SpanOf(o)]
         /\ units' = [units EXCEPT ![p] = units[p] - SLOB_UNITS(size)]
         /\ units[p] - SLOB_UNITS(size) = Cardinality(free[p] \ SpanOf(o))
         /\ units[p] - SLOB_UNITS(size) \in 0 .. PageUnits
  <2>1. PICK h \in BestFit(Holes(free[p]), SLOB_UNITS(size), align) :
           TakeFrom(p, free[p], units[p], size, h, align)
    BY <1>3, <1>4
  <2> QED
    BY <1>4, <1>7, <2>1, TakeFromPage
<1>10. UNCHANGED <<slab, pc, req, page>>
  BY DEF AllocHit
<1>11. \A q : InUse(q)' <=> InUse(q)
  BY <1>10 DEF InUse
<1>12. /\ free'[p] = free[p] \ SpanOf(o) /\ units'[p] = units[p] - SLOB_UNITS(size)
       /\ \A q \in Pages \ {p} : units'[q] = units[q] /\ free'[q] = free[q]
       /\ free' \in [Pages -> SUBSET Units] /\ units' \in [Pages -> 0 .. PageUnits]
  BY <1>4, <1>7, <1>9 DEF IInv, TypeOK
<1>13. k \in Seq(Pages) /\ lists' \in [Classes -> Seq(Pages)]
  BY <1>1, <1>8 DEF IInv, TypeOK, ListBecomes
<1>14. TypeOK'
  BY <1>9, <1>10, <1>12, <1>13 DEF IInv, TypeOK
<1>15. HeldApart'
  BY <1>10 DEF IInv, HeldApart
<1>16. PagesSound' /\ OthersKept(p)
  BY <1>6, <1>7, <1>9, <1>11, <1>12, <1>14, ObjectComes
<1>17. ListsSound'
  <2>1. units[p] - SLOB_UNITS(size) > 0 <=> units[p] # SLOB_UNITS(size)
    BY <1>4, <1>9, SizesAssumption, PageUnitsAssumption DEF IInv, TypeOK
  <2>2. InUse(p)'
    BY <1>6, <1>11
  <2>3. p \in ToSet(k) <=> units'[p] > 0
    BY <1>8, <1>12, <2>1
  <2> QED
    BY <1>1, <1>4, <1>8, <1>16, <2>2, <2>3, OneListChanges
<1>18. Segregated'
  <2>1. \A q \in ObjectsOn(p) : Class(q.size) = c
    BY <1>1, <1>4 DEF IInv, Segregated
  <2> QED
    BY <1>8, <1>9, <2>1, ObjectComesToClass
<1> QED
  BY <1>14, <1>15, <1>16, <1>17, <1>18 DEF IInv

(* A new page joins the heap and serves the request it was fetched for.     *)
LEMMA AllocFreshStep ==
    ASSUME IInv, NEW t \in Threads, AllocFresh(t)
    PROVE  IInv'
<1>1. PICK p \in Pages, size \in Sizes, align \in Aligns :
         p = page[t] /\ size = req[t].size /\ align = req[t].align
  BY DEF IInv, TypeOK, HeldApart, AllocFresh, Request
<1>2. p \in slab /\ ~InUse(p) /\ \A u \in Threads \ {t} : page[u] # p
  BY <1>1, NilAssumption DEF IInv, HeldApart, AllocFresh, InUse
<1>3. PageSound(p)
  BY PageByPage DEF IInv, AllPagesSound
<1>4. ObjectsOn(p) = {} /\ Occupied(p) = {}
  BY <1>2, <1>3 DEF PageSound, Occupied
<1>5. /\ Units \in SUBSET Units /\ PageUnits = Cardinality(Units)
      /\ Units = Units \ Occupied(p)
  BY <1>4, UnitsFinite
<1>6. PICK o \in Object :
         /\ o.page = p /\ o.size = size
         /\ live' = live \cup {o}
         /\ SpanOf(o) \subseteq Units
         /\ free' = [free EXCEPT ![p] = Units \ SpanOf(o)]
         /\ units' = [units EXCEPT ![p] = PageUnits - SLOB_UNITS(size)]
         /\ PageUnits - SLOB_UNITS(size) = Cardinality(Units \ SpanOf(o))
         /\ PageUnits - SLOB_UNITS(size) \in 0 .. PageUnits
  <2>1. PICK h \in BestFit(Holes(Units), SLOB_UNITS(size), align) :
           TakeFrom(p, Units, PageUnits, size, h, align)
    BY <1>1 DEF AllocFresh
  <2> QED
    BY <1>5, <2>1, TakeFromPage
<1>7. /\ UNCHANGED slab
      /\ pc' = [pc EXCEPT ![t] = "idle"]
      /\ req' = [req EXCEPT ![t] = Nil]
      /\ page' = [page EXCEPT ![t] = Nil]
  BY DEF AllocFresh
<1>8. InUse(p)' /\ \A q \in Pages \ {p} : InUse(q)' <=> InUse(q)
  BY <1>1, <1>2, <1>7, NilAssumption DEF IInv, TypeOK, InUse
<1>9. /\ free'[p] = Units \ SpanOf(o) /\ units'[p] = PageUnits - SLOB_UNITS(size)
      /\ \A q \in Pages \ {p} : units'[q] = units[q] /\ free'[q] = free[q]
      /\ free' \in [Pages -> SUBSET Units] /\ units' \in [Pages -> 0 .. PageUnits]
  BY <1>6 DEF IInv, TypeOK
<1>10. PICK c \in Classes : c = Class(size)
  BY ClassType
<1>11. ~Listed(p)
  BY <1>2 DEF IInv, ListsSound
<1>12. lists[c] \in Seq(Pages) /\ Once(lists[c]) /\ p \notin ToSet(lists[c])
  BY <1>11 DEF IInv, TypeOK, ListsSound, Listed
<1>13. PICK l : l = IF SLOB_UNITS(size) = PageUnits THEN lists[c] ELSE <<p>> \o lists[c]
  OBVIOUS
<1>14. ListBecomes(c, l, p) /\ (p \in ToSet(l) <=> SLOB_UNITS(size) # PageUnits)
  <2>1. \A d \in Classes \ {c} : p \notin ToSet(lists[d])
    BY <1>11 DEF Listed
  <2>2. CASE SLOB_UNITS(size) = PageUnits
    <3>1. l = lists[c]
      BY <1>13, <2>2
    <3>2. lists' = [lists EXCEPT ![c] = l]
      BY <1>1, <2>2, <3>1 DEF IInv, TypeOK, AllocFresh
    <3> QED
      BY <1>12, <2>1, <2>2, <3>1, <3>2 DEF ListBecomes
  <2>3. CASE SLOB_UNITS(size) # PageUnits
    <3>1. l = <<p>> \o lists[c]
      BY <1>13, <2>3
    <3>2. lists' = [lists EXCEPT ![c] = l]
      BY <1>1, <1>10, <2>3, <3>1 DEF AllocFresh
    <3>3. l \in Seq(Pages) /\ Once(l) /\ ToSet(l) = ToSet(lists[c]) \cup {p}
      BY <1>12, <3>1, PushedPages
    <3> QED
      BY <2>1, <2>3, <3>2, <3>3 DEF ListBecomes
  <2> QED
    BY <2>2, <2>3
<1>15. lists' \in [Classes -> Seq(Pages)]
  BY <1>14 DEF IInv, TypeOK, ListBecomes
<1>16. TypeOK'
  BY <1>6, <1>7, <1>9, <1>15 DEF IInv, TypeOK
<1>17. HeldApart'
  BY <1>7 DEF IInv, TypeOK, HeldApart
<1>18. PagesSound' /\ OthersKept(p)
  BY <1>5, <1>6, <1>8, <1>9, <1>16, ObjectComes
<1>19. ListsSound'
  <2>1. SLOB_UNITS(size) \in 1 .. PageUnits
    BY SizesAssumption
  <2>2. units'[p] > 0 <=> SLOB_UNITS(size) # PageUnits
    BY <1>9, <2>1, PageUnitsAssumption
  <2>3. p \in ToSet(l) <=> InUse(p)' /\ units'[p] > 0
    BY <1>8, <1>14, <2>2
  <2> QED
    BY <1>14, <1>18, <2>3, OneListChanges
<1>20. Segregated'
  BY <1>4, <1>6, <1>10, <1>14, ObjectComesToClass
<1> QED
  BY <1>16, <1>17, <1>18, <1>19, <1>20 DEF IInv

(***************************************************************************)
(* slob_free: an object goes.                                               *)
(***************************************************************************)

(* What is known of the page of an object that is freed: its release test    *)
(* is right, although it adds up counters and never looks at the objects.    *)
LEMMA FreedObject ==
    ASSUME IInv, NEW o \in live
    PROVE  /\ o \in Object /\ o.page \in Pages /\ InUse(o.page)
           /\ SpanOf(o) \subseteq Units
           /\ free[o.page] = Units \ Occupied(o.page)
           /\ units[o.page] = Cardinality(free[o.page])
           /\ IsFiniteSet(free[o.page])
           /\ SpanOf(o) \cap free[o.page] = {}
           /\ Cardinality(free[o.page] \cup SpanOf(o)) =
                 units[o.page] + SLOB_UNITS(o.size)
           /\ units[o.page] + SLOB_UNITS(o.size) \in 1 .. PageUnits
           /\ Empties(o) => ObjectsOn(o.page) = {o}
           /\ ObjectsOn(o.page) = {o} => Empties(o)
<1>1. o \in Object /\ o.page \in Pages
  BY DEF IInv, TypeOK, Object
<1>2. InUse(o.page) /\ SpanOf(o) \subseteq Units
  BY DEF IInv, PagesSound, ObjectsApart
<1>3. /\ free[o.page] = Units \ Occupied(o.page)
      /\ units[o.page] = Cardinality(free[o.page])
  BY <1>1, <1>2 DEF IInv, PagesSound, NothingLost
<1>4. PICK f \in SUBSET Units : f = free[o.page]
  BY <1>3
<1>5. PICK sp \in SUBSET Units : sp = SpanOf(o)
  BY <1>2
<1>6. /\ IsFiniteSet(f) /\ Cardinality(f) \in Nat
      /\ IsFiniteSet(sp) /\ Cardinality(sp) = SLOB_UNITS(o.size)
      /\ SLOB_UNITS(o.size) \in 1 .. PageUnits
  BY <1>1, <1>5, UnitsFinite, FS_Subset, FS_CardinalityType, ObjectSize
<1>7. o \in ObjectsOn(o.page) /\ sp \subseteq Occupied(o.page)
  BY <1>5 DEF ObjectsOn, Occupied
<1>8. sp \cap f = {} /\ f \cap sp = {}
  BY <1>3, <1>4, <1>7
<1>9. Cardinality(f \cup sp) = Cardinality(f) + SLOB_UNITS(o.size)
  <2>1. Cardinality(f \cap sp) = 0
    BY <1>8, FS_EmptySet
  <2>2. Cardinality(f \cup sp) = Cardinality(f) + Cardinality(sp) - Cardinality(f \cap sp)
    BY <1>6, FS_Union
  <2> QED
    BY <1>6, <2>1, <2>2
<1>10. /\ f \cup sp \in SUBSET Units /\ Cardinality(f \cup sp) <= PageUnits
       /\ Cardinality(f \cup sp) = PageUnits => f \cup sp = Units
  <2>1. f \cup sp \in SUBSET Units
    OBVIOUS
  <2> QED
    BY <2>1, UnitsFinite, FS_Subset
<1>11. ASSUME Empties(o)
       PROVE  ObjectsOn(o.page) = {o}
  <2>1. f \cup sp = Units
    BY <1>3, <1>4, <1>9, <1>10, <1>11 DEF Empties
  <2> SUFFICES ASSUME NEW q \in ObjectsOn(o.page) \ {o}
               PROVE  FALSE
    BY <1>7
  <2>2. q \in Object /\ SpanOf(q) # {}
    BY ObjectSize DEF IInv, TypeOK, ObjectsOn
  <2>3. SpanOf(q) \subseteq Occupied(o.page) /\ SpanOf(q) \subseteq Units
    BY DEF Occupied, ObjectsOn, IInv, PagesSound, ObjectsApart
  <2>4. SpanOf(q) \cap sp = {}
    BY <1>5 DEF IInv, PagesSound, ObjectsApart
  <2> QED
    BY <1>3, <1>4, <2>1, <2>2, <2>3, <2>4
<1>12. ASSUME ObjectsOn(o.page) = {o}
       PROVE  Empties(o)
  <2>1. Occupied(o.page) = sp
    BY <1>5, <1>12 DEF Occupied
  <2>2. f \cup sp = Units
    BY <1>3, <1>4, <2>1
  <2> QED
    BY <1>3, <1>4, <1>9, <2>2, UnitsFinite DEF Empties
<1>13. /\ Cardinality(free[o.page] \cup SpanOf(o)) =
             units[o.page] + SLOB_UNITS(o.size)
       /\ units[o.page] + SLOB_UNITS(o.size) \in 1 .. PageUnits
  <2>1. Cardinality(f) + SLOB_UNITS(o.size) \in 1 .. PageUnits
    BY <1>6, <1>9, <1>10, PageUnitsAssumption
  <2> QED
    BY <1>3, <1>4, <1>5, <1>9, <2>1
<1> QED
  BY <1>1, <1>2, <1>3, <1>4, <1>5, <1>6, <1>8, <1>11, <1>12, <1>13

(* The last object of a page goes: its page leaves its list and the lock.   *)
LEMMA FreeLastStep ==
    ASSUME IInv, NEW t \in Threads, NEW o \in live, FreeLast(t, o)
    PROVE  IInv'
<1>1. PICK p \in Pages : p = o.page
  BY FreedObject
<1>2. InUse(p) /\ ObjectsOn(p) = {o}
  BY <1>1, FreedObject DEF FreeLast
<1>3. /\ live' = live \ {o}
      /\ lists' = [c \in Classes |-> Unlisted(lists[c], p)]
      /\ pc' = [pc EXCEPT ![t] = "put"]
      /\ page' = [page EXCEPT ![t] = p]
      /\ UNCHANGED <<slab, units, free, req>>
      /\ pc[t] = "idle"
  BY <1>1 DEF FreeLast
<1>4. /\ ObjectsOn(p)' = {}
      /\ \A q \in Pages \ {p} : /\ ObjectsOn(q)' = ObjectsOn(q)
                               /\ Occupied(q)' = Occupied(q)
  BY <1>1, <1>2, <1>3, ObjectDropped DEF IInv, PagesSound
<1>5. \A c \in Classes : /\ lists'[c] \in Seq(Pages) /\ Once(lists'[c])
                         /\ ToSet(lists'[c]) = ToSet(lists[c]) \ {p}
  BY <1>3, UnlistedPages DEF IInv, TypeOK, ListsSound
<1>6. lists' \in [Classes -> Seq(Pages)]
  BY <1>3, <1>5
<1>7. page[t] = Nil
  BY <1>3 DEF IInv, HeldApart
<1>8. ~InUse(p)' /\ \A q \in Pages \ {p} : InUse(q)' <=> InUse(q)
  BY <1>3, <1>7, NilAssumption DEF IInv, TypeOK, InUse
<1>9. TypeOK'
  BY <1>3, <1>6 DEF IInv, TypeOK
<1>10. HeldApart'
  <2>1. \A u \in Threads : page[u] # p
    BY <1>2 DEF InUse
  <2>2. p \in slab
    BY <1>2 DEF InUse
  <2> QED
    BY <1>3, <2>1, <2>2 DEF IInv, TypeOK, HeldApart
<1>11. PagesSound'
  <2>1. OthersKept(p)
    BY <1>3, <1>4, <1>8 DEF OthersKept
  <2>2. PageSound(p)'
    BY <1>4, <1>8 DEF PageSound
  <2> QED
    BY <1>9, <2>1, <2>2, OnePageChanges
<1>12. ListsSound'
  <2>1. \A q \in Pages : Listed(q)' <=> Listed(q) /\ q # p
    BY <1>5 DEF Listed
  <2>2. \A q \in Pages : Listed(q)' <=> InUse(q)' /\ units'[q] > 0
    BY <1>3, <1>8, <2>1 DEF IInv, ListsSound
  <2> QED
    BY <1>5, <2>2 DEF IInv, ListsSound
<1>13. Segregated'
  <2>1. \A x, q \in live' : x.page = q.page => Class(x.size) = Class(q.size)
    BY <1>3 DEF IInv, Segregated
  <2>2. ASSUME NEW c \in Classes, NEW q \in ToSet(lists'[c]), NEW x \in ObjectsOn(q)'
        PROVE  Class(x.size) = c
    <3>1. q \in ToSet(lists[c]) /\ x \in ObjectsOn(q)
      BY <1>3, <1>5, <2>2 DEF ObjectsOn
    <3> QED
      BY <3>1 DEF IInv, Segregated
  <2> QED
    BY <2>1, <2>2 DEF Segregated
<1> QED
  BY <1>9, <1>10, <1>11, <1>12, <1>13 DEF IInv

(* An object that leaves others behind: its units are free again.           *)
LEMMA ObjectGoes ==
    ASSUME IInv, TypeOK', NEW o \in live, ~Empties(o), live' = live \ {o},
           UNCHANGED <<slab, page>>,
           free'[o.page] = free[o.page] \cup SpanOf(o),
           units'[o.page] = units[o.page] + SLOB_UNITS(o.size),
           \A q \in Pages \ {o.page} : units'[q] = units[q] /\ free'[q] = free[q]
    PROVE  PagesSound' /\ OthersKept(o.page) /\ InUse(o.page)' /\ units'[o.page] > 0
<1>1. \A q : InUse(q)' <=> InUse(q)
  BY DEF InUse
<1>2. PICK p \in Pages : p = o.page
  BY FreedObject
<1>3. /\ ObjectsOn(p)' = ObjectsOn(p) \ {o}
      /\ Occupied(p)' = Occupied(p) \ SpanOf(o)
      /\ SpanOf(o) \subseteq Occupied(p)
      /\ \A q \in Pages \ {p} : /\ ObjectsOn(q)' = ObjectsOn(q)
                               /\ Occupied(q)' = Occupied(q)
  BY <1>2, ObjectDropped DEF IInv, PagesSound
<1>4. OthersKept(p)
  BY <1>1, <1>2, <1>3 DEF OthersKept
<1>5. /\ InUse(p) /\ SpanOf(o) \subseteq Units
      /\ free[p] = Units \ Occupied(p)
      /\ Cardinality(free[p] \cup SpanOf(o)) = units[p] + SLOB_UNITS(o.size)
      /\ units[p] + SLOB_UNITS(o.size) \in 1 .. PageUnits
      /\ ObjectsOn(p) # {o}
  BY <1>2, FreedObject
<1>6. PageSound(p)
  BY PageByPage DEF IInv, AllPagesSound
<1>7. PageSound(p)'
  <2>1. ObjectsOn(p)' # {}
    BY <1>3, <1>5, <1>6 DEF PageSound
  <2>2. free'[p] = Units \ Occupied(p)'
    BY <1>2, <1>3, <1>5
  <2>3. units'[p] = Cardinality(free'[p])
    BY <1>2, <1>5
  <2>4. InUse(p)'
    BY <1>1, <1>5
  <2>5. \A q \in ObjectsOn(p)' :
          /\ SpanOf(q) \subseteq Units
          /\ \A r \in ObjectsOn(p)' \ {q} : SpanOf(q) \cap SpanOf(r) = {}
    BY <1>3, <1>6 DEF PageSound
  <2> QED
    BY <2>1, <2>2, <2>3, <2>4, <2>5 DEF PageSound
<1>8. InUse(p)' /\ units'[p] > 0
  BY <1>1, <1>2, <1>5, PageUnitsAssumption
<1> QED
  BY <1>2, <1>4, <1>7, <1>8, OnePageChanges

(* An object of a listed page goes.                                         *)
LEMMA FreeOnPartialStep ==
    ASSUME IInv, NEW t \in Threads, NEW o \in live, FreeOnPartial(t, o)
    PROVE  IInv'
<1>1. PICK p \in Pages : p = o.page
  BY FreedObject
<1>2. /\ live' = live \ {o} /\ ~Empties(o) /\ Listed(p)
      /\ units' = [units EXCEPT ![p] = @ + SLOB_UNITS(o.size)]
      /\ free' = [free EXCEPT ![p] = @ \cup SpanOf(o)]
      /\ UNCHANGED <<slab, lists, pc, req, page>>
  BY <1>1 DEF FreeOnPartial
<1>3. /\ SpanOf(o) \subseteq Units /\ InUse(p)
      /\ units[p] + SLOB_UNITS(o.size) \in 1 .. PageUnits
  BY <1>1, FreedObject
<1>4. /\ units' \in [Pages -> 0 .. PageUnits] /\ free' \in [Pages -> SUBSET Units]
      /\ units'[p] = units[p] + SLOB_UNITS(o.size)
      /\ free'[p] = free[p] \cup SpanOf(o)
      /\ \A q \in Pages \ {p} : units'[q] = units[q] /\ free'[q] = free[q]
  BY <1>2, <1>3, PageUnitsAssumption DEF IInv, TypeOK
<1>5. TypeOK'
  BY <1>2, <1>4 DEF IInv, TypeOK
<1>6. HeldApart'
  BY <1>2 DEF IInv, HeldApart
<1>7. PagesSound' /\ OthersKept(p) /\ InUse(p)' /\ units'[p] > 0
  BY <1>1, <1>2, <1>4, <1>5, ObjectGoes
<1>8. ListsSound'
  <2>1. \A q : Listed(q)' <=> Listed(q)
    BY <1>2 DEF Listed
  <2> QED
    BY <1>2, <1>7, <2>1 DEF IInv, ListsSound, OthersKept
<1>9. Segregated'
  BY <1>2 DEF IInv, Segregated, ObjectsOn
<1> QED
  BY <1>5, <1>6, <1>7, <1>8, <1>9 DEF IInv

(* An object of a full page goes: the page had no free units and is         *)
(* listed again.                                                            *)
LEMMA FreeOnFullStep ==
    ASSUME IInv, NEW t \in Threads, NEW o \in live, FreeOnFull(t, o)
    PROVE  IInv'
<1>1. PICK p \in Pages : p = o.page
  BY FreedObject
<1>2. /\ live' = live \ {o} /\ ~Empties(o) /\ ~Listed(p)
      /\ units' = [units EXCEPT ![p] = SLOB_UNITS(o.size)]
      /\ free' = [free EXCEPT ![p] = SpanOf(o)]
      /\ UNCHANGED <<slab, pc, req, page>>
  BY <1>1 DEF FreeOnFull
<1>3. /\ SpanOf(o) \subseteq Units /\ InUse(p)
      /\ units[p] + SLOB_UNITS(o.size) \in 1 .. PageUnits
      /\ units[p] = Cardinality(free[p]) /\ IsFiniteSet(free[p])
      /\ o \in Object
  BY <1>1, FreedObject
<1>4. units[p] = 0 /\ free[p] = {}
  <2>1. ~(units[p] > 0) /\ units[p] \in Nat
    BY <1>2, <1>3, PageUnitsAssumption DEF IInv, TypeOK, ListsSound
  <2> QED
    BY <1>3, <2>1, FS_EmptySet
<1>5. SLOB_UNITS(o.size) \in 1 .. PageUnits
  BY <1>3, ObjectSize
<1>6. /\ units' \in [Pages -> 0 .. PageUnits] /\ free' \in [Pages -> SUBSET Units]
      /\ units'[p] = units[p] + SLOB_UNITS(o.size)
      /\ free'[p] = free[p] \cup SpanOf(o)
      /\ \A q \in Pages \ {p} : units'[q] = units[q] /\ free'[q] = free[q]
  BY <1>2, <1>3, <1>4, <1>5, PageUnitsAssumption DEF IInv, TypeOK
<1>7. PICK c \in Classes : c = Class(o.size)
  BY ClassType
<1>8. PICK l : l = <<p>> \o lists[c]
  OBVIOUS
<1>9. /\ lists[c] \in Seq(Pages) /\ Once(lists[c])
      /\ \A d \in Classes : p \notin ToSet(lists[d])
  BY <1>2 DEF IInv, TypeOK, ListsSound, Listed
<1>10. ListBecomes(c, l, p) /\ p \in ToSet(l)
  <2>1. l \in Seq(Pages) /\ Once(l) /\ ToSet(l) = ToSet(lists[c]) \cup {p}
    BY <1>8, <1>9, PushedPages
  <2>2. lists' = [lists EXCEPT ![c] = l]
    BY <1>1, <1>7, <1>8 DEF FreeOnFull
  <2> QED
    BY <1>9, <2>1, <2>2 DEF ListBecomes
<1>11. lists' \in [Classes -> Seq(Pages)]
  BY <1>10 DEF IInv, TypeOK, ListBecomes
<1>12. TypeOK'
  BY <1>2, <1>6, <1>11 DEF IInv, TypeOK
<1>13. HeldApart'
  BY <1>2 DEF IInv, HeldApart
<1>14. PagesSound' /\ OthersKept(p) /\ InUse(p)' /\ units'[p] > 0
  BY <1>1, <1>2, <1>6, <1>12, ObjectGoes
<1>15. ListsSound'
  BY <1>10, <1>14, OneListChanges
<1>16. Segregated'
  <2>1. \A x, q \in live : x.page = q.page => Class(x.size) = Class(q.size)
    BY DEF IInv, Segregated
  <2>2. ASSUME NEW d \in Classes, NEW q \in ToSet(lists'[d]), NEW x \in ObjectsOn(q)'
        PROVE  Class(x.size) = d
    <3>1. x \in live /\ x.page = q /\ x \in ObjectsOn(q)
      BY <1>2, <2>2 DEF ObjectsOn
    <3>2. lists'[c] = l /\ \A e \in Classes \ {c} : lists'[e] = lists[e]
      BY <1>10 DEF IInv, TypeOK, ListBecomes
    <3>3. CASE q = p
      <4>1. d = c
        BY <1>9, <2>2, <3>2, <3>3
      <4> QED
        BY <1>1, <1>7, <2>1, <3>1, <3>3, <4>1
    <3>4. CASE q # p
      <4>1. q \in ToSet(lists[d])
        BY <1>10, <2>2, <3>2, <3>4 DEF ListBecomes
      <4> QED
        BY <3>1, <4>1 DEF IInv, Segregated
    <3> QED
      BY <3>3, <3>4
  <2> QED
    BY <1>2, <2>1, <2>2 DEF Segregated
<1> QED
  BY <1>12, <1>13, <1>14, <1>15, <1>16 DEF IInv

(***************************************************************************)
(* The theorems.                                                            *)
(***************************************************************************)

(* Every step keeps the invariant.                                          *)
LEMMA NextIInv == IInv /\ [Next]_vars => IInv'
<1> SUFFICES ASSUME IInv, [Next]_vars
             PROVE  IInv'
  OBVIOUS
<1>1. CASE UNCHANGED vars
  <2>1. \A p \in Pages : InUse(p)' <=> InUse(p)
    BY <1>1 DEF vars, InUse
  <2>2. PagesSound' /\ ListsSound' /\ Segregated'
    BY <1>1, <2>1, PagesAtRest DEF vars
  <2> QED
    BY <1>1, <2>2 DEF vars, IInv, TypeOK, HeldApart
<1>2. ASSUME NEW t \in Threads, NEW size \in Sizes, NEW align \in Aligns,
             AllocHit(t, size, align) \/ AllocMiss(t, size, align)
      PROVE  IInv'
  BY <1>2, AllocHitStep, AllocMissStep
<1>3. ASSUME NEW t \in Threads, NEW p \in Pages, Grow(t, p)
      PROVE  IInv'
  BY <1>3, GrowStep
<1>4. ASSUME NEW t \in Threads, GrowFails(t) \/ AllocFresh(t) \/ PutPage(t)
      PROVE  IInv'
  BY <1>4, GrowFailsStep, AllocFreshStep, PutPageStep
<1>5. ASSUME NEW t \in Threads, NEW o \in live,
             FreeLast(t, o) \/ FreeOnFull(t, o) \/ FreeOnPartial(t, o)
      PROVE  IInv'
  BY <1>5, FreeLastStep, FreeOnFullStep, FreeOnPartialStep
<1> QED
  BY <1>1, <1>2, <1>3, <1>4, <1>5 DEF Next

(* The invariant holds in every behaviour.                                  *)
LEMMA IInvHolds == Spec => []IInv
  BY InitIInv, NextIInv, PTL DEF Spec

(* Every variable keeps its type, whatever the threads, pages and sizes.    *)
THEOREM TypeCorrect == Spec => []TypeOK
<1>1. IInv => TypeOK
  BY DEF IInv
<1> QED
  BY <1>1, IInvHolds, PTL

(* No two live objects share a unit, and none is on a page that a thread     *)
(* holds outside the lock or that belongs to the page allocator.             *)
THEOREM ApartCorrect == Spec => []ObjectsApart
<1>1. IInv => ObjectsApart
  BY DEF IInv, PagesSound
<1> QED
  BY <1>1, IInvHolds, PTL

(* Every unit of a page at rest is free or in an object, and sp->units       *)
(* counts the free ones.                                                     *)
THEOREM NothingLostCorrect == Spec => []NothingLost
<1>1. IInv => NothingLost
  BY DEF IInv, PagesSound
<1> QED
  BY <1>1, IInvHolds, PTL

(* The lists hold exactly the partly free pages at rest, each once.          *)
THEOREM ListedCorrect == Spec => []ListedOnce
<1>1. IInv => ListedOnce
  <2> SUFFICES ASSUME IInv
               PROVE  ListedOnce
    OBVIOUS
  <2>1. \A c \in Classes : DOMAIN lists[c] = 1 .. Len(lists[c])
    BY ToSetOfSeq DEF IInv, TypeOK
  <2>2. ASSUME NEW c \in Classes, NEW d \in Classes,
               NEW i \in DOMAIN lists[c], NEW j \in DOMAIN lists[d],
               lists[c][i] = lists[d][j]
        PROVE  c = d /\ i = j
    <3>1. lists[c][i] \in ToSet(lists[c]) /\ lists[d][j] \in ToSet(lists[d])
      BY DEF ToSet
    <3>2. c = d
      BY <2>2, <3>1 DEF IInv, ListsSound
    <3> QED
      BY <2>1, <2>2, <3>2 DEF IInv, ListsSound, Once
  <2> QED
    BY <2>2 DEF IInv, ListsSound, ListedOnce
<1> QED
  BY <1>1, IInvHolds, PTL

(* The objects of a page are of one class, that of the list it is on.        *)
THEOREM SegregatedCorrect == Spec => []Segregated
<1>1. IInv => Segregated
  BY DEF IInv
<1> QED
  BY <1>1, IInvHolds, PTL

(* No page without an object stays in the heap.                              *)
THEOREM NoEmptyPageCorrect == Spec => []NoEmptyPage
<1>1. IInv => NoEmptyPage
  BY DEF IInv, PagesSound
<1> QED
  BY <1>1, IInvHolds, PTL

(***************************************************************************)
(* The rotation of a list after a hit, page by page.                        *)
(***************************************************************************)

(* Remainders, once around.                                                 *)
LEMMA OnceAround ==
    ASSUME NEW n \in Nat \ {0}, NEW a \in 0 .. 2 * n - 1
    PROVE  a % n = IF a < n THEN a ELSE a - n
<1>1. a % n \in 0 .. n - 1
  OBVIOUS
<1>2. PICK q \in Int : a = n * q + (a % n)
  <2>1. a \div n \in Int /\ a = n * (a \div n) + (a % n)
    OBVIOUS
  <2> QED
    BY <2>1
<1>3. q >= 0 /\ q <= 1
  <2>1. q < 0 => n * q <= -n
    OBVIOUS
  <2>2. q > 1 => n * q >= 2 * n
    OBVIOUS
  <2> QED
    BY <1>1, <1>2, <2>1, <2>2
<1> QED
  BY <1>1, <1>2, <1>3

(* The k-th page from the i-th on, around the end of the list.               *)
Around(l, i, k) == l[((i + k - 2) % Len(l)) + 1]

(* Rotated to its i-th page, a list has its pages in the same cycle; so has   *)
(* one that has just lost it.                                               *)
LEMMA RotatedAround ==
    ASSUME NEW l \in Seq(Pages), NEW i \in 1 .. Len(l)
    PROVE  /\ Rotated(l, i) = [k \in 1 .. Len(l) |-> Around(l, i, k)]
           /\ Rotated(RemoveAt(l, i), i) = [k \in 1 .. Len(l) - 1 |-> Around(l, i, k + 1)]
<1>1. PICK n \in Nat \ {0} : n = Len(l)
  BY LenProperties
<1>2. \A k \in 1 .. n : Around(l, i, k) = IF k <= n - i + 1 THEN l[i + k - 1] ELSE l[k - (n - i + 1)]
  <2> SUFFICES ASSUME NEW k \in 1 .. n
               PROVE  Around(l, i, k) = IF k <= n - i + 1 THEN l[i + k - 1] ELSE l[k - (n - i + 1)]
    OBVIOUS
  <2>1. PICK a \in 0 .. 2 * n - 1 : a = i + k - 2
    BY <1>1
  <2>2. a % n = IF a < n THEN a ELSE a - n
    BY OnceAround
  <2>3. Around(l, i, k) = l[(a % n) + 1]
    BY <1>1, <2>1 DEF Around
  <2>4. (a % n) + 1 = IF k <= n - i + 1 THEN i + k - 1 ELSE k - (n - i + 1)
    BY <1>1, <2>1, <2>2
  <2> QED
    BY <2>3, <2>4
<1>3. Rotated(l, i) = [k \in 1 .. n |-> Around(l, i, k)]
  <2>1. PICK r \in Seq(Pages) : r = Rotated(l, i)
    BY <1>1, RotatedAt
  <2>2. /\ Len(r) = n
        /\ \A k \in 1 .. n : r[k] = IF k <= n - i + 1 THEN l[i + k - 1] ELSE l[k - (n - i + 1)]
    BY <1>1, <2>1, RotatedAt
  <2>3. \A k \in 1 .. n : r[k] = Around(l, i, k)
    BY <1>2, <2>2
  <2>4. r = [k \in 1 .. n |-> r[k]]
    BY <2>2, LenProperties
  <2> QED
    BY <2>1, <2>3, <2>4
<1>4. Rotated(RemoveAt(l, i), i) = [k \in 1 .. n - 1 |-> Around(l, i, k + 1)]
  <2>1. PICK s \in Seq(Pages) : s = RemoveAt(l, i)
    BY RemovedAt
  <2>2. /\ Len(s) = n - 1
        /\ \A k \in 1 .. n - 1 : s[k] = IF k < i THEN l[k] ELSE l[k + 1]
    BY <1>1, <2>1, RemovedAt
  <2>3. i \in 1 .. Len(s) + 1
    BY <1>1, <2>2
  <2>4. PICK r \in Seq(Pages) : r = Rotated(s, i)
    BY <2>3, RotatedAt
  <2>5. /\ Len(r) = n - 1
        /\ \A k \in 1 .. n - 1 : r[k] = IF k <= n - i THEN s[i + k - 1] ELSE s[k - (n - i)]
    <3>1. \A k \in 1 .. Len(s) :
             r[k] = IF k <= Len(s) - i + 1 THEN s[i + k - 1] ELSE s[k - (Len(s) - i + 1)]
      BY <2>3, <2>4, RotatedAt
    <3>2. Len(s) - i + 1 = n - i
      BY <1>1, <2>2
    <3> QED
      BY <2>2, <2>3, <2>4, <3>1, <3>2, RotatedAt
  <2>6. ASSUME NEW k \in 1 .. n - 1
        PROVE  r[k] = Around(l, i, k + 1)
    <3>1. Around(l, i, k + 1) = IF k + 1 <= n - i + 1 THEN l[i + (k + 1) - 1]
                                                      ELSE l[(k + 1) - (n - i + 1)]
      BY <1>2
    <3>2. CASE k <= n - i
      <4>0. i + k - 1 \in 1 .. n - 1 /\ ~(i + k - 1 < i) /\ (i + k - 1) + 1 = i + (k + 1) - 1
        BY <1>1, <3>2
      <4>1. PICK b \in 1 .. n - 1 : b = i + k - 1 /\ ~(b < i) /\ b + 1 = i + (k + 1) - 1
        BY <4>0
      <4>2. r[k] = s[b] /\ s[b] = l[b + 1]
        BY <2>2, <2>5, <3>2, <4>1
      <4>3. k + 1 <= n - i + 1
        BY <1>1, <3>2
      <4> QED
        BY <3>1, <4>1, <4>2, <4>3
    <3>3. CASE ~(k <= n - i)
      <4>0. /\ k - (n - i) \in 1 .. n - 1 /\ k - (n - i) < i
            /\ k - (n - i) = (k + 1) - (n - i + 1)
        BY <1>1, <3>3
      <4>1. PICK b \in 1 .. n - 1 : b = k - (n - i) /\ b < i /\ b = (k + 1) - (n - i + 1)
        BY <4>0
      <4>2. r[k] = s[b] /\ s[b] = l[b]
        BY <2>2, <2>5, <3>3, <4>1
      <4>3. ~(k + 1 <= n - i + 1)
        BY <1>1, <3>3
      <4> QED
        BY <3>1, <4>1, <4>2, <4>3
    <3> QED
      BY <3>2, <3>3
  <2>7. r = [k \in 1 .. n - 1 |-> r[k]]
    BY <2>5, LenProperties
  <2> QED
    BY <2>1, <2>4, <2>6, <2>7
<1> QED
  BY <1>1, <1>3, <1>4

\* What a step says of the list of class c and of its i-th page: if the page
\* serves a request, the list starts there, or where it was.
StartsHere(c, i) ==
    LET l == lists[c]
        gone == l[i] \notin ToSet(lists'[c])
    IN  (\E o \in live' \ live : o.page = l[i] /\ Class(o.size) = c) =>
           lists'[c] = [k \in 1 .. IF gone THEN Len(l) - 1 ELSE Len(l) |->
                           Around(l, i, IF gone THEN k + 1 ELSE k)]

(* An object's page is one of a list only if a search found it there.        *)
LEMMA HitStartsHere ==
    ASSUME IInv, NEW t \in Threads, NEW size \in Sizes, NEW align \in Aligns,
           AllocHit(t, size, align), NEW c \in Classes, NEW i \in DOMAIN lists[c],
           NEW o \in live' \ live, o.page = lists[c][i], Class(o.size) = c
    PROVE  StartsHere(c, i)
<1>1. PICK l \in Seq(Pages) : l = lists[c] /\ Once(l)
  BY DEF IInv, TypeOK, ListsSound
<1>2. DOMAIN l = 1 .. Len(l) /\ Len(l) \in Nat /\ i \in 1 .. Len(l)
  BY <1>1, ToSetOfSeq
<1>3. PICK j \in DOMAIN lists[Class(size)] :
         /\ \E h \in BestFit(Holes(free[lists[Class(size)][j]]), SLOB_UNITS(size), align) :
               TakeFrom(lists[Class(size)][j], free[lists[Class(size)][j]],
                        units[lists[Class(size)][j]], size, h, align)
         /\ lists' = [lists EXCEPT
               ![Class(size)] = Rotated(IF units[lists[Class(size)][j]] = SLOB_UNITS(size)
                                        THEN RemoveAt(lists[Class(size)], j)
                                        ELSE lists[Class(size)], j)]
  BY DEF AllocHit
<1>4. o.page = lists[Class(size)][j] /\ o.size = size
  BY <1>3 DEF TakeFrom
<1>5. Class(size) = c /\ j = i
  <2>1. Class(size) = c
    BY <1>4
  <2>2. j \in 1 .. Len(l) /\ l[j] = l[i]
    BY <1>1, <1>2, <1>4, <2>1
  <2> QED
    BY <1>1, <1>2, <2>1, <2>2 DEF Once
<1>6. PICK r : r = IF units[l[i]] = SLOB_UNITS(size) THEN RemoveAt(l, i) ELSE l
  OBVIOUS
<1>7. lists'[c] = Rotated(r, i)
  BY <1>1, <1>3, <1>5, <1>6 DEF IInv, TypeOK
<1>8. CASE units[l[i]] = SLOB_UNITS(size)
  <2>1. /\ r \in Seq(Pages) /\ Once(r) /\ ToSet(r) = ToSet(l) \ {l[i]}
        /\ i \in 1 .. Len(r) + 1
    BY <1>1, <1>2, <1>6, <1>8, RemoveAtPages, RemovedAt
  <2>2. l[i] \notin ToSet(lists'[c])
    BY <1>7, <2>1, RotatedPages
  <2>3. lists'[c] = [k \in 1 .. Len(l) - 1 |-> Around(l, i, k + 1)]
    BY <1>2, <1>6, <1>7, <1>8, RotatedAround
  <2> QED
    BY <1>1, <2>2, <2>3 DEF StartsHere
<1>9. CASE units[l[i]] # SLOB_UNITS(size)
  <2>1. r = l /\ i \in 1 .. Len(l) + 1
    BY <1>2, <1>6, <1>9
  <2>2. l[i] \in ToSet(l)
    BY <1>2, ToSetOfSeq
  <2>3. l[i] \in ToSet(lists'[c])
    BY <1>1, <1>7, <2>1, <2>2, RotatedPages
  <2>4. lists'[c] = [k \in 1 .. Len(l) |-> Around(l, i, k)]
    BY <1>2, <1>7, <2>1, RotatedAround
  <2> QED
    BY <1>1, <2>3, <2>4 DEF StartsHere
<1> QED
  BY <1>8, <1>9

(* A new page is not on a list when it serves the request it was fetched for. *)
LEMMA FreshIsUnlisted ==
    ASSUME IInv, NEW t \in Threads, AllocFresh(t), NEW c \in Classes, NEW i \in DOMAIN lists[c],
           NEW o \in live' \ live
    PROVE  o.page # lists[c][i]
<1>1. o.page = page[t] /\ page[t] \in Pages
  BY DEF AllocFresh, TakeFrom, IInv, TypeOK, HeldApart
<1>2. ~InUse(page[t])
  BY DEF InUse
<1>3. ~Listed(page[t])
  BY <1>1, <1>2 DEF IInv, ListsSound
<1>4. lists[c][i] \in ToSet(lists[c])
  BY ToSetOfSeq DEF IInv, TypeOK
<1> QED
  BY <1>1, <1>3, <1>4 DEF Listed

(* After a hit the list of the class starts at the page that served or, if   *)
(* that one became full, at the one that followed it, and the other pages    *)
(* keep their places in the cycle: list_move_tail of slob.c:393-395 rotates   *)
(* the list and does nothing else to it.                                     *)
THEOREM NextSearchCorrect == Spec => NextSearchHere
<1>1. ASSUME IInv, [Next]_vars, NEW c \in Classes, NEW i \in DOMAIN lists[c]
      PROVE  StartsHere(c, i)
  <2> SUFFICES ASSUME NEW o \in live' \ live, o.page = lists[c][i], Class(o.size) = c
               PROVE  StartsHere(c, i)
    BY DEF StartsHere
  <2>1. CASE \E t \in Threads, size \in Sizes, align \in Aligns : AllocHit(t, size, align)
    BY <1>1, <2>1, HitStartsHere
  <2>2. CASE \E t \in Threads : AllocFresh(t)
    BY <1>1, <2>2, FreshIsUnlisted
  <2>3. CASE live' \subseteq live
    BY <2>3
  <2>4. (UNCHANGED vars \/ \E t \in Threads :
            \/ \E size \in Sizes, align \in Aligns : AllocMiss(t, size, align)
            \/ \E p \in Pages : Grow(t, p)
            \/ GrowFails(t)
            \/ \E q \in live : FreeLast(t, q) \/ FreeOnFull(t, q) \/ FreeOnPartial(t, q)
            \/ PutPage(t)) => live' \subseteq live
    BY DEF vars, AllocMiss, Grow, GrowFails, FreeLast, FreeOnFull, FreeOnPartial, PutPage
  <2> QED
    BY <1>1, <2>1, <2>2, <2>3, <2>4 DEF Next
<1>2. IInv /\ [Next]_vars =>
      [\A c \in Classes : \A i \in DOMAIN lists[c] :
         LET l == lists[c]
             Ahead(k) == l[((i + k - 2) % Len(l)) + 1]
             gone == l[i] \notin ToSet(lists'[c])
         IN  (\E o \in live' \ live : o.page = l[i] /\ Class(o.size) = c) =>
                lists'[c] = [k \in 1 .. IF gone THEN Len(l) - 1 ELSE Len(l) |->
                                Ahead(IF gone THEN k + 1 ELSE k)]]_vars
  <2> SUFFICES ASSUME IInv, [Next]_vars, NEW c \in Classes, NEW i \in DOMAIN lists[c]
               PROVE  StartsHere(c, i)
    BY DEF StartsHere, Around
  <2> QED
    BY <1>1
<1> QED
  BY <1>2, IInvHolds, PTL DEF Spec, NextSearchHere

(***************************************************************************)
(* Calls.                                                                   *)
(***************************************************************************)

(* What every call asks for.                                                *)
LEMMA CallFacts ==
    ASSUME NEW c \in Calls
    PROVE  /\ c.kind \in {"kmalloc", "cache"} /\ c.size \in Nat \ {0}
           /\ c.rcu \in BOOLEAN /\ (c.kind = "kmalloc" => ~c.rcu)
           /\ Offset(c) \in Nat /\ BlockSize(c) \in Nat \ {0}
           /\ FromSlob(c) => BlockSize(c) \in Sizes /\ c.align \in Aligns
           /\ c.rcu => FromSlob(c)
<1>1. CASE c \in Caches
  <2>1. c.kind = "cache" /\ c.size \in Nat \ {0} /\ c.rcu \in BOOLEAN
    BY <1>1, CachesAssumption
  <2>2. BlockSize(c) \in Nat \ {0} /\ Offset(c) = 0
    BY <2>1, RcuAssumption DEF BlockSize, CacheSize, Offset
  <2> QED
    BY <1>1, <2>1, <2>2, CallsAssumption
<1>2. ASSUME NEW s \in KmallocSizes, c = KmallocOf(s)
      PROVE  /\ c.kind = "kmalloc" /\ c.size \in Nat \ {0}
             /\ c.rcu = FALSE /\ c.rcu \in BOOLEAN
             /\ Offset(c) \in Nat /\ BlockSize(c) \in Nat \ {0}
  <2>1. c.kind = "kmalloc" /\ c.size = s /\ c.rcu = FALSE
    BY <1>2 DEF KmallocOf
  <2>2. s \in Nat \ {0}
    BY KmallocAssumption
  <2>3. BlockSize(c) = s + MinAlign /\ Offset(c) = SLOB_UNITS(MinAlign)
    BY <2>1 DEF BlockSize, Offset
  <2>4. s + MinAlign \in Nat \ {0} /\ SLOB_UNITS(MinAlign) \in Nat
    BY <2>2, MinAlignAssumption DEF SLOB_UNITS, SLOB_UNIT
  <2> QED
    BY <2>1, <2>2, <2>3, <2>4
<1>3. CASE \E s \in KmallocSizes : c = KmallocOf(s)
  BY <1>2, <1>3, CallsAssumption
<1> QED
  BY <1>1, <1>3 DEF Calls

(* A kmalloc object starts inside its block, after the header.              *)
LEMMA KmallocInside ==
    ASSUME NEW c \in Calls, c.kind = "kmalloc", NEW at \in Nat
    PROVE  /\ at + Offset(c) \in Span(at, SLOB_UNITS(BlockSize(c)))
           /\ at \in Span(at, SLOB_UNITS(BlockSize(c)))
<1>1. /\ BlockSize(c) = c.size + MinAlign /\ Offset(c) = SLOB_UNITS(MinAlign)
      /\ c.size \in Nat \ {0}
  BY CallFacts DEF BlockSize, Offset
<1>2. PICK k \in Nat : MinAlign = 2 * k
  <2>1. MinAlign \in Nat /\ MinAlign % 2 = 0
    BY MinAlignAssumption DEF SLOB_UNIT
  <2> QED
    BY <2>1, MinAlign = 2 * (MinAlign \div 2), MinAlign \div 2 \in Nat
<1>3. SLOB_UNITS(MinAlign) = k
  BY <1>2 DEF SLOB_UNITS, SLOB_UNIT
<1>4. SLOB_UNITS(c.size + MinAlign) >= k + 1 /\ SLOB_UNITS(c.size + MinAlign) \in Nat
  BY <1>1, <1>2 DEF SLOB_UNITS, SLOB_UNIT
<1> QED
  BY <1>1, <1>2, <1>3, <1>4 DEF Span

(* The footer of an object is inside its block, and its start is found from *)
(* there.                                                                   *)
LEMMA FooterInside ==
    ASSUME NEW c \in Calls, c.kind = "cache", c.rcu, NEW at \in Nat
    PROVE  LET size == CacheSize(c)
               foot == at + SLOB_UNITS(size - RcuSize)
           IN  /\ size = BlockSize(c) /\ Offset(c) = 0
               /\ foot \in Span(at, SLOB_UNITS(size))
               /\ foot - SLOB_UNITS(size - RcuSize) = at
<1>1. /\ CacheSize(c) = c.size + RcuSize /\ BlockSize(c) = CacheSize(c) /\ Offset(c) = 0
      /\ c.size \in Nat \ {0}
  BY CallFacts DEF BlockSize, Offset, CacheSize
<1>2. PICK n \in Nat : n = SLOB_UNITS(c.size)
  BY <1>1 DEF SLOB_UNITS, SLOB_UNIT
<1>3. CacheSize(c) - RcuSize = c.size
  BY <1>1, RcuAssumption
<1>4. SLOB_UNITS(CacheSize(c)) >= n + 1 /\ SLOB_UNITS(CacheSize(c)) \in Nat
  BY <1>1, <1>2, RcuAssumption DEF SLOB_UNITS, SLOB_UNIT
<1> QED
  BY <1>1, <1>2, <1>3, <1>4 DEF Span

(***************************************************************************)
(* The inductive invariant: every live block has one owner, and the size    *)
(* from which a free will work out the block is still in the memory.        *)
(***************************************************************************)

DeferredBlock(d) == [page |-> d.page, at |-> Start(d), size |-> Footer(d)]

HeldSound ==
    \A h \in SlobHeld :
        /\ BlockOf(h) \in live
        /\ h.call.kind = "kmalloc" => word[h.page][h.at - Offset(h.call)] = h.call.size

DeferredSound ==
    \A d \in deferred :
        /\ DeferredBlock(d) \in live /\ DeferredBlock(d).size < PAGE_SIZE
        /\ d.foot \in SpanOf(DeferredBlock(d))

FreeingSound == \A t \in Threads : arg[t] # Nil => arg[t] \in live

AtMostOneOwner ==
    /\ \A g, h \in SlobHeld : BlockOf(g) = BlockOf(h) => g = h
    /\ \A d, e \in deferred : DeferredBlock(d) = DeferredBlock(e) => d = e
    /\ \A s, t \in Threads : arg[s] # Nil /\ arg[s] = arg[t] => s = t
    /\ \A h \in SlobHeld, d \in deferred : BlockOf(h) # DeferredBlock(d)
    /\ \A h \in SlobHeld, t \in Threads : BlockOf(h) # arg[t]
    /\ \A d \in deferred, t \in Threads : DeferredBlock(d) # arg[t]

Owned(o) ==
    \/ \E h \in SlobHeld : o = BlockOf(h)
    \/ \E d \in deferred : o = DeferredBlock(d)
    \/ \E t \in Threads : o = arg[t]

BlocksOwned ==
    HeldSound /\ DeferredSound /\ FreeingSound /\ AtMostOneOwner
        /\ \A o \in live : Owned(o)

\* Pages handed out whole.
PagesOwned ==
    /\ big = {h.page : h \in held \ SlobHeld}
    /\ \A g, h \in held \ SlobHeld : g.page = h.page => g = h
    /\ big \cap slab = {}

\* A context that grows the heap does so for its call.
Growing ==
    \A t \in Threads : pc[t] \in {"grow", "fresh"} =>
        /\ call[t] \in Calls /\ FromSlob(call[t])
        /\ req[t].size = BlockSize(call[t])

FewOwners ==
    IsFiniteSet(held) /\ IsFiniteSet(deferred) /\ IsFiniteSet({t \in Threads : arg[t] # Nil})

FrontInv ==
    FrontTypeOK /\ BlocksOwned /\ PagesOwned /\ Growing /\ FewOwners

(* Initially nothing is handed out.                                         *)
LEMMA FrontInitInv == FrontInit => IInv /\ FrontInv
<1> SUFFICES ASSUME FrontInit
             PROVE  IInv /\ FrontInv
  OBVIOUS
<1>1. IInv
  BY InitIInv DEF FrontInit
<1>2. SlobHeld = {} /\ held = {} /\ deferred = {} /\ live = {} /\ big = {}
  BY DEF FrontInit, Init, SlobHeld
<1>3. \A t \in Threads : arg[t] = Nil /\ pc[t] = "idle"
  BY DEF FrontInit, Init
<1>4. FrontTypeOK
  BY <1>1, <1>2 DEF IInv, FrontTypeOK, FrontInit
<1>5. BlocksOwned
  BY <1>2, <1>3 DEF BlocksOwned, HeldSound, DeferredSound, FreeingSound, AtMostOneOwner
<1>6. PagesOwned /\ Growing
  BY <1>2, <1>3 DEF PagesOwned, Growing
<1>7. FewOwners
  <2>1. {t \in Threads : arg[t] # Nil} = {}
    BY <1>3
  <2> QED
    BY <1>2, <2>1, FS_EmptySet DEF FewOwners
<1> QED
  BY <1>1, <1>4, <1>5, <1>6, <1>7 DEF FrontInv

(***************************************************************************)
(* What one block's coming, going and changing hands does.                  *)
(***************************************************************************)

\* Only words of this block may have changed.
OnlyWordsOf(o) ==
    \A p \in Pages, u \in Units : p # o.page \/ u \notin SpanOf(o) => word'[p][u] = word[p][u]

(* Objects on one page share no unit.                                       *)
LEMMA ApartFrom ==
    ASSUME IInv, NEW o \in live, NEW q \in live, q # o, NEW u \in SpanOf(q)
    PROVE  q.page # o.page \/ u \notin SpanOf(o)
  BY DEF IInv, PagesSound, ObjectsApart, ObjectsOn

(* What a free will work out is safe from writes to another block.          *)
LEMMA DeferredKept ==
    ASSUME IInv, FrontInv, NEW d \in deferred, NEW o, OnlyWordsOf(o),
           \A u \in SpanOf(DeferredBlock(d)) : d.page # o.page \/ u \notin SpanOf(o)
    PROVE  DeferredBlock(d)' = DeferredBlock(d)
<1>1. d.page \in Pages /\ d.foot \in Units /\ d.foot \in SpanOf(DeferredBlock(d))
  BY DEF FrontInv, FrontTypeOK, Pending, BlocksOwned, DeferredSound
<1>2. word'[d.page][d.foot] = word[d.page][d.foot]
  BY <1>1 DEF OnlyWordsOf
<1> QED
  BY <1>2 DEF DeferredBlock, Start, Footer

(* The block of an object that a caller holds, and where its header is.      *)
LEMMA HeldBlock ==
    ASSUME IInv, FrontInv, NEW h \in SlobHeld
    PROVE  /\ h \in Held /\ h.call \in Calls /\ h.page \in Pages /\ h.at \in Units
           /\ BlockOf(h) \in live /\ BlockOf(h).page = h.page
           /\ BlockOf(h).at = h.at - Offset(h.call) /\ BlockOf(h).at \in Nat
           /\ BlockOf(h).size = BlockSize(h.call)
           /\ h.call.kind = "kmalloc" =>
                 /\ h.at - Offset(h.call) \in SpanOf(BlockOf(h)) \cap Units
                 /\ word[h.page][h.at - Offset(h.call)] = h.call.size
<1>1. h \in Held /\ h.call \in Calls /\ h.page \in Pages /\ h.at \in Units
  BY DEF FrontInv, FrontTypeOK, SlobHeld, Held
<1>2. /\ BlockOf(h).page = h.page /\ BlockOf(h).at = h.at - Offset(h.call)
      /\ BlockOf(h).size = BlockSize(h.call)
  BY DEF BlockOf
<1>3. /\ BlockOf(h) \in live
      /\ h.call.kind = "kmalloc" => word[h.page][h.at - Offset(h.call)] = h.call.size
  BY DEF FrontInv, BlocksOwned, HeldSound
<1>4. BlockOf(h).at \in Units /\ BlockOf(h).at \in Nat
  BY <1>3 DEF IInv, TypeOK, Object, Units
<1>5. h.call.kind = "kmalloc" => h.at - Offset(h.call) \in SpanOf(BlockOf(h)) \cap Units
  BY <1>1, <1>2, <1>4, KmallocInside DEF SpanOf
<1> QED
  BY <1>1, <1>2, <1>3, <1>4, <1>5

(* A header is safe from writes to another block.                           *)
LEMMA HeaderKept ==
    ASSUME IInv, FrontInv, NEW h \in SlobHeld, NEW o, OnlyWordsOf(o),
           \A u \in SpanOf(BlockOf(h)) : h.page # o.page \/ u \notin SpanOf(o)
    PROVE  h.call.kind = "kmalloc" => word'[h.page][h.at - Offset(h.call)] = h.call.size
  BY HeldBlock DEF OnlyWordsOf

(* slob_alloc hands out a new block.                                        *)
LEMMA BlockComes ==
    ASSUME IInv, IInv', FrontInv, NEW c \in Calls, FromSlob(c), NEW o \in Object,
           o \notin live, live' = live \cup {o}, o.size = BlockSize(c), Hand(c, o),
           UNCHANGED <<slab, big, arg, deferred>>
    PROVE  /\ BlocksOwned' /\ PagesOwned' /\ IsFiniteSet(held)'
           /\ held' \subseteq Held
           /\ word' \in [Pages -> [Units -> Nat \cup {Data, Junk}]]
<1>1. PICK n : n = [call |-> c, page |-> o.page, at |-> o.at + Offset(c)]
  OBVIOUS
<1>2. /\ o.page \in Pages /\ o.at \in Nat /\ o.at \in Units
      /\ SpanOf(o) = Span(o.at, SLOB_UNITS(BlockSize(c))) /\ SpanOf(o) \subseteq Units
  BY DEF Object, Units, SpanOf, IInv, PagesSound, ObjectsApart
<1>3. /\ c.kind \in {"kmalloc", "cache"} /\ Offset(c) \in Nat /\ c.size \in Nat
      /\ c.kind = "cache" => Offset(c) = 0
  BY CallFacts DEF Offset
<1>4. o.at + Offset(c) \in Units
  <2>1. CASE c.kind = "kmalloc"
    BY <2>1, <1>2, KmallocInside
  <2>2. CASE c.kind = "cache"
    BY <2>2, <1>2, <1>3
  <2> QED
    BY <2>1, <2>2, <1>3
<1>5. n \in Held /\ n.call = c /\ n.page = o.page /\ n.at - Offset(c) = o.at
  BY <1>1, <1>2, <1>3, <1>4 DEF Held
<1>6. BlockOf(n) = o
  <2>1. BlockOf(n) = [page |-> o.page, at |-> o.at, size |-> o.size]
    BY <1>5 DEF BlockOf
  <2> QED
    BY <2>1 DEF Object
<1>7. /\ held' = held \cup {n} /\ SlobHeld' = SlobHeld \cup {n}
      /\ held' \ SlobHeld' = held \ SlobHeld
  BY <1>1, <1>5 DEF Hand, SlobHeld
<1>8. word \in [Pages -> [Units -> Nat \cup {Data, Junk}]]
  BY DEF FrontInv, FrontTypeOK
<1>9. word' \in [Pages -> [Units -> Nat \cup {Data, Junk}]] /\ OnlyWordsOf(o)
  BY <1>2, <1>3, <1>8 DEF Hand, OnlyWordsOf
<1>10. c.kind = "kmalloc" => word'[o.page][o.at] = c.size
  BY <1>2, <1>8, KmallocInside DEF Hand
<1>11. ASSUME NEW q \in live, NEW u \in SpanOf(q)
       PROVE  q.page # o.page \/ u \notin SpanOf(o)
  BY DEF IInv, PagesSound, ObjectsApart, ObjectsOn
<1>12. \A d \in deferred : DeferredBlock(d) \in live /\ d.page = DeferredBlock(d).page
  BY DEF FrontInv, BlocksOwned, DeferredSound, DeferredBlock
<1>13. \A d \in deferred : DeferredBlock(d)' = DeferredBlock(d)
  BY <1>9, <1>11, <1>12, DeferredKept
<1>14. \A h \in SlobHeld :
          /\ BlockOf(h) \in live
          /\ h.call.kind = "kmalloc" => word'[h.page][h.at - Offset(h.call)] = h.call.size
  BY <1>9, <1>11, HeldBlock, HeaderKept
<1>15. HeldSound'
  BY <1>5, <1>6, <1>7, <1>10, <1>14 DEF HeldSound
<1>16. DeferredSound' /\ FreeingSound'
  BY <1>13 DEF FrontInv, BlocksOwned, DeferredSound, FreeingSound
<1>17. \A t \in Threads : arg[t] # o
  BY CallsAssumption DEF FrontInv, BlocksOwned, FreeingSound
<1>18. AtMostOneOwner'
  BY <1>6, <1>7, <1>12, <1>13, <1>14, <1>17 DEF FrontInv, BlocksOwned, AtMostOneOwner
<1>19. \A q \in live' : Owned(q)'
  <2>1. Owned(o)'
    BY <1>6, <1>7 DEF Owned
  <2>2. ASSUME NEW q \in live
        PROVE  Owned(q)'
    <3>1. Owned(q)
      BY DEF FrontInv, BlocksOwned
    <3> QED
      BY <3>1, <1>7, <1>13 DEF Owned
  <2> QED
    BY <2>1, <2>2
<1>20. PagesOwned' /\ IsFiniteSet(held)'
  BY <1>7, FS_AddElement DEF FrontInv, PagesOwned, FewOwners
<1> QED
  BY <1>5, <1>7, <1>9, <1>15, <1>16, <1>18, <1>19, <1>20
     DEF BlocksOwned, FrontInv, FrontTypeOK

(* Blocks and pages stay whose they are while nothing about them changes.    *)
LEMMA OwnersKept ==
    ASSUME FrontInv, UNCHANGED <<live, word, held, arg, deferred>>
    PROVE  BlocksOwned' /\ (UNCHANGED <<big, slab>> => PagesOwned')
<1>1. SlobHeld' = SlobHeld /\ \A d : DeferredBlock(d)' = DeferredBlock(d)
  BY DEF SlobHeld, DeferredBlock, Start, Footer
<1>2. HeldSound' /\ DeferredSound' /\ FreeingSound' /\ AtMostOneOwner'
  BY <1>1 DEF FrontInv, BlocksOwned, HeldSound, DeferredSound, FreeingSound, AtMostOneOwner
<1>3. \A o \in live : Owned(o)'
  BY <1>1 DEF FrontInv, BlocksOwned, Owned
<1> QED
  BY <1>1, <1>2, <1>3 DEF BlocksOwned, FrontInv, PagesOwned

(* A caller gives its block back: kfree, or a free without RCU.             *)
LEMMA BlockGivenBack ==
    ASSUME IInv, FrontInv, NEW t \in Threads, arg[t] = Nil, NEW h \in SlobHeld,
           held' = held \ {h}, arg' = [arg EXCEPT ![t] = BlockOf(h)],
           UNCHANGED <<live, word, deferred>>
    PROVE  BlocksOwned'
<1>1. SlobHeld' = SlobHeld \ {h} /\ BlockOf(h) \in live
  BY HeldBlock DEF SlobHeld
<1>2. arg'[t] = BlockOf(h) /\ \A u \in Threads \ {t} : arg'[u] = arg[u]
  BY DEF FrontInv, FrontTypeOK
<1>3. \A d : DeferredBlock(d)' = DeferredBlock(d)
  BY DEF DeferredBlock, Start, Footer
<1>4. HeldSound' /\ DeferredSound' /\ FreeingSound'
  BY <1>1, <1>2, <1>3 DEF FrontInv, BlocksOwned, HeldSound, DeferredSound, FreeingSound
<1>5. AtMostOneOwner'
  BY <1>1, <1>2, <1>3 DEF FrontInv, BlocksOwned, AtMostOneOwner
<1>6. ASSUME NEW q \in live
      PROVE  Owned(q)'
  <2>1. Owned(q)
    BY DEF FrontInv, BlocksOwned
  <2>2. q \in Object
    BY DEF IInv, TypeOK
  <2> QED
    BY <2>1, <2>2, <1>1, <1>2, <1>3, CallsAssumption DEF Owned
<1> QED
  BY <1>4, <1>5, <1>6 DEF BlocksOwned

(* An RCU callback gives a block back.                                      *)
LEMMA DeferredGivenBack ==
    ASSUME IInv, FrontInv, NEW t \in Threads, arg[t] = Nil, NEW e \in deferred,
           deferred' = deferred \ {e}, arg' = [arg EXCEPT ![t] = DeferredBlock(e)],
           UNCHANGED <<live, word, held>>
    PROVE  BlocksOwned'
<1>1. SlobHeld' = SlobHeld /\ DeferredBlock(e) \in live
  BY DEF SlobHeld, FrontInv, BlocksOwned, DeferredSound
<1>2. arg'[t] = DeferredBlock(e) /\ \A u \in Threads \ {t} : arg'[u] = arg[u]
  BY DEF FrontInv, FrontTypeOK
<1>3. \A d : DeferredBlock(d)' = DeferredBlock(d)
  BY DEF DeferredBlock, Start, Footer
<1>4. HeldSound' /\ DeferredSound' /\ FreeingSound'
  BY <1>1, <1>2, <1>3 DEF FrontInv, BlocksOwned, HeldSound, DeferredSound, FreeingSound
<1>5. AtMostOneOwner'
  BY <1>1, <1>2, <1>3 DEF FrontInv, BlocksOwned, AtMostOneOwner
<1>6. ASSUME NEW q \in live
      PROVE  Owned(q)'
  <2>1. Owned(q)
    BY DEF FrontInv, BlocksOwned
  <2>2. q \in Object
    BY DEF IInv, TypeOK
  <2> QED
    BY <2>1, <2>2, <1>1, <1>2, <1>3, CallsAssumption DEF Owned
<1> QED
  BY <1>4, <1>5, <1>6 DEF BlocksOwned

(* A block of an RCU cache waits, with its size in its footer.              *)
LEMMA BlockDeferred ==
    ASSUME IInv, FrontInv, NEW h \in SlobHeld, h.call.kind = "cache", h.call.rcu,
           NEW waits \in SUBSET Readers,
           NEW foot, foot = h.at + SLOB_UNITS(CacheSize(h.call) - RcuSize),
           held' = held \ {h}, word' = [word EXCEPT ![h.page][foot] = CacheSize(h.call)],
           deferred' = deferred \cup {[page |-> h.page, foot |-> foot, waits |-> waits]},
           UNCHANGED <<live, arg>>
    PROVE  /\ BlocksOwned' /\ IsFiniteSet(deferred)' /\ deferred' \subseteq Pending
           /\ word' \in [Pages -> [Units -> Nat \cup {Data, Junk}]]
<1>1. PICK e : e = [page |-> h.page, foot |-> foot, waits |-> waits]
  OBVIOUS
<1>2. PICK o \in live : o = BlockOf(h)
  BY HeldBlock
<1>3. /\ h.call \in Calls /\ h.page \in Pages /\ h.at \in Nat /\ h.at \in Units
      /\ o \in Object /\ o.page = h.page /\ SpanOf(o) \subseteq Units
      /\ o.size = BlockSize(h.call) /\ o.at = h.at - Offset(h.call)
  BY <1>2, HeldBlock DEF Units, IInv, TypeOK, PagesSound, ObjectsApart
<1>4. /\ CacheSize(h.call) = BlockSize(h.call) /\ o.at = h.at
      /\ foot \in SpanOf(o) /\ foot - SLOB_UNITS(CacheSize(h.call) - RcuSize) = h.at
  BY <1>3, FooterInside DEF SpanOf
<1>5. e \in Pending /\ e.page = h.page /\ e.foot = foot
  BY <1>1, <1>3, <1>4 DEF Pending
<1>6. word \in [Pages -> [Units -> Nat \cup {Data, Junk}]]
  BY DEF FrontInv, FrontTypeOK
<1>7. /\ word' \in [Pages -> [Units -> Nat \cup {Data, Junk}]]
      /\ OnlyWordsOf(o) /\ word'[h.page][foot] = CacheSize(h.call)
  <2>1. CacheSize(h.call) \in Nat
    BY <1>3, <1>4, CallFacts
  <2> QED
    BY <2>1, <1>3, <1>4, <1>6 DEF OnlyWordsOf
<1>8. DeferredBlock(e)' = o
  <2>1. DeferredBlock(e)' = [page |-> h.page, at |-> h.at, size |-> CacheSize(h.call)]
    BY <1>4, <1>5, <1>7 DEF DeferredBlock, Start, Footer
  <2> QED
    BY <2>1, <1>3, <1>4 DEF Object
<1>9. deferred' = deferred \cup {e} /\ SlobHeld' = SlobHeld \ {h}
  BY <1>1 DEF SlobHeld
<1>10. \A d \in deferred : DeferredBlock(d) \in live /\ d.page = DeferredBlock(d).page
                             /\ DeferredBlock(d) # o
  BY <1>2 DEF FrontInv, BlocksOwned, DeferredSound, AtMostOneOwner, DeferredBlock
<1>11. \A d \in deferred : DeferredBlock(d)' = DeferredBlock(d)
  <2> SUFFICES ASSUME NEW d \in deferred
               PROVE  DeferredBlock(d)' = DeferredBlock(d)
    OBVIOUS
  <2>1. \A u \in SpanOf(DeferredBlock(d)) : d.page # o.page \/ u \notin SpanOf(o)
    BY <1>10, ApartFrom
  <2> QED
    BY <2>1, <1>7, DeferredKept
<1>12. ASSUME NEW g \in SlobHeld, g # h
       PROVE  /\ BlockOf(g) \in live /\ BlockOf(g) # o
              /\ g.call.kind = "kmalloc" => word'[g.page][g.at - Offset(g.call)] = g.call.size
  <2>1. BlockOf(g) \in live /\ BlockOf(g) # o /\ BlockOf(g).page = g.page
    BY <1>2, <1>12, HeldBlock DEF FrontInv, BlocksOwned, AtMostOneOwner
  <2>2. \A u \in SpanOf(BlockOf(g)) : g.page # o.page \/ u \notin SpanOf(o)
    BY <2>1, ApartFrom
  <2> QED
    BY <2>1, <2>2, <1>7, HeaderKept
<1>13. HeldSound' /\ DeferredSound' /\ FreeingSound'
  <2>1. o.size < PAGE_SIZE
    BY <1>3 DEF SlobHeld, FromSlob
  <2> QED
    BY <2>1, <1>4, <1>5, <1>8, <1>9, <1>11, <1>12
     DEF FrontInv, BlocksOwned, HeldSound, DeferredSound, FreeingSound
<1>14. \A t \in Threads : arg[t] # o
  BY <1>2 DEF FrontInv, BlocksOwned, AtMostOneOwner
<1>15. AtMostOneOwner'
  BY <1>8, <1>9, <1>10, <1>11, <1>12, <1>14 DEF FrontInv, BlocksOwned, AtMostOneOwner
<1>16. ASSUME NEW q \in live
       PROVE  Owned(q)'
  <2>1. Owned(q)
    BY DEF FrontInv, BlocksOwned
  <2> QED
    BY <2>1, <1>2, <1>8, <1>9, <1>11 DEF Owned
<1>17. IsFiniteSet(deferred)'
  BY <1>9, FS_AddElement DEF FrontInv, FewOwners
<1>18. deferred' \subseteq Pending
  BY <1>5, <1>9 DEF FrontInv, FrontTypeOK
<1> QED
  BY <1>7, <1>13, <1>15, <1>16, <1>17, <1>18 DEF BlocksOwned

(* slob_free takes a block, and the list of free blocks its words.          *)
LEMMA BlockGoes ==
    ASSUME IInv, FrontInv, NEW t \in Threads, NEW o \in live, arg[t] = o,
           live' = live \ {o}, arg' = [arg EXCEPT ![t] = Nil], OnlyWordsOf(o),
           UNCHANGED <<held, deferred>>
    PROVE  BlocksOwned'
<1>1. o \in Object /\ o # Nil
  BY CallsAssumption DEF IInv, TypeOK
<1>2. arg'[t] = Nil /\ \A u \in Threads \ {t} : arg'[u] = arg[u]
  BY DEF FrontInv, FrontTypeOK
<1>3. \A d \in deferred : DeferredBlock(d) \in live /\ d.page = DeferredBlock(d).page
                             /\ DeferredBlock(d) # o
  BY DEF FrontInv, BlocksOwned, DeferredSound, AtMostOneOwner, DeferredBlock
<1>4. ASSUME NEW d \in deferred
      PROVE  DeferredBlock(d)' = DeferredBlock(d)
  <2>1. \A u \in SpanOf(DeferredBlock(d)) : d.page # o.page \/ u \notin SpanOf(o)
    BY <1>3, ApartFrom
  <2> QED
    BY <2>1, DeferredKept
<1>5. ASSUME NEW g \in SlobHeld
      PROVE  /\ BlockOf(g) \in live /\ BlockOf(g) # o
             /\ g.call.kind = "kmalloc" => word'[g.page][g.at - Offset(g.call)] = g.call.size
  <2>1. BlockOf(g) \in live /\ BlockOf(g) # o /\ BlockOf(g).page = g.page
    BY HeldBlock DEF FrontInv, BlocksOwned, AtMostOneOwner
  <2>2. \A u \in SpanOf(BlockOf(g)) : g.page # o.page \/ u \notin SpanOf(o)
    BY <2>1, ApartFrom
  <2> QED
    BY <2>1, <2>2, HeaderKept
<1>6. SlobHeld' = SlobHeld
  BY DEF SlobHeld
<1>7. HeldSound' /\ DeferredSound'
  BY <1>3, <1>4, <1>5, <1>6 DEF FrontInv, BlocksOwned, HeldSound, DeferredSound
<1>8. \A u \in Threads \ {t} : arg[u] # o
  BY <1>1 DEF FrontInv, BlocksOwned, AtMostOneOwner
<1>9. FreeingSound'
  BY <1>2, <1>8 DEF FrontInv, BlocksOwned, FreeingSound
<1>10. AtMostOneOwner'
  <2>1. \A q \in live : q # Nil
    BY CallsAssumption DEF IInv, TypeOK
  <2> QED
    BY <2>1, <1>2, <1>3, <1>4, <1>5, <1>6 DEF FrontInv, BlocksOwned, AtMostOneOwner
<1>11. ASSUME NEW q \in live'
       PROVE  Owned(q)'
  <2>1. Owned(q) /\ q # o
    BY DEF FrontInv, BlocksOwned
  <2> QED
    BY <2>1, <1>2, <1>4, <1>6 DEF Owned
<1> QED
  BY <1>7, <1>9, <1>10, <1>11 DEF BlocksOwned

(* A reader that ends may let grace periods end; the blocks still wait.      *)
LEMMA ReadersEnd ==
    ASSUME IInv, FrontInv, NEW r \in Readers,
           deferred' = {[d EXCEPT !.waits = @ \ {r}] : d \in deferred},
           UNCHANGED <<live, word, held, arg>>
    PROVE  BlocksOwned' /\ IsFiniteSet(deferred)' /\ deferred' \subseteq Pending
<1>1. ASSUME NEW d \in deferred, NEW e, e = [d EXCEPT !.waits = @ \ {r}]
      PROVE  /\ e \in Pending /\ e.page = d.page /\ e.foot = d.foot
             /\ DeferredBlock(e)' = DeferredBlock(d)
  <2>1. d \in Pending
    BY DEF FrontInv, FrontTypeOK
  <2>2. e \in Pending /\ e.page = d.page /\ e.foot = d.foot
    BY <2>1, <1>1 DEF Pending
  <2> QED
    BY <2>2 DEF DeferredBlock, Start, Footer
<1>2. SlobHeld' = SlobHeld
  BY DEF SlobHeld
<1>3. HeldSound' /\ FreeingSound'
  BY <1>2 DEF FrontInv, BlocksOwned, HeldSound, FreeingSound
<1>4. \A e \in deferred' : \E d \in deferred :
          e = [d EXCEPT !.waits = @ \ {r}] /\ e.foot = d.foot
          /\ DeferredBlock(e)' = DeferredBlock(d)
  BY <1>1
<1>5. DeferredSound'
  BY <1>4 DEF FrontInv, BlocksOwned, DeferredSound
<1>6. AtMostOneOwner'
  <2>1. ASSUME NEW x \in deferred', NEW y \in deferred',
               DeferredBlock(x)' = DeferredBlock(y)'
        PROVE  x = y
    <3>1. PICK d \in deferred : x = [d EXCEPT !.waits = @ \ {r}]
                                 /\ DeferredBlock(x)' = DeferredBlock(d)
      BY <1>4
    <3>2. PICK e \in deferred : y = [e EXCEPT !.waits = @ \ {r}]
                                 /\ DeferredBlock(y)' = DeferredBlock(e)
      BY <1>4
    <3>3. d = e
      BY <2>1, <3>1, <3>2 DEF FrontInv, BlocksOwned, AtMostOneOwner
    <3> QED
      BY <3>1, <3>2, <3>3
  <2>2. \A x \in deferred' : \E d \in deferred : DeferredBlock(x)' = DeferredBlock(d)
    BY <1>4
  <2>3. /\ \A h \in SlobHeld, x \in deferred' : BlockOf(h) # DeferredBlock(x)'
        /\ \A x \in deferred', t \in Threads : DeferredBlock(x)' # arg[t]
    BY <2>2 DEF FrontInv, BlocksOwned, AtMostOneOwner
  <2> QED
    BY <2>1, <2>3, <1>2 DEF FrontInv, BlocksOwned, AtMostOneOwner
<1>7. ASSUME NEW q \in live
      PROVE  Owned(q)'
  <2>1. Owned(q)
    BY DEF FrontInv, BlocksOwned
  <2>2. \A d \in deferred : \E e \in deferred' : DeferredBlock(e)' = DeferredBlock(d)
    BY <1>1
  <2> QED
    BY <2>1, <2>2, <1>2 DEF Owned
<1>8. deferred' \subseteq Pending
  BY <1>1
<1>9. IsFiniteSet(deferred)'
  <2>1. PICK f : f = [d \in deferred |-> [d EXCEPT !.waits = @ \ {r}]]
    OBVIOUS
  <2>2. f \in Surjection(deferred, deferred')
    BY <2>1 DEF Surjection
  <2>3. IsFiniteSet(deferred)
    BY DEF FrontInv, FewOwners
  <2> QED
    BY <2>2, <2>3, FS_Surjection
<1> QED
  BY <1>3, <1>5, <1>6, <1>7, <1>8, <1>9 DEF BlocksOwned

(***************************************************************************)
(* The steps of the front end.  Each does to the heap what Slob's Next      *)
(* allows, or nothing.                                                      *)
(***************************************************************************)

(* One context more, or one less, is about to free.                         *)
LEMMA FreeingFinite ==
    ASSUME FrontInv, NEW t \in Threads, NEW x, arg' = [arg EXCEPT ![t] = x]
    PROVE  IsFiniteSet({u \in Threads : arg[u] # Nil})'
<1>1. \A u \in Threads \ {t} : arg'[u] = arg[u]
  BY DEF FrontInv, FrontTypeOK
<1>2. {u \in Threads : arg'[u] # Nil} \subseteq {u \in Threads : arg[u] # Nil} \cup {t}
  BY <1>1
<1>3. IsFiniteSet({u \in Threads : arg[u] # Nil} \cup {t})
  BY FS_AddElement DEF FrontInv, FewOwners
<1> QED
  BY <1>2, <1>3, FS_Subset

(* slob_alloc for a call of the front end: with room, or without.           *)
LEMMA SlobAllocStep ==
    ASSUME IInv, FrontInv, NEW t \in Threads, NEW c \in Calls, FromSlob(c), SlobAlloc(t, c)
    PROVE  [Next]_vars /\ IInv' /\ FrontInv'
<1>1. BlockSize(c) \in Sizes /\ c.align \in Aligns
  BY CallFacts
<1>2. CASE /\ AllocHit(t, BlockSize(c), c.align)
           /\ \E o \in live' \ live : Hand(c, o)
           /\ UNCHANGED <<big, call, arg, deferred, reader>>
  <2>1. [Next]_vars /\ IInv'
    BY <1>1, <1>2, AllocHitStep DEF Next
  <2>2. PICK o : o.size = BlockSize(c) /\ live' = live \cup {o}
    BY <1>2 DEF AllocHit, TakeFrom
  <2>3. o \in Object /\ o \notin live /\ Hand(c, o)
    BY <1>2, <2>1, <2>2 DEF IInv, TypeOK
  <2>4. UNCHANGED <<slab, pc, req>>
    BY <1>2 DEF AllocHit
  <2>5. /\ BlocksOwned' /\ PagesOwned' /\ IsFiniteSet(held)' /\ held' \subseteq Held
        /\ word' \in [Pages -> [Units -> Nat \cup {Data, Junk}]]
    BY <1>2, <2>1, <2>2, <2>3, <2>4, BlockComes
  <2>6. FrontTypeOK' /\ Growing' /\ FewOwners'
    BY <1>2, <2>1, <2>4, <2>5 DEF FrontInv, FrontTypeOK, Growing, FewOwners, IInv
  <2> QED
    BY <2>1, <2>5, <2>6 DEF FrontInv
<1>3. CASE /\ AllocMiss(t, BlockSize(c), c.align)
           /\ call' = [call EXCEPT ![t] = c]
           /\ UNCHANGED <<big, word, held, arg, deferred, reader>>
  <2>1. [Next]_vars /\ IInv'
    BY <1>1, <1>3, AllocMissStep DEF Next
  <2>2. UNCHANGED <<slab, live>>
    BY <1>3 DEF AllocMiss
  <2>3. BlocksOwned' /\ PagesOwned'
    BY <1>3, <2>2, OwnersKept
  <2>4. Growing'
    <3>1. /\ call' \in [Threads -> Calls \cup {Nil}] /\ call'[t] = c
          /\ \A u \in Threads \ {t} : call'[u] = call[u] /\ pc'[u] = pc[u] /\ req'[u] = req[u]
          /\ req'[t].size = BlockSize(c)
      BY <1>3 DEF FrontInv, FrontTypeOK, AllocMiss, IInv, TypeOK
    <3> QED
      BY <3>1 DEF FrontInv, Growing
  <2>5. FrontTypeOK' /\ FewOwners'
    BY <1>3, <2>1 DEF FrontInv, FrontTypeOK, FewOwners, IInv
  <2> QED
    BY <2>1, <2>3, <2>4, <2>5 DEF FrontInv
<1> QED
  BY <1>2, <1>3 DEF SlobAlloc

(* A whole page for a caller.                                               *)
LEMMA NewPagesStep ==
    ASSUME IInv, FrontInv, NEW c \in Calls, ~FromSlob(c), NewPages(c)
    PROVE  [Next]_vars /\ IInv' /\ FrontInv'
<1>1. PICK p \in Buddy : /\ big' = big \cup {p}
                         /\ held' = held \cup {[call |-> c, page |-> p, at |-> 0]}
                         /\ Fill(p, Units, Data)
  BY DEF NewPages
<1>2. PICK n : n = [call |-> c, page |-> p, at |-> 0]
  OBVIOUS
<1>3. p \in Pages /\ p \notin slab /\ p \notin big /\ 0 \in Units
  BY PageUnitsAssumption DEF Buddy, Units
<1>4. n \in Held /\ n.call = c /\ n.page = p
  BY <1>2, <1>3 DEF Held
<1>5. UNCHANGED <<heap, call, arg, deferred, reader>>
  BY DEF NewPages
<1>6. [Next]_vars /\ IInv'
  BY <1>5, NextIInv DEF heap, vars
<1>7. SlobHeld' = SlobHeld /\ held' = held \cup {n} /\ held' \ SlobHeld' = (held \ SlobHeld) \cup {n}
  BY <1>1, <1>2, <1>4 DEF SlobHeld
<1>8. /\ word' \in [Pages -> [Units -> Nat \cup {Data, Junk}]]
      /\ \A q \in Pages \ {p}, u \in Units : word'[q][u] = word[q][u]
  BY <1>1, <1>3 DEF Fill, FrontInv, FrontTypeOK
<1>9. \A o \in live : o.page \in slab
  BY DEF IInv, PagesSound, ObjectsApart, InUse
<1>10. \A h \in SlobHeld :
          /\ BlockOf(h) \in live
          /\ h.call.kind = "kmalloc" => word'[h.page][h.at - Offset(h.call)] = h.call.size
  BY <1>3, <1>8, <1>9, HeldBlock
<1>11. ASSUME NEW d \in deferred
       PROVE  DeferredBlock(d)' = DeferredBlock(d)
  <2>1. d.page \in slab /\ d.page \in Pages /\ d.foot \in Units
    BY <1>9 DEF FrontInv, FrontTypeOK, Pending, BlocksOwned, DeferredSound, DeferredBlock
  <2>2. word'[d.page][d.foot] = word[d.page][d.foot]
    BY <2>1, <1>3, <1>8
  <2> QED
    BY <2>2 DEF DeferredBlock, Start, Footer
<1>12. live' = live /\ arg' = arg /\ deferred' = deferred /\ slab' = slab
       /\ pc' = pc /\ req' = req /\ call' = call /\ reader' = reader
  BY <1>5 DEF heap
<1>13. HeldSound' /\ DeferredSound' /\ FreeingSound' /\ AtMostOneOwner'
  BY <1>7, <1>10, <1>11, <1>12
     DEF FrontInv, BlocksOwned, HeldSound, DeferredSound, FreeingSound, AtMostOneOwner
<1>14. \A o \in live : Owned(o)'
  BY <1>7, <1>11, <1>12 DEF FrontInv, BlocksOwned, Owned
<1>15. BlocksOwned'
  BY <1>12, <1>13, <1>14 DEF BlocksOwned
<1>16. PagesOwned'
  BY <1>1, <1>3, <1>4, <1>7, <1>12 DEF FrontInv, PagesOwned
<1>17. Growing'
  BY <1>12 DEF FrontInv, Growing
<1>18. FewOwners'
  BY <1>7, <1>12, FS_AddElement DEF FrontInv, FewOwners
<1>19. FrontTypeOK'
  BY <1>1, <1>3, <1>4, <1>6, <1>7, <1>8, <1>12 DEF FrontInv, FrontTypeOK, IInv
<1> QED
  BY <1>6, <1>15, <1>16, <1>17, <1>18, <1>19 DEF FrontInv

(* A context gets a page for the allocator, or none.                        *)
LEMMA GetPageStep ==
    ASSUME IInv, FrontInv, NEW t \in Threads, GetPage(t)
    PROVE  [Next]_vars /\ IInv' /\ FrontInv'
<1>1. UNCHANGED <<big, word, held, arg, deferred, reader>>
  BY DEF GetPage
<1>2. ASSUME NEW p \in Buddy, Grow(t, p), UNCHANGED call
      PROVE  [Next]_vars /\ IInv' /\ FrontInv'
  <2>1. p \in Pages /\ p \notin big
    BY DEF Buddy
  <2>2. [Next]_vars /\ IInv'
    BY <1>2, <2>1, GrowStep DEF Next
  <2>3. slab' = slab \cup {p} /\ UNCHANGED <<live, req>> /\ pc[t] = "grow"
    BY <1>2 DEF Grow
  <2>4. BlocksOwned'
    BY <1>1, <2>3, OwnersKept
  <2>5. PagesOwned'
    BY <1>1, <2>1, <2>3 DEF FrontInv, PagesOwned, SlobHeld
  <2>6. Growing'
    <3>1. \A u \in Threads \ {t} : pc'[u] = pc[u]
      BY <1>2 DEF Grow, IInv, TypeOK
    <3> QED
      BY <1>2, <2>3, <3>1 DEF FrontInv, Growing
  <2>7. FrontTypeOK' /\ FewOwners'
    BY <1>1, <1>2, <2>2 DEF FrontInv, FrontTypeOK, FewOwners, IInv
  <2> QED
    BY <2>2, <2>4, <2>5, <2>6, <2>7 DEF FrontInv
<1>3. ASSUME GrowFails(t), call' = [call EXCEPT ![t] = Nil]
      PROVE  [Next]_vars /\ IInv' /\ FrontInv'
  <2>1. [Next]_vars /\ IInv'
    BY <1>3, GrowFailsStep DEF Next
  <2>2. UNCHANGED <<slab, live>>
    BY <1>3 DEF GrowFails
  <2>3. BlocksOwned' /\ PagesOwned'
    BY <1>1, <2>2, OwnersKept
  <2>4. Growing' /\ call' \in [Threads -> Calls \cup {Nil}]
    <3>1. /\ call' \in [Threads -> Calls \cup {Nil}] /\ pc'[t] = "idle"
          /\ \A u \in Threads \ {t} : pc'[u] = pc[u] /\ call'[u] = call[u] /\ req'[u] = req[u]
      BY <1>3 DEF GrowFails, IInv, TypeOK, FrontInv, FrontTypeOK
    <3> QED
      BY <3>1 DEF FrontInv, Growing
  <2>5. FrontTypeOK' /\ FewOwners'
    BY <1>1, <2>1, <2>4 DEF FrontInv, FrontTypeOK, FewOwners, IInv
  <2> QED
    BY <2>1, <2>3, <2>4, <2>5 DEF FrontInv
<1> QED
  BY <1>2, <1>3 DEF GetPage

(* The new page serves the call it was got for.                             *)
LEMMA UseFreshStep ==
    ASSUME IInv, FrontInv, NEW t \in Threads, UseFresh(t)
    PROVE  [Next]_vars /\ IInv' /\ FrontInv'
<1>1. /\ AllocFresh(t) /\ call' = [call EXCEPT ![t] = Nil]
      /\ UNCHANGED <<big, arg, deferred, reader>>
  BY DEF UseFresh
<1>2. [Next]_vars /\ IInv'
  BY <1>1, AllocFreshStep DEF Next
<1>3. pc[t] = "fresh" /\ slab' = slab
  BY <1>1 DEF AllocFresh
<1>4. PICK c \in Calls : c = call[t] /\ FromSlob(c) /\ req[t].size = BlockSize(c)
  BY <1>3 DEF FrontInv, Growing
<1>5. PICK o : o.size = BlockSize(c) /\ live' = live \cup {o}
  BY <1>1, <1>4 DEF AllocFresh, TakeFrom
<1>6. o \in Object /\ o \notin live /\ Hand(c, o)
  BY <1>2, <1>4, <1>5 DEF IInv, TypeOK, UseFresh
<1>7. /\ BlocksOwned' /\ PagesOwned' /\ IsFiniteSet(held)' /\ held' \subseteq Held
      /\ word' \in [Pages -> [Units -> Nat \cup {Data, Junk}]]
  BY <1>1, <1>2, <1>3, <1>4, <1>5, <1>6, BlockComes
<1>8. Growing' /\ call' \in [Threads -> Calls \cup {Nil}]
  <2>1. /\ call' \in [Threads -> Calls \cup {Nil}] /\ pc'[t] = "idle"
        /\ \A u \in Threads \ {t} : pc'[u] = pc[u] /\ call'[u] = call[u] /\ req'[u] = req[u]
    BY <1>1 DEF AllocFresh, IInv, TypeOK, FrontInv, FrontTypeOK
  <2> QED
    BY <2>1 DEF FrontInv, Growing
<1>9. FrontTypeOK' /\ FewOwners'
  BY <1>1, <1>2, <1>7, <1>8 DEF FrontInv, FrontTypeOK, FewOwners, IInv
<1> QED
  BY <1>2, <1>7, <1>8, <1>9 DEF FrontInv

(* A page handed out whole goes back.                                       *)
LEMMA WholePageBack ==
    ASSUME IInv, FrontInv, NEW h \in held, h \notin SlobHeld,
           held' = held \ {h}, FreePages(h.page),
           UNCHANGED <<word, call, deferred, reader>>
    PROVE  [Next]_vars /\ IInv' /\ FrontInv'
<1>1. big' = big \ {h.page} /\ UNCHANGED <<arg, heap>>
  BY DEF FreePages
<1>2. [Next]_vars /\ IInv' /\ UNCHANGED <<slab, live, pc, req>>
  BY <1>1, NextIInv DEF heap, vars
<1>3. SlobHeld' = SlobHeld /\ held' \ SlobHeld' = (held \ SlobHeld) \ {h}
  BY DEF SlobHeld
<1>4. \A d : DeferredBlock(d)' = DeferredBlock(d)
  BY DEF DeferredBlock, Start, Footer
<1>5. HeldSound' /\ DeferredSound' /\ FreeingSound' /\ AtMostOneOwner'
  BY <1>1, <1>2, <1>3, <1>4
     DEF FrontInv, BlocksOwned, HeldSound, DeferredSound, FreeingSound, AtMostOneOwner
<1>6. \A o \in live : Owned(o)'
  BY <1>1, <1>3, <1>4 DEF FrontInv, BlocksOwned, Owned
<1>7. PagesOwned'
  BY <1>1, <1>2, <1>3 DEF FrontInv, PagesOwned
<1>8. Growing'
  BY <1>2 DEF FrontInv, Growing
<1>9. FewOwners' /\ FrontTypeOK'
  BY <1>1, <1>2, FS_RemoveElement DEF FrontInv, FewOwners, FrontTypeOK, IInv
<1> QED
  BY <1>2, <1>5, <1>6, <1>7, <1>8, <1>9 DEF FrontInv, BlocksOwned

(* A block goes from its owner to a context that will call slob_free.        *)
LEMMA BlockBack ==
    ASSUME IInv, FrontInv, NEW t \in Threads, arg[t] = Nil, NEW h \in SlobHeld,
           held' = held \ {h},
           WillFree(t, BlockOf(h).page, BlockOf(h).at, BlockOf(h).size),
           UNCHANGED <<word, call, deferred, reader>>
    PROVE  [Next]_vars /\ IInv' /\ FrontInv'
<1>1. BlockOf(h) \in live /\ BlockOf(h) \in Object
  BY HeldBlock DEF IInv, TypeOK
<1>2. arg' = [arg EXCEPT ![t] = BlockOf(h)] /\ UNCHANGED <<big, heap>>
  BY DEF WillFree, BlockOf
<1>3. [Next]_vars /\ IInv' /\ UNCHANGED <<slab, live, pc, req>>
  BY <1>2, NextIInv DEF heap, vars
<1>4. BlocksOwned'
  BY <1>2, <1>3, BlockGivenBack
<1>5. PagesOwned'
  BY <1>2, <1>3 DEF FrontInv, PagesOwned, SlobHeld
<1>6. Growing'
  BY <1>3 DEF FrontInv, Growing
<1>7. FewOwners'
  BY <1>2, FreeingFinite, FS_RemoveElement DEF FrontInv, FewOwners
<1>8. FrontTypeOK'
  BY <1>1, <1>2, <1>3 DEF FrontInv, FrontTypeOK, IInv
<1> QED
  BY <1>3, <1>4, <1>5, <1>6, <1>7, <1>8 DEF FrontInv

(* PageSlab tells blocks of the allocator from whole pages.                 *)
LEMMA PageSlabTells ==
    ASSUME IInv, FrontInv, NEW h \in held
    PROVE  h.page \in slab <=> h \in SlobHeld
<1>1. CASE h \in SlobHeld
  <2>1. BlockOf(h) \in live /\ BlockOf(h).page = h.page
    BY <1>1, HeldBlock
  <2> QED
    BY <1>1, <2>1 DEF IInv, PagesSound, ObjectsApart, InUse
<1>2. CASE h \notin SlobHeld
  BY <1>2 DEF FrontInv, PagesOwned
<1> QED
  BY <1>1, <1>2

(* kfree finds the block from the size in front of the object.              *)
LEMMA KfreeStep ==
    ASSUME IInv, FrontInv, NEW t \in Threads, NEW h \in held, Kfree(t, h)
    PROVE  [Next]_vars /\ IInv' /\ FrontInv'
<1>1. /\ arg[t] = Nil /\ h.call.kind = "kmalloc" /\ held' = held \ {h}
      /\ UNCHANGED <<word, call, deferred, reader>>
  BY DEF Kfree, Ready
<1>2. CASE h.page \in slab
  <2>1. h \in SlobHeld
    BY <1>2, PageSlabTells
  <2>2. Offset(h.call) = SLOB_UNITS(MinAlign) /\ BlockSize(h.call) = h.call.size + MinAlign
    BY <1>1 DEF Offset, BlockSize
  <2>3. word[h.page][h.at - SLOB_UNITS(MinAlign)] + MinAlign = BlockOf(h).size
    BY <1>1, <2>1, <2>2, HeldBlock
  <2>4. BlockOf(h).page = h.page /\ BlockOf(h).at = h.at - SLOB_UNITS(MinAlign)
    BY <2>1, <2>2, HeldBlock
  <2>5. WillFree(t, BlockOf(h).page, BlockOf(h).at, BlockOf(h).size)
    BY <1>2, <2>3, <2>4 DEF Kfree
  <2> QED
    BY <1>1, <2>1, <2>5, BlockBack
<1>3. CASE h.page \notin slab
  <2>1. h \notin SlobHeld /\ FreePages(h.page)
    BY <1>3, PageSlabTells DEF Kfree
  <2> QED
    BY <1>1, <2>1, WholePageBack
<1> QED
  BY <1>2, <1>3

(* A free to a cache: at once, or after a grace period.                     *)
LEMMA KmemCacheFreeStep ==
    ASSUME IInv, FrontInv, NEW t \in Threads, NEW h \in held, KmemCacheFree(t, h)
    PROVE  [Next]_vars /\ IInv' /\ FrontInv'
<1>1. /\ arg[t] = Nil /\ h.call.kind = "cache" /\ held' = held \ {h}
      /\ UNCHANGED <<call, reader>> /\ h.call \in Calls
  BY DEF KmemCacheFree, Ready, FrontInv, FrontTypeOK, Held
<1>2. BlockSize(h.call) = CacheSize(h.call) /\ Offset(h.call) = 0
  BY <1>1 DEF BlockSize, Offset
<1>3. CASE h.call.rcu
  <2>1. h \in SlobHeld
    BY <1>1, <1>3, CallFacts DEF SlobHeld
  <2>2. PICK foot : foot = h.at + SLOB_UNITS(CacheSize(h.call) - RcuSize)
    OBVIOUS
  <2>3. PICK waits : waits = {r \in Readers : reader[r] # Outside}
    OBVIOUS
  <2>4. /\ word' = [word EXCEPT ![h.page][foot] = CacheSize(h.call)]
        /\ deferred' = deferred \cup {[page |-> h.page, foot |-> foot, waits |-> waits]}
        /\ UNCHANGED <<heap, big, arg>>
    BY <1>3, <2>2, <2>3 DEF KmemCacheFree
  <2>5. [Next]_vars /\ IInv' /\ UNCHANGED <<slab, live, pc, req>>
    BY <2>4, NextIInv DEF heap, vars
  <2>6. /\ BlocksOwned' /\ IsFiniteSet(deferred)' /\ deferred' \subseteq Pending
        /\ word' \in [Pages -> [Units -> Nat \cup {Data, Junk}]]
    <3>1. waits \in SUBSET Readers
      BY <2>3
    <3> QED
      BY <3>1, <1>1, <1>3, <2>1, <2>2, <2>4, <2>5, BlockDeferred
  <2>7. PagesOwned' /\ Growing'
    BY <1>1, <2>1, <2>4, <2>5 DEF FrontInv, PagesOwned, SlobHeld, Growing
  <2>8. FrontTypeOK' /\ FewOwners'
    BY <1>1, <2>4, <2>5, <2>6, FS_RemoveElement
       DEF FrontInv, FrontTypeOK, FewOwners, IInv
  <2> QED
    BY <2>5, <2>6, <2>7, <2>8 DEF FrontInv
<1>4. CASE ~h.call.rcu
  <2>1. InnerFree(t, h.page, h.at, CacheSize(h.call)) /\ UNCHANGED <<word, deferred>>
    BY <1>4 DEF KmemCacheFree
  <2>2. CASE FromSlob(h.call)
    <3>1. h \in SlobHeld
      BY <2>2 DEF SlobHeld
    <3>2. /\ BlockOf(h).page = h.page /\ BlockOf(h).at = h.at - Offset(h.call)
          /\ BlockOf(h).size = CacheSize(h.call) /\ h.at \in Nat
      BY <3>1, <1>2, HeldBlock DEF Units
    <3>3. BlockOf(h).at = h.at
      BY <1>2, <3>2
    <3>4. WillFree(t, BlockOf(h).page, BlockOf(h).at, BlockOf(h).size)
      BY <1>2, <2>1, <2>2, <3>2, <3>3 DEF InnerFree, FromSlob
    <3> QED
      BY <1>1, <2>1, <3>1, <3>4, BlockBack
  <2>3. CASE ~FromSlob(h.call)
    <3>1. h \notin SlobHeld /\ FreePages(h.page)
      BY <1>2, <2>1, <2>3 DEF InnerFree, FromSlob, SlobHeld
    <3> QED
      BY <1>1, <2>1, <3>1, WholePageBack
  <2> QED
    BY <2>2, <2>3
<1> QED
  BY <1>3, <1>4

(* The callback finds the block from its footer.                            *)
LEMMA KmemRcuFreeStep ==
    ASSUME IInv, FrontInv, NEW d \in deferred, KmemRcuFree(d)
    PROVE  [Next]_vars /\ IInv' /\ FrontInv'
<1>1. /\ deferred' = deferred \ {d} /\ arg[Softirq] = Nil /\ Softirq \in Threads
      /\ InnerFree(Softirq, d.page, Start(d), Footer(d))
      /\ UNCHANGED <<word, held, call, reader>>
  BY ContextsAssumption DEF KmemRcuFree, Ready
<1>2. /\ DeferredBlock(d) = [page |-> d.page, at |-> Start(d), size |-> Footer(d)]
      /\ DeferredBlock(d) \in live /\ DeferredBlock(d) \in Object
      /\ DeferredBlock(d).size < PAGE_SIZE
  BY DEF DeferredBlock, FrontInv, BlocksOwned, DeferredSound, IInv, TypeOK
<1>3. Footer(d) < PAGE_SIZE
  BY <1>2
<1>4. arg' = [arg EXCEPT ![Softirq] = DeferredBlock(d)] /\ UNCHANGED <<big, heap>>
  BY <1>1, <1>2, <1>3 DEF InnerFree, WillFree
<1>5. [Next]_vars /\ IInv' /\ UNCHANGED <<slab, live, pc, req>>
  BY <1>4, NextIInv DEF heap, vars
<1>6. BlocksOwned'
  BY <1>1, <1>4, <1>5, DeferredGivenBack
<1>7. PagesOwned' /\ Growing'
  BY <1>1, <1>4, <1>5 DEF FrontInv, PagesOwned, SlobHeld, Growing
<1>8. FewOwners'
  BY <1>1, <1>4, FreeingFinite, FS_RemoveElement DEF FrontInv, FewOwners
<1>9. FrontTypeOK'
  BY <1>1, <1>2, <1>4, <1>5 DEF FrontInv, FrontTypeOK, IInv
<1> QED
  BY <1>5, <1>6, <1>7, <1>8, <1>9 DEF FrontInv

(* slob_free gets the lock.                                                 *)
LEMMA SlobFreeStep ==
    ASSUME IInv, FrontInv, NEW t \in Threads, SlobFree(t)
    PROVE  [Next]_vars /\ IInv' /\ FrontInv'
<1>1. PICK o \in live : o = arg[t]
  BY DEF SlobFree
<1>2. /\ FreeLast(t, o) \/ FreeOnFull(t, o) \/ FreeOnPartial(t, o)
      /\ Fill(o.page, SpanOf(o), Junk) /\ arg' = [arg EXCEPT ![t] = Nil]
      /\ UNCHANGED <<big, held, call, deferred, reader>>
  BY <1>1 DEF SlobFree
<1>3. [Next]_vars /\ IInv'
  BY <1>2, FreeLastStep, FreeOnFullStep, FreeOnPartialStep DEF Next
<1>4. /\ live' = live \ {o} /\ slab' = slab /\ req' = req
      /\ \A u \in Threads : pc'[u] \in {"grow", "fresh"} => pc[u] = pc'[u]
  BY <1>2 DEF FreeLast, FreeOnFull, FreeOnPartial, IInv, TypeOK
<1>5. OnlyWordsOf(o) /\ word' \in [Pages -> [Units -> Nat \cup {Data, Junk}]]
  BY <1>2 DEF OnlyWordsOf, Fill, FrontInv, FrontTypeOK
<1>6. BlocksOwned'
  BY <1>1, <1>2, <1>4, <1>5, BlockGoes
<1>7. PagesOwned' /\ Growing'
  BY <1>2, <1>4 DEF FrontInv, PagesOwned, SlobHeld, Growing
<1>8. FewOwners'
  BY <1>2, FreeingFinite DEF FrontInv, FewOwners
<1>9. FrontTypeOK'
  BY <1>2, <1>3, <1>5 DEF FrontInv, FrontTypeOK, IInv
<1> QED
  BY <1>3, <1>6, <1>7, <1>8, <1>9 DEF FrontInv

(* An empty page leaves the heap.                                           *)
LEMMA GivePageStep ==
    ASSUME IInv, FrontInv, NEW t \in Threads, GivePage(t)
    PROVE  [Next]_vars /\ IInv' /\ FrontInv'
<1>1. PutPage(t) /\ UNCHANGED <<big, word, held, call, arg, deferred, reader>>
  BY DEF GivePage, front
<1>2. [Next]_vars /\ IInv'
  BY <1>1, PutPageStep DEF Next
<1>3. /\ slab' \subseteq slab /\ UNCHANGED <<live, req>>
      /\ \A u \in Threads : pc'[u] \in {"grow", "fresh"} => pc[u] = pc'[u]
  BY <1>1 DEF PutPage, IInv, TypeOK
<1>4. BlocksOwned'
  BY <1>1, <1>3, OwnersKept
<1>5. PagesOwned' /\ Growing'
  BY <1>1, <1>3 DEF FrontInv, PagesOwned, SlobHeld, Growing
<1>6. FrontTypeOK' /\ FewOwners'
  BY <1>1, <1>2 DEF FrontInv, FrontTypeOK, FewOwners, IInv
<1> QED
  BY <1>2, <1>4, <1>5, <1>6 DEF FrontInv

(* Nothing but a reader moves.                                              *)
LEMMA ReaderStep ==
    ASSUME IInv, FrontInv, UNCHANGED <<heap, big, word, held, call, arg, deferred>>,
           reader' \in [Readers -> Held \cup {Nil, Outside}]
    PROVE  [Next]_vars /\ IInv' /\ FrontInv'
<1>1. [Next]_vars /\ IInv' /\ UNCHANGED <<slab, live, pc, req>>
  BY NextIInv DEF heap, vars
<1>2. BlocksOwned' /\ PagesOwned'
  BY <1>1, OwnersKept
<1>3. Growing' /\ FewOwners' /\ FrontTypeOK'
  BY <1>1 DEF FrontInv, Growing, FewOwners, FrontTypeOK, IInv
<1> QED
  BY <1>1, <1>2, <1>3 DEF FrontInv

(* A reader ends, and callbacks no longer wait for it.                      *)
LEMMA ReaderEndsStep ==
    ASSUME IInv, FrontInv, NEW r \in Readers, ReaderEnds(r)
    PROVE  [Next]_vars /\ IInv' /\ FrontInv'
<1>1. /\ reader' = [reader EXCEPT ![r] = Outside]
      /\ deferred' = {[d EXCEPT !.waits = @ \ {r}] : d \in deferred}
      /\ UNCHANGED <<heap, big, word, held, call, arg>>
  BY DEF ReaderEnds
<1>2. [Next]_vars /\ IInv' /\ UNCHANGED <<slab, live, pc, req>>
  BY <1>1, NextIInv DEF heap, vars
<1>3. BlocksOwned' /\ IsFiniteSet(deferred)' /\ deferred' \subseteq Pending
  BY <1>1, <1>2, ReadersEnd
<1>4. PagesOwned' /\ Growing'
  BY <1>1, <1>2 DEF FrontInv, PagesOwned, SlobHeld, Growing
<1>5. FewOwners' /\ FrontTypeOK'
  BY <1>1, <1>2, <1>3 DEF FrontInv, FewOwners, FrontTypeOK, IInv
<1> QED
  BY <1>2, <1>3, <1>4, <1>5 DEF FrontInv

(* A request goes to the allocator if it is less than a page with what the   *)
(* front end adds to it.                                                     *)
LEMMA KmallocStep ==
    ASSUME IInv, FrontInv, NEW t \in Threads, NEW s \in KmallocSizes, Kmalloc(t, s)
    PROVE  [Next]_vars /\ IInv' /\ FrontInv'
<1>1. PICK c \in Calls : c = KmallocOf(s)
  BY DEF Calls
<1>2. BlockSize(c) = s + MinAlign
  BY <1>1 DEF KmallocOf, BlockSize
<1>3. FromSlob(c) <=> s < PAGE_SIZE - MinAlign
  BY <1>2, KmallocAssumption, MinAlignAssumption, PageUnitsAssumption
     DEF FromSlob, PAGE_SIZE, SLOB_UNIT
<1>4. CASE FromSlob(c)
  BY <1>1, <1>3, <1>4, SlobAllocStep DEF Kmalloc
<1>5. CASE ~FromSlob(c)
  BY <1>1, <1>3, <1>5, NewPagesStep DEF Kmalloc
<1> QED
  BY <1>4, <1>5

(* An object of a cache, with its footer.                                   *)
LEMMA KmemCacheAllocStep ==
    ASSUME IInv, FrontInv, NEW t \in Threads, NEW c \in Caches, KmemCacheAlloc(t, c)
    PROVE  [Next]_vars /\ IInv' /\ FrontInv'
<1>1. c \in Calls /\ (FromSlob(c) <=> CacheSize(c) < PAGE_SIZE)
  BY CachesAssumption DEF Calls, FromSlob, BlockSize
<1>2. CASE FromSlob(c)
  BY <1>1, <1>2, SlobAllocStep DEF KmemCacheAlloc
<1>3. CASE ~FromSlob(c)
  BY <1>1, <1>3, NewPagesStep DEF KmemCacheAlloc
<1> QED
  BY <1>2, <1>3

(* Every step of the front end is one of the allocator, or none, and keeps   *)
(* the invariant.                                                            *)
LEMMA FrontNextInv ==
    IInv /\ FrontInv /\ [FrontNext]_frontVars => [Next]_vars /\ IInv' /\ FrontInv'
<1> SUFFICES ASSUME IInv, FrontInv, [FrontNext]_frontVars
             PROVE  [Next]_vars /\ IInv' /\ FrontInv'
  OBVIOUS
<1> USE ContextsAssumption
<1>1. CASE UNCHANGED frontVars
  <2>1. UNCHANGED <<heap, big, word, held, call, arg, deferred>> /\ reader' = reader
    BY <1>1 DEF frontVars, front
  <2> QED
    BY <2>1, ReaderStep DEF FrontInv, FrontTypeOK
<1>2. ASSUME NEW t \in Callers, NEW s \in KmallocSizes, Kmalloc(t, s)
      PROVE  [Next]_vars /\ IInv' /\ FrontInv'
  BY <1>2, KmallocStep
<1>3. ASSUME NEW t \in Callers, NEW c \in Caches, KmemCacheAlloc(t, c)
      PROVE  [Next]_vars /\ IInv' /\ FrontInv'
  BY <1>3, KmemCacheAllocStep
<1>4. ASSUME NEW t \in Callers, GetPage(t) \/ UseFresh(t)
      PROVE  [Next]_vars /\ IInv' /\ FrontInv'
  BY <1>4, GetPageStep, UseFreshStep
<1>5. ASSUME NEW t \in Callers, NEW h \in held, Kfree(t, h) \/ KmemCacheFree(t, h)
      PROVE  [Next]_vars /\ IInv' /\ FrontInv'
  BY <1>5, KfreeStep, KmemCacheFreeStep
<1>6. ASSUME NEW d \in deferred, KmemRcuFree(d)
      PROVE  [Next]_vars /\ IInv' /\ FrontInv'
  BY <1>6, KmemRcuFreeStep
<1>7. ASSUME NEW t \in Threads, SlobFree(t) \/ GivePage(t)
      PROVE  [Next]_vars /\ IInv' /\ FrontInv'
  BY <1>7, SlobFreeStep, GivePageStep
<1>8. ASSUME NEW r \in Readers, ReaderBegins(r)
      PROVE  [Next]_vars /\ IInv' /\ FrontInv'
  <2>1. reader' \in [Readers -> Held \cup {Nil, Outside}]
    BY <1>8 DEF ReaderBegins, FrontInv, FrontTypeOK
  <2> QED
    BY <1>8, <2>1, ReaderStep DEF ReaderBegins
<1>9. ASSUME NEW r \in Readers, NEW h \in held, ReaderFinds(r, h)
      PROVE  [Next]_vars /\ IInv' /\ FrontInv'
  <2>1. reader' \in [Readers -> Held \cup {Nil, Outside}]
    BY <1>9 DEF ReaderFinds, FrontInv, FrontTypeOK
  <2> QED
    BY <1>9, <2>1, ReaderStep DEF ReaderFinds
<1>10. ASSUME NEW r \in Readers, ReaderEnds(r)
       PROVE  [Next]_vars /\ IInv' /\ FrontInv'
  BY <1>10, ReaderEndsStep
<1> QED
  BY <1>1, <1>2, <1>3, <1>4, <1>5, <1>6, <1>7, <1>8, <1>9, <1>10 DEF FrontNext

(***************************************************************************)
(* From the invariant to Accounted.                                         *)
(***************************************************************************)

(* As many values as arguments, if no two arguments have the same value.     *)
LEMMA InjectiveImage ==
    ASSUME NEW S, IsFiniteSet(S), NEW f, NEW T, T = {f[x] : x \in S},
           DOMAIN f = S, f = [x \in S |-> f[x]], \A x, y \in S : f[x] = f[y] => x = y
    PROVE  IsFiniteSet(T) /\ Cardinality(T) = Cardinality(S)
<1>1. f \in Bijection(S, T)
  BY DEF Bijection, Injection, Surjection, IsInjective
<1> QED
  BY <1>1, FS_Bijection DEF ExistsBijection

(* Two disjoint sets add up.                                                *)
LEMMA DisjointSum ==
    ASSUME NEW S, IsFiniteSet(S), NEW T, IsFiniteSet(T), S \cap T = {}
    PROVE  IsFiniteSet(S \cup T) /\ Cardinality(S \cup T) = Cardinality(S) + Cardinality(T)
<1>1. Cardinality(S) \in Nat /\ Cardinality(T) \in Nat /\ Cardinality(S \cap T) = 0
  BY FS_CardinalityType, FS_EmptySet
<1>2. /\ IsFiniteSet(S \cup T)
      /\ Cardinality(S \cup T) = Cardinality(S) + Cardinality(T) - Cardinality(S \cap T)
  BY FS_Union, Zenon
<1> QED
  BY <1>1, <1>2

(* The owners of the invariant are the sets of Accounted, counted.          *)
LEMMA AccountedInv == FrontInv => Accounted
<1> SUFFICES ASSUME FrontInv
             PROVE  Accounted
  OBVIOUS
<1>1. PICK freeing : freeing = {t \in Threads : arg[t] # Nil}
  OBVIOUS
<1>2. IsFiniteSet(SlobHeld) /\ IsFiniteSet(held \ SlobHeld)
  BY FS_Subset DEF SlobHeld, FrontInv, FewOwners
<1>3. IsFiniteSet(freeing) /\ IsFiniteSet(deferred)
  BY <1>1 DEF FrontInv, FewOwners
<1>4. PICK A : A = {BlockOf(h) : h \in SlobHeld}
  OBVIOUS
<1>5. PICK B : B = {arg[t] : t \in freeing}
  OBVIOUS
<1>6. PICK D : D = {DeferredBlock(d) : d \in deferred}
  OBVIOUS
<1>7. IsFiniteSet(A) /\ Cardinality(A) = Cardinality(SlobHeld)
  <2>1. PICK f : f = [h \in SlobHeld |-> BlockOf(h)]
    OBVIOUS
  <2>2. A = {f[h] : h \in SlobHeld} /\ DOMAIN f = SlobHeld /\ f = [h \in SlobHeld |-> f[h]]
    BY <1>4, <2>1
  <2>3. \A g, h \in SlobHeld : f[g] = f[h] => g = h
    BY <2>1 DEF FrontInv, BlocksOwned, AtMostOneOwner
  <2> QED
    BY <1>2, <2>2, <2>3, InjectiveImage
<1>8. IsFiniteSet(B) /\ Cardinality(B) = Cardinality(freeing)
  <2>1. PICK f : f = [t \in freeing |-> arg[t]]
    OBVIOUS
  <2>2. B = {f[t] : t \in freeing} /\ DOMAIN f = freeing /\ f = [t \in freeing |-> f[t]]
    BY <1>5, <2>1
  <2>3. \A s, t \in freeing : f[s] = f[t] => s = t
    BY <1>1, <2>1 DEF FrontInv, BlocksOwned, AtMostOneOwner
  <2> QED
    BY <1>3, <2>2, <2>3, InjectiveImage
<1>9. IsFiniteSet(D) /\ Cardinality(D) = Cardinality(deferred)
  <2>1. PICK f : f = [d \in deferred |-> DeferredBlock(d)]
    OBVIOUS
  <2>2. D = {f[d] : d \in deferred} /\ DOMAIN f = deferred /\ f = [d \in deferred |-> f[d]]
    BY <1>6, <2>1
  <2>3. \A d, e \in deferred : f[d] = f[e] => d = e
    BY <2>1 DEF FrontInv, BlocksOwned, AtMostOneOwner
  <2> QED
    BY <1>3, <2>2, <2>3, InjectiveImage
<1>10. A \cap B = {} /\ (A \cup B) \cap D = {}
  BY <1>1, <1>4, <1>5, <1>6 DEF FrontInv, BlocksOwned, AtMostOneOwner
<1>11. live = (A \cup B) \cup D
  <2>1. A \subseteq live /\ B \subseteq live /\ D \subseteq live
    BY <1>1, <1>4, <1>5, <1>6
       DEF FrontInv, BlocksOwned, HeldSound, DeferredSound, FreeingSound
  <2>2. ASSUME NEW o \in live
        PROVE  o \in (A \cup B) \cup D
    <3>1. Owned(o)
      BY DEF FrontInv, BlocksOwned
    <3>2. ASSUME NEW t \in Threads, o = arg[t]
          PROVE  o \in B
      BY <1>1, <1>5, <3>2, CallsAssumption DEF FrontInv, FrontTypeOK, TypeOK
    <3> QED
      BY <1>4, <1>6, <3>1, <3>2 DEF Owned
  <2> QED
    BY <2>1, <2>2
<1>12. Cardinality(live) =
          Cardinality(SlobHeld) + Cardinality(freeing) + Cardinality(deferred)
  <2>1. IsFiniteSet(A \cup B) /\ Cardinality(A \cup B) = Cardinality(A) + Cardinality(B)
    BY <1>7, <1>8, <1>10, DisjointSum
  <2>2. Cardinality((A \cup B) \cup D) = Cardinality(A \cup B) + Cardinality(D)
    BY <1>9, <1>10, <2>1, DisjointSum
  <2> QED
    BY <1>7, <1>8, <1>9, <1>11, <2>1, <2>2
<1>13. Cardinality(big) = Cardinality(held \ SlobHeld)
  <2>1. PICK f : f = [h \in held \ SlobHeld |-> h.page]
    OBVIOUS
  <2>2. /\ big = {f[h] : h \in held \ SlobHeld} /\ DOMAIN f = held \ SlobHeld
        /\ f = [h \in held \ SlobHeld |-> f[h]]
    BY <2>1 DEF FrontInv, PagesOwned
  <2>3. \A g, h \in held \ SlobHeld : f[g] = f[h] => g = h
    BY <2>1 DEF FrontInv, PagesOwned
  <2> QED
    BY <1>2, <2>2, <2>3, InjectiveImage
<1>14. live = {BlockOf(h) : h \in SlobHeld} \cup {arg[t] : t \in freeing}
                \cup {[page |-> d.page, at |-> Start(d), size |-> Footer(d)] : d \in deferred}
  BY <1>4, <1>5, <1>6, <1>11 DEF DeferredBlock
<1> QED
  BY <1>1, <1>12, <1>13, <1>14 DEF Accounted, FrontInv, PagesOwned

(***************************************************************************)
(* What is in an object's words.                                            *)
(***************************************************************************)

\* The units an owner may use.
ObjectUnits(c) ==
    IF c.kind = "kmalloc" /\ ~FromSlob(c) THEN PageUnits ELSE SLOB_UNITS(c.size)

ObjectSpan(h) == Span(h.at, ObjectUnits(h.call))

Intact(h) == \A u \in ObjectSpan(h) : u \in Units /\ word[h.page][u] = Data

\* A reader's object is still its owner's, or waits for this reader.
FoundSound(r, h) ==
    /\ h.call.rcu /\ Intact(h)
    /\ \/ h \in held
       \/ \E d \in deferred : r \in d.waits /\ DeferredBlock(d) = BlockOf(h)

DataInv ==
    /\ \A h \in held : Intact(h)
    /\ \A r \in Readers, h \in Held \ {Nil, Outside} : reader[r] = h => FoundSound(r, h)

(* What ksize reports, in units.                                            *)
LEMMA ExtentInUnits ==
    ASSUME IInv, FrontInv, NEW h \in held
    PROVE  Extent(h) >= h.call.size /\ SLOB_UNITS(Extent(h)) = ObjectUnits(h.call)
<1>1. h.call \in Calls /\ h.call.size \in Nat /\ h.call.size <= PAGE_SIZE
  BY CallFacts, CallsAssumption DEF FrontInv, FrontTypeOK, Held
<1>2. CASE h.call.kind # "kmalloc"
  BY <1>1, <1>2 DEF Extent, ObjectUnits
<1>3. CASE h.call.kind = "kmalloc" /\ FromSlob(h.call)
  <2>1. h \in SlobHeld
    BY <1>3 DEF SlobHeld
  <2>2. h.page \in slab /\ word[h.page][h.at - SLOB_UNITS(MinAlign)] = h.call.size
    BY <1>3, <2>1, PageSlabTells, HeldBlock DEF Offset
  <2>3. Extent(h) = SLOB_UNITS(h.call.size) * SLOB_UNIT
    BY <1>3, <2>2 DEF Extent, Ksize
  <2>4. PICK n \in Nat : n = SLOB_UNITS(h.call.size) /\ 2 * n >= h.call.size
    BY <1>1 DEF SLOB_UNITS, SLOB_UNIT
  <2>5. Extent(h) = 2 * n /\ ObjectUnits(h.call) = n
    BY <1>3, <2>3, <2>4 DEF SLOB_UNIT, ObjectUnits
  <2>6. SLOB_UNITS(2 * n) = n
    BY DEF SLOB_UNITS, SLOB_UNIT
  <2> QED
    BY <2>4, <2>5, <2>6
<1>4. CASE h.call.kind = "kmalloc" /\ ~FromSlob(h.call)
  <2>1. h.page \notin slab
    BY <1>4, PageSlabTells DEF SlobHeld
  <2>2. Extent(h) = PAGE_SIZE /\ ObjectUnits(h.call) = PageUnits
    BY <1>4, <2>1 DEF Extent, Ksize, ObjectUnits
  <2>3. SLOB_UNITS(PAGE_SIZE) = PageUnits
    BY PageUnitsAssumption DEF SLOB_UNITS, SLOB_UNIT, PAGE_SIZE
  <2> QED
    BY <1>1, <2>2, <2>3
<1> QED
  BY <1>2, <1>3, <1>4

(* An object of the allocator lies in its block, in front of its footer.    *)
LEMMA ObjectInBlock ==
    ASSUME NEW h \in Held, FromSlob(h.call), h.at - Offset(h.call) \in Nat
    PROVE  /\ ObjectSpan(h) \subseteq SpanOf(BlockOf(h))
           /\ h.call.rcu => h.at + SLOB_UNITS(CacheSize(h.call) - RcuSize) \notin ObjectSpan(h)
<1>1. /\ h.call \in Calls /\ h.call.size \in Nat \ {0} /\ h.at \in Nat
      /\ h.call.kind \in {"kmalloc", "cache"}
      /\ ObjectUnits(h.call) = SLOB_UNITS(h.call.size)
  BY CallFacts DEF Held, Units, ObjectUnits
<1>2. PICK n \in Nat : n = SLOB_UNITS(h.call.size)
  BY <1>1 DEF SLOB_UNITS, SLOB_UNIT
<1>3. SpanOf(BlockOf(h)) = Span(h.at - Offset(h.call), SLOB_UNITS(BlockSize(h.call)))
  BY DEF SpanOf, BlockOf
<1>4. CASE h.call.kind = "kmalloc"
  <2>1. /\ BlockSize(h.call) = h.call.size + MinAlign
        /\ Offset(h.call) = SLOB_UNITS(MinAlign) /\ h.call.rcu = FALSE
    BY <1>1, <1>4, CallFacts DEF BlockSize, Offset
  <2>2. PICK k \in Nat : MinAlign = 2 * k
    <3>1. MinAlign \in Nat /\ MinAlign % 2 = 0
      BY MinAlignAssumption DEF SLOB_UNIT
    <3> QED
      BY <3>1, MinAlign = 2 * (MinAlign \div 2), MinAlign \div 2 \in Nat
  <2>3. SLOB_UNITS(MinAlign) = k /\ SLOB_UNITS(h.call.size + MinAlign) = n + k
    BY <1>1, <1>2, <2>2 DEF SLOB_UNITS, SLOB_UNIT
  <2>4. \A u \in Span(h.at, n) : u \in Span(h.at - k, n + k)
    BY <1>1, <1>2, <2>2 DEF Span
  <2> QED
    BY <1>1, <1>2, <1>3, <2>1, <2>3, <2>4 DEF ObjectSpan
<1>5. CASE h.call.kind = "cache"
  <2>1. BlockSize(h.call) = CacheSize(h.call) /\ Offset(h.call) = 0
    BY <1>5 DEF BlockSize, Offset
  <2>2. /\ SLOB_UNITS(CacheSize(h.call)) \in Nat /\ SLOB_UNITS(CacheSize(h.call)) >= n
        /\ h.call.rcu => SLOB_UNITS(CacheSize(h.call) - RcuSize) = n
    <3>1. CASE h.call.rcu
      <4>1. CacheSize(h.call) = h.call.size + RcuSize
        BY <3>1 DEF CacheSize
      <4>2. CacheSize(h.call) - RcuSize = h.call.size
        BY <1>1, <4>1, RcuAssumption
      <4>3. /\ SLOB_UNITS(h.call.size + RcuSize) \in Nat
            /\ SLOB_UNITS(h.call.size + RcuSize) >= n
        BY <1>1, <1>2, RcuAssumption DEF SLOB_UNITS, SLOB_UNIT
      <4>4. SLOB_UNITS(CacheSize(h.call)) \in Nat /\ SLOB_UNITS(CacheSize(h.call)) >= n
        BY <4>1, <4>3
      <4>5. SLOB_UNITS(CacheSize(h.call) - RcuSize) = n
        BY <1>2, <4>2
      <4> QED
        BY <4>4, <4>5
    <3>2. CASE ~h.call.rcu
      BY <1>2, <3>2 DEF CacheSize
    <3> QED
      BY <3>1, <3>2
  <2>3. /\ Span(h.at, n) \subseteq Span(h.at, SLOB_UNITS(CacheSize(h.call)))
        /\ h.at + n \notin Span(h.at, n)
    BY <1>1, <1>2, <2>2 DEF Span
  <2>4. h.at - 0 = h.at
    BY <1>1
  <2> QED
    BY <1>1, <1>2, <1>3, <2>1, <2>2, <2>3, <2>4 DEF ObjectSpan
<1> QED
  BY <1>1, <1>4, <1>5

\* The object and this block have no word in common.
Elsewhere(h, o) == h.page # o.page \/ \A u \in ObjectSpan(h) : u \notin SpanOf(o)

(* The block of an object that a reader found is live and nobody is freeing  *)
(* it.                                                                       *)
LEMMA FoundBlock ==
    ASSUME IInv, FrontInv, NEW r \in Readers, NEW h \in Held, FoundSound(r, h)
    PROVE  /\ h.call.rcu /\ h.call.kind = "cache" /\ FromSlob(h.call)
           /\ BlockOf(h) \in live /\ \A t \in Threads : arg[t] # BlockOf(h)
<1>1. h.call \in Calls /\ h.call.rcu
  BY DEF FoundSound, Held
<1>2. h.call.kind = "cache" /\ FromSlob(h.call)
  BY <1>1, CallFacts
<1>3. CASE h \in held
  <2>1. h \in SlobHeld
    BY <1>2, <1>3 DEF SlobHeld
  <2> QED
    BY <1>1, <1>2, <2>1 DEF FrontInv, BlocksOwned, HeldSound, AtMostOneOwner
<1>4. CASE \E d \in deferred : r \in d.waits /\ DeferredBlock(d) = BlockOf(h)
  BY <1>1, <1>2, <1>4 DEF FrontInv, BlocksOwned, DeferredSound, AtMostOneOwner
<1> QED
  BY <1>3, <1>4 DEF FoundSound

\* Writes to this block reach no object that has an owner or a reader.
ReachesNobody(o) ==
    /\ o.page \notin big
    /\ \A g \in Held :
          /\ FromSlob(g.call) /\ (g \in held \/ g.call.rcu)
          /\ BlockOf(g) \in live /\ \A t \in Threads : arg[t] # BlockOf(g)
          => Elsewhere(g, o)

(* An object keeps what its owner wrote when others write elsewhere.        *)
LEMMA IntactKept ==
    ASSUME NEW h \in Held, NEW o, OnlyWordsOf(o), Elsewhere(h, o), Intact(h)
    PROVE  Intact(h)'
<1>1. h.page \in Pages
  BY DEF Held
<1>2. \A u \in ObjectSpan(h) : u \in Units /\ word'[h.page][u] = word[h.page][u]
  BY <1>1 DEF OnlyWordsOf, Elsewhere, Intact
<1> QED
  BY <1>2 DEF Intact, ObjectSpan

(* So nobody's object changes when a block is written that is apart.        *)
LEMMA AllIntactKept ==
    ASSUME IInv, FrontInv, DataInv, NEW o, OnlyWordsOf(o), ReachesNobody(o)
    PROVE  /\ \A h \in held : Intact(h)'
           /\ \A r \in Readers, h \in Held \ {Nil, Outside} : reader[r] = h => Intact(h)'
<1>1. ASSUME NEW h \in held
      PROVE  Intact(h)'
  <2>1. h \in Held /\ Intact(h)
    BY DEF DataInv, FrontInv, FrontTypeOK
  <2>2. CASE h \in SlobHeld
    <3>1. FromSlob(h.call) /\ BlockOf(h) \in live /\ \A t \in Threads : arg[t] # BlockOf(h)
      BY <2>2 DEF SlobHeld, FrontInv, BlocksOwned, HeldSound, AtMostOneOwner
    <3>2. Elsewhere(h, o)
      BY <2>1, <3>1 DEF ReachesNobody
    <3> QED
      BY <2>1, <3>2, IntactKept
  <2>3. CASE h \notin SlobHeld
    <3>1. h.page # o.page
      BY <2>3 DEF ReachesNobody, FrontInv, PagesOwned
    <3> QED
      BY <2>1, <3>1, IntactKept DEF Elsewhere
  <2> QED
    BY <2>2, <2>3
<1>2. ASSUME NEW r \in Readers, NEW h \in Held \ {Nil, Outside}, reader[r] = h
      PROVE  Intact(h)'
  <2>1. FoundSound(r, h) /\ Intact(h)
    BY <1>2 DEF DataInv, FoundSound
  <2>2. Elsewhere(h, o)
    BY <2>1, FoundBlock DEF ReachesNobody
  <2> QED
    BY <2>1, <2>2, IntactKept
<1> QED
  BY <1>1, <1>2

(* A reader keeps what it found while its owner, or the callback that waits  *)
(* for the reader, does.                                                     *)
LEMMA FoundKept ==
    ASSUME IInv, FrontInv, DataInv, NEW o, OnlyWordsOf(o), ReachesNobody(o),
           UNCHANGED reader, \A h \in held : h.call.rcu => h \in held',
           \A d \in deferred : d.waits # {} =>
              d \in deferred' /\ DeferredBlock(d)' = DeferredBlock(d)
    PROVE  \A r \in Readers, h \in Held \ {Nil, Outside} :
              reader'[r] = h => FoundSound(r, h)'
<1> SUFFICES ASSUME NEW r \in Readers, NEW h \in Held \ {Nil, Outside}, reader[r] = h
             PROVE  FoundSound(r, h)'
  OBVIOUS
<1>1. FoundSound(r, h) /\ Intact(h)'
  BY AllIntactKept DEF DataInv
<1>2. CASE h \in held
  <2>1. h.call.rcu /\ h \in held'
    BY <1>1, <1>2 DEF FoundSound
  <2> QED
    BY <1>1, <2>1 DEF FoundSound
<1>3. ASSUME NEW d \in deferred, r \in d.waits, DeferredBlock(d) = BlockOf(h)
      PROVE  FoundSound(r, h)'
  <2>1. d \in deferred' /\ DeferredBlock(d)' = BlockOf(h)
    BY <1>3
  <2>2. h.call.rcu
    BY <1>1 DEF FoundSound
  <2> QED
    BY <1>1, <1>3, <2>1, <2>2 DEF FoundSound, BlockOf
<1> QED
  BY <1>1, <1>2, <1>3 DEF FoundSound

(* Nothing is written, and nobody starts or ends reading.                   *)
LEMMA DataKept ==
    ASSUME IInv, FrontInv, DataInv, UNCHANGED <<word, reader>>, held' \subseteq held,
           \A h \in held : h.call.rcu => h \in held',
           \A d \in deferred : d.waits # {} => d \in deferred'
    PROVE  DataInv'
<1>1. \A d : DeferredBlock(d)' = DeferredBlock(d)
  BY DEF DeferredBlock, Start, Footer
<1>2. \A h : Intact(h)' <=> Intact(h)
  BY DEF Intact
<1>3. ASSUME NEW r \in Readers, NEW h \in Held \ {Nil, Outside}, reader[r] = h
      PROVE  FoundSound(r, h)'
  <2>1. FoundSound(r, h)
    BY <1>3 DEF DataInv
  <2>2. CASE h \in held
    BY <1>2, <2>1, <2>2 DEF FoundSound
  <2>3. ASSUME NEW d \in deferred, r \in d.waits, DeferredBlock(d) = BlockOf(h)
        PROVE  FoundSound(r, h)'
    <3>1. d \in deferred' /\ DeferredBlock(d)' = BlockOf(h)
      BY <1>1, <2>3
    <3> QED
      BY <1>2, <2>1, <2>3, <3>1 DEF FoundSound, BlockOf
  <2> QED
    BY <2>1, <2>2, <2>3 DEF FoundSound
<1> QED
  BY <1>2, <1>3 DEF DataInv

(***************************************************************************)
(* The steps, and the words of the objects.                                 *)
(***************************************************************************)

(* A new block is apart from every object, and so is a whole page.          *)
LEMMA NewBlockApart ==
    ASSUME IInv, FrontInv, NEW o, o.page \notin big,
           \A q \in live : q.page # o.page \/ \A u \in SpanOf(q) : u \notin SpanOf(o)
    PROVE  ReachesNobody(o)
<1> SUFFICES ASSUME NEW g \in Held, FromSlob(g.call), BlockOf(g) \in live
             PROVE  Elsewhere(g, o)
  BY DEF ReachesNobody
<1>1. BlockOf(g).page = g.page /\ BlockOf(g).at = g.at - Offset(g.call) /\ BlockOf(g).at \in Nat
  BY DEF BlockOf, IInv, TypeOK, Object, Units
<1>2. ObjectSpan(g) \subseteq SpanOf(BlockOf(g))
  BY <1>1, ObjectInBlock
<1> QED
  BY <1>1, <1>2 DEF Elsewhere

(* slob_alloc hands out a block, which its owner writes.                    *)
LEMMA HandKeepsData ==
    ASSUME IInv, IInv', FrontInv, FrontInv', DataInv, NEW c \in Calls, FromSlob(c),
           NEW o \in Object, o \notin live, live' = live \cup {o}, o.size = BlockSize(c),
           Hand(c, o), UNCHANGED <<slab, big, arg, deferred, reader>>
    PROVE  DataInv'
<1>1. PICK n : n = [call |-> c, page |-> o.page, at |-> o.at + Offset(c)]
  OBVIOUS
<1>2. n \in Held /\ n.call = c /\ n.page = o.page /\ n.at = o.at + Offset(c) /\ held' = held \cup {n}
  BY <1>1 DEF Hand, FrontInv, FrontTypeOK
<1>3. o.page \in Pages /\ o.at \in Nat /\ SpanOf(o) \subseteq Units /\ o.page \in slab
  BY DEF Object, Units, IInv, PagesSound, ObjectsApart, InUse
<1>4. c.kind \in {"kmalloc", "cache"} /\ Offset(c) \in Nat /\ (c.kind = "cache" => Offset(c) = 0)
  BY CallFacts DEF Offset
<1>5. n.at - Offset(c) = o.at /\ n.at \in Nat
  BY <1>2, <1>3, <1>4
<1>6. BlockOf(n) = o
  <2>1. BlockOf(n) = [page |-> o.page, at |-> o.at, size |-> o.size]
    BY <1>2, <1>5 DEF BlockOf
  <2> QED
    BY <2>1 DEF Object
<1>7. word \in [Pages -> [Units -> Nat \cup {Data, Junk}]]
  BY DEF FrontInv, FrontTypeOK
<1>8. OnlyWordsOf(o)
  BY <1>3, <1>7 DEF Hand, OnlyWordsOf
<1>9. ReachesNobody(o)
  <2>1. \A q \in live : q.page # o.page \/ \A u \in SpanOf(q) : u \notin SpanOf(o)
    BY DEF IInv, PagesSound, ObjectsApart, ObjectsOn
  <2>2. o.page \notin big
    BY <1>3 DEF FrontInv, PagesOwned
  <2> QED
    BY <2>1, <2>2, NewBlockApart
<1>10. Intact(n)'
  <2>1. ObjectSpan(n) \subseteq SpanOf(o)
    BY <1>2, <1>3, <1>5, <1>6, ObjectInBlock
  <2>2. ASSUME NEW u \in ObjectSpan(n)
        PROVE  u \in Units /\ word'[o.page][u] = Data
    <3>1. u \in SpanOf(o) /\ u \in Units
      BY <1>3, <2>1
    <3>2. ~(c.kind = "kmalloc" /\ u = o.at)
      <4>1. ASSUME c.kind = "kmalloc"
            PROVE  u # o.at
        <5>1. Offset(c) \in Nat \ {0}
          <6>1. MinAlign \in Nat \ {0}
            BY MinAlignAssumption
          <6>2. SLOB_UNITS(MinAlign) \in Nat \ {0}
            BY <6>1 DEF SLOB_UNITS, SLOB_UNIT
          <6> QED
            BY <4>1, <6>2 DEF Offset
        <5>2. u >= n.at /\ u \in Int
          BY <1>5 DEF ObjectSpan, Span
        <5> QED
          BY <1>2, <1>3, <5>1, <5>2
      <4> QED
        BY <4>1
    <3> QED
      BY <1>3, <1>7, <3>1, <3>2 DEF Hand
  <2> QED
    BY <1>2, <2>2 DEF Intact, ObjectSpan
<1>11. \A d \in deferred : DeferredBlock(d)' = DeferredBlock(d)
  <2> SUFFICES ASSUME NEW d \in deferred
               PROVE  DeferredBlock(d)' = DeferredBlock(d)
    OBVIOUS
  <2>1. DeferredBlock(d) \in live /\ d.page = DeferredBlock(d).page
    BY DEF FrontInv, BlocksOwned, DeferredSound, DeferredBlock
  <2>2. \A u \in SpanOf(DeferredBlock(d)) : d.page # o.page \/ u \notin SpanOf(o)
    BY <2>1 DEF IInv, PagesSound, ObjectsApart, ObjectsOn
  <2> QED
    BY <1>8, <2>2, DeferredKept
<1>12. \A r \in Readers, h \in Held \ {Nil, Outside} : reader'[r] = h => FoundSound(r, h)'
  BY <1>2, <1>8, <1>9, <1>11, FoundKept
<1>13. \A h \in held' : Intact(h)'
  BY <1>2, <1>8, <1>9, <1>10, AllIntactKept
<1> QED
  BY <1>12, <1>13 DEF DataInv

(* A whole page is handed out, which its owner writes.                      *)
LEMMA NewPagesKeepsData ==
    ASSUME IInv, IInv', FrontInv, FrontInv', DataInv, NEW c \in Calls, ~FromSlob(c), NewPages(c)
    PROVE  DataInv'
<1>1. PICK p \in Buddy : /\ held' = held \cup {[call |-> c, page |-> p, at |-> 0]}
                         /\ Fill(p, Units, Data)
  BY DEF NewPages
<1>2. PICK n : n = [call |-> c, page |-> p, at |-> 0]
  OBVIOUS
<1>3. p \in Pages /\ p \notin slab /\ p \notin big /\ reader' = reader /\ deferred' = deferred
  BY DEF Buddy, NewPages
<1>4. /\ n.call = c /\ n.page = p /\ n.at = 0 /\ held' = held \cup {n}
  BY <1>1, <1>2
<1>5. PICK o : o = [page |-> p, at |-> 0, size |-> PAGE_SIZE]
  OBVIOUS
<1>6. o.page = p /\ SpanOf(o) = Units
  <2>1. SLOB_UNITS(PAGE_SIZE) = PageUnits
    BY PageUnitsAssumption DEF SLOB_UNITS, SLOB_UNIT, PAGE_SIZE
  <2>2. SpanOf(o) = Span(0, PageUnits)
    BY <1>5, <2>1 DEF SpanOf
  <2> QED
    BY <1>5, <2>2, PageUnitsAssumption DEF Span, Units
<1>7. word \in [Pages -> [Units -> Nat \cup {Data, Junk}]]
  BY DEF FrontInv, FrontTypeOK
<1>8. OnlyWordsOf(o) /\ \A u \in Units : word'[p][u] = Data
  BY <1>1, <1>3, <1>6, <1>7 DEF Fill, OnlyWordsOf
<1>9. \A q \in live : q.page # o.page
  BY <1>3, <1>6 DEF IInv, PagesSound, ObjectsApart, InUse
<1>10. ReachesNobody(o)
  BY <1>3, <1>6, <1>9, NewBlockApart
<1>11. Intact(n)'
  <2>1. ObjectUnits(c) \in 0 .. PageUnits
    <3>1. c.size \in Nat /\ c.size <= PAGE_SIZE
      BY CallFacts, CallsAssumption
    <3>2. SLOB_UNITS(c.size) \in 0 .. PageUnits
      BY <3>1, PageUnitsAssumption DEF SLOB_UNITS, SLOB_UNIT, PAGE_SIZE
    <3> QED
      BY <3>2, PageUnitsAssumption DEF ObjectUnits
  <2>2. \A u \in Span(0, ObjectUnits(c)) : u \in Units
    BY <2>1, PageUnitsAssumption DEF Span, Units
  <2> QED
    BY <1>4, <1>8, <2>2 DEF Intact, ObjectSpan
<1>12. \A d \in deferred : DeferredBlock(d)' = DeferredBlock(d)
  <2> SUFFICES ASSUME NEW d \in deferred
               PROVE  DeferredBlock(d)' = DeferredBlock(d)
    OBVIOUS
  <2>1. DeferredBlock(d) \in live /\ d.page = DeferredBlock(d).page
    BY DEF FrontInv, BlocksOwned, DeferredSound, DeferredBlock
  <2> QED
    BY <1>8, <1>9, <2>1, DeferredKept
<1>13. \A r \in Readers, h \in Held \ {Nil, Outside} : reader'[r] = h => FoundSound(r, h)'
  BY <1>3, <1>4, <1>8, <1>10, <1>12, FoundKept
<1>14. \A h \in held' : Intact(h)'
  BY <1>4, <1>8, <1>10, <1>11, AllIntactKept
<1> QED
  BY <1>13, <1>14 DEF DataInv

(* The footer is behind the object, which readers may still use.            *)
LEMMA FooterKeepsData ==
    ASSUME IInv, FrontInv, DataInv, NEW t \in Threads, NEW h \in held, h.call.rcu,
           KmemCacheFree(t, h), FrontInv'
    PROVE  DataInv'
<1>1. /\ h \in Held /\ h.call \in Calls /\ h.call.kind = "cache"
      /\ held' = held \ {h} /\ reader' = reader
  BY DEF KmemCacheFree, FrontInv, FrontTypeOK, Held
<1>2. h \in SlobHeld
  BY <1>1, CallFacts DEF SlobHeld
<1>3. PICK foot : foot = h.at + SLOB_UNITS(CacheSize(h.call) - RcuSize)
  OBVIOUS
<1>4. PICK e : e = [page |-> h.page, foot |-> foot, waits |-> {r \in Readers : reader[r] # Outside}]
  OBVIOUS
<1>5. word' = [word EXCEPT ![h.page][foot] = CacheSize(h.call)] /\ deferred' = deferred \cup {e}
  BY <1>3, <1>4 DEF KmemCacheFree
<1>6. PICK b \in live : b = BlockOf(h)
  BY <1>2, HeldBlock
<1>7. /\ h.page \in Pages /\ b.page = h.page /\ b.at = h.at - Offset(h.call)
      /\ b.at \in Nat /\ h.at \in Nat /\ SpanOf(b) \subseteq Units /\ h.page \in slab
      /\ b.size = BlockSize(h.call)
  BY <1>2, <1>6, HeldBlock DEF Units, IInv, PagesSound, ObjectsApart, InUse
<1>8. /\ CacheSize(h.call) = BlockSize(h.call) /\ b.at = h.at
      /\ foot \in SpanOf(b) /\ foot - SLOB_UNITS(CacheSize(h.call) - RcuSize) = h.at
  BY <1>1, <1>3, <1>7, FooterInside DEF SpanOf
<1>9. word \in [Pages -> [Units -> Nat \cup {Data, Junk}]]
  BY DEF FrontInv, FrontTypeOK
<1>10. DeferredBlock(e)' = BlockOf(h)
  <2>1. word'[h.page][foot] = CacheSize(h.call)
    BY <1>5, <1>7, <1>8, <1>9
  <2>2. e.page = h.page /\ e.foot = foot
    BY <1>4
  <2>3. DeferredBlock(e)' = [page |-> h.page, at |-> h.at, size |-> CacheSize(h.call)]
    BY <1>8, <2>1, <2>2 DEF DeferredBlock, Start, Footer
  <2> QED
    BY <1>7, <1>8, <2>3, <1>6 DEF BlockOf
<1>11. PICK o : o = [page |-> h.page, at |-> foot, size |-> 1]
  OBVIOUS
<1>12. o.page = h.page /\ SpanOf(o) = {foot}
  <2>1. foot \in Int
    BY <1>7, <1>8 DEF SpanOf, Span, Units
  <2>2. SLOB_UNITS(1) = 1
    BY DEF SLOB_UNITS, SLOB_UNIT
  <2>3. SpanOf(o) = Span(foot, 1)
    BY <1>11, <2>2 DEF SpanOf
  <2> QED
    BY <1>11, <2>1, <2>3 DEF Span
<1>13. OnlyWordsOf(o)
  BY <1>5, <1>7, <1>8, <1>9, <1>12 DEF OnlyWordsOf
<1>14. ReachesNobody(o)
  <2>1. h.page \notin big
    BY <1>7 DEF FrontInv, PagesOwned
  <2>2. ASSUME NEW g \in Held, FromSlob(g.call), g \in held \/ g.call.rcu, BlockOf(g) \in live
        PROVE  Elsewhere(g, o)
    <3>1. /\ BlockOf(g).page = g.page /\ BlockOf(g).at = g.at - Offset(g.call)
          /\ BlockOf(g).at \in Nat /\ BlockOf(g).size = BlockSize(g.call)
      BY <2>2 DEF BlockOf, IInv, TypeOK, Object, Units
    <3>2. /\ ObjectSpan(g) \subseteq SpanOf(BlockOf(g))
          /\ g.call.rcu => g.at + SLOB_UNITS(CacheSize(g.call) - RcuSize) \notin ObjectSpan(g)
      BY <2>2, <3>1, ObjectInBlock
    <3>3. CASE BlockOf(g) # b
      <4>1. \A u \in SpanOf(BlockOf(g)) : g.page # b.page \/ u \notin SpanOf(b)
        BY <2>2, <3>1, <3>3, ApartFrom
      <4> QED
        BY <1>7, <1>8, <1>12, <3>2, <4>1 DEF Elsewhere
    <3>4. CASE BlockOf(g) = b
      <4>1. g.call.rcu
        <5>1. CASE g \in held
          <6>1. g \in SlobHeld
            BY <2>2, <5>1 DEF SlobHeld
          <6>2. g = h
            BY <1>2, <1>6, <3>4, <6>1 DEF FrontInv, BlocksOwned, AtMostOneOwner
          <6> QED
            BY <6>2
        <5> QED
          BY <2>2, <5>1
      <4>2. g.call \in Calls /\ g.call.kind = "cache" /\ g.at \in Nat
        BY <4>1, CallFacts DEF Held, Units
      <4>3. BlockSize(g.call) = CacheSize(g.call) /\ Offset(g.call) = 0
        BY <4>2 DEF BlockSize, Offset
      <4>4. g.at = h.at /\ CacheSize(g.call) = CacheSize(h.call)
        BY <1>7, <1>8, <3>1, <3>4, <4>2, <4>3
      <4>5. foot \notin ObjectSpan(g)
        BY <1>3, <3>2, <4>1, <4>4
      <4> QED
        BY <1>12, <4>5 DEF Elsewhere
    <3> QED
      BY <3>3, <3>4
  <2> QED
    BY <1>12, <2>1, <2>2 DEF ReachesNobody
<1>15. \A d \in deferred : DeferredBlock(d)' = DeferredBlock(d)
  <2> SUFFICES ASSUME NEW d \in deferred
               PROVE  DeferredBlock(d)' = DeferredBlock(d)
    OBVIOUS
  <2>1. DeferredBlock(d) \in live /\ d.page = DeferredBlock(d).page /\ DeferredBlock(d) # b
    BY <1>2, <1>6 DEF FrontInv, BlocksOwned, DeferredSound, AtMostOneOwner, DeferredBlock
  <2>2. \A u \in SpanOf(DeferredBlock(d)) : d.page # b.page \/ u \notin SpanOf(b)
    BY <2>1, ApartFrom
  <2>3. \A u \in SpanOf(DeferredBlock(d)) : d.page # o.page \/ u \notin SpanOf(o)
    BY <1>7, <1>8, <1>12, <2>2
  <2> QED
    BY <1>13, <2>3, DeferredKept
<1>16. ASSUME NEW r \in Readers, NEW g \in Held \ {Nil, Outside}, reader'[r] = g
       PROVE  FoundSound(r, g)'
  <2>1. reader[r] = g /\ FoundSound(r, g) /\ Intact(g)'
    BY <1>1, <1>13, <1>14, <1>16, AllIntactKept DEF DataInv
  <2>2. CASE g \in held /\ g # h
    BY <1>1, <2>1, <2>2 DEF FoundSound
  <2>3. CASE g = h
    <3>1. r \in e.waits /\ e \in deferred'
      BY <1>4, <1>5, <1>16, <2>1
    <3>2. DeferredBlock(e)' = BlockOf(g)'
      BY <1>10, <2>3 DEF BlockOf
    <3> QED
      BY <2>1, <3>1, <3>2 DEF FoundSound
  <2>4. ASSUME NEW d \in deferred, r \in d.waits, DeferredBlock(d) = BlockOf(g)
        PROVE  FoundSound(r, g)'
    <3>1. d \in deferred' /\ DeferredBlock(d)' = BlockOf(g)'
      BY <1>5, <1>15, <2>4 DEF BlockOf
    <3> QED
      BY <2>1, <2>4, <3>1 DEF FoundSound
  <2> QED
    BY <2>1, <2>2, <2>3, <2>4 DEF FoundSound
<1>17. \A g \in held' : Intact(g)'
  BY <1>1, <1>13, <1>14, AllIntactKept
<1> QED
  BY <1>16, <1>17 DEF DataInv

(* The list of free blocks is written into a block without owner or reader.  *)
LEMMA SlobFreeKeepsData ==
    ASSUME IInv, FrontInv, DataInv, NEW t \in Threads, SlobFree(t)
    PROVE  DataInv'
<1>1. PICK o \in live : o = arg[t]
  BY DEF SlobFree
<1>2. /\ Fill(o.page, SpanOf(o), Junk)
      /\ UNCHANGED <<held, deferred, reader>>
  BY <1>1 DEF SlobFree
<1>3. OnlyWordsOf(o)
  BY <1>2 DEF OnlyWordsOf, Fill, FrontInv, FrontTypeOK
<1>4. ReachesNobody(o)
  <2>1. o.page \notin big
    BY DEF FrontInv, PagesOwned, IInv, PagesSound, ObjectsApart, InUse
  <2>2. ASSUME NEW g \in Held, FromSlob(g.call), BlockOf(g) \in live, BlockOf(g) # o
        PROVE  Elsewhere(g, o)
    <3>1. /\ BlockOf(g).page = g.page /\ BlockOf(g).at = g.at - Offset(g.call)
          /\ BlockOf(g).at \in Nat
      BY <2>2 DEF BlockOf, IInv, TypeOK, Object, Units
    <3>2. ObjectSpan(g) \subseteq SpanOf(BlockOf(g))
      BY <2>2, <3>1, ObjectInBlock
    <3>3. \A u \in SpanOf(BlockOf(g)) : g.page # o.page \/ u \notin SpanOf(o)
      BY <2>2, <3>1, ApartFrom
    <3> QED
      BY <3>2, <3>3 DEF Elsewhere
  <2> QED
    BY <1>1, <2>1, <2>2 DEF ReachesNobody
<1>5. \A d \in deferred : DeferredBlock(d)' = DeferredBlock(d)
  <2> SUFFICES ASSUME NEW d \in deferred
               PROVE  DeferredBlock(d)' = DeferredBlock(d)
    OBVIOUS
  <2>1. DeferredBlock(d) \in live /\ d.page = DeferredBlock(d).page /\ DeferredBlock(d) # o
    BY <1>1 DEF FrontInv, BlocksOwned, DeferredSound, AtMostOneOwner, DeferredBlock
  <2>2. \A u \in SpanOf(DeferredBlock(d)) : d.page # o.page \/ u \notin SpanOf(o)
    BY <2>1, ApartFrom
  <2> QED
    BY <1>3, <2>2, DeferredKept
<1>6. \A r \in Readers, h \in Held \ {Nil, Outside} : reader'[r] = h => FoundSound(r, h)'
  BY <1>2, <1>3, <1>4, <1>5, FoundKept
<1>7. \A h \in held' : Intact(h)'
  BY <1>2, <1>3, <1>4, AllIntactKept
<1> QED
  BY <1>6, <1>7 DEF DataInv

(* A reader starts, finds an object that an owner has, or ends.             *)
LEMMA ReadersKeepData ==
    ASSUME IInv, FrontInv, DataInv, NEW r \in Readers,
           ReaderBegins(r) \/ ReaderEnds(r) \/ \E h \in held : ReaderFinds(r, h)
    PROVE  DataInv'
<1>1. UNCHANGED <<word, held>>
  BY DEF ReaderBegins, ReaderEnds, ReaderFinds
<1>2. /\ \A d : DeferredBlock(d)' = DeferredBlock(d)
      /\ \A h : Intact(h)' <=> Intact(h)
  BY <1>1 DEF DeferredBlock, Start, Footer, Intact
<1>3. \A s \in Readers \ {r} : reader'[s] = reader[s]
  BY DEF ReaderBegins, ReaderEnds, ReaderFinds, FrontInv, FrontTypeOK
<1>4. ASSUME NEW s \in Readers \ {r}, NEW d \in deferred, s \in d.waits
      PROVE  \E e \in deferred' : s \in e.waits /\ DeferredBlock(e)' = DeferredBlock(d)
  <2>1. CASE UNCHANGED deferred
    BY <1>2, <1>4, <2>1
  <2>2. CASE ReaderEnds(r)
    <3>1. PICK e : e = [d EXCEPT !.waits = @ \ {r}]
      OBVIOUS
    <3>2. d \in Pending /\ e \in deferred'
      BY <2>2, <3>1 DEF ReaderEnds, FrontInv, FrontTypeOK
    <3>3. s \in e.waits /\ e.page = d.page /\ e.foot = d.foot
      BY <1>4, <3>1, <3>2 DEF Pending
    <3>4. DeferredBlock(e) = DeferredBlock(d)
      BY <3>3 DEF DeferredBlock, Start, Footer
    <3> QED
      BY <1>2, <3>2, <3>3, <3>4
  <2> QED
    BY <2>1, <2>2 DEF ReaderBegins, ReaderFinds
<1>5. ASSUME NEW s \in Readers \ {r}, NEW h \in Held \ {Nil, Outside}, reader'[s] = h
      PROVE  FoundSound(s, h)'
  <2>1. FoundSound(s, h)
    BY <1>3, <1>5 DEF DataInv
  <2>2. h.call.rcu /\ Intact(h)' /\ BlockOf(h)' = BlockOf(h)
    BY <1>2, <2>1 DEF FoundSound, BlockOf
  <2>3. CASE h \in held
    BY <1>1, <2>2, <2>3 DEF FoundSound
  <2>4. ASSUME NEW d \in deferred, s \in d.waits, DeferredBlock(d) = BlockOf(h)
        PROVE  FoundSound(s, h)'
    BY <1>4, <2>2, <2>4 DEF FoundSound
  <2> QED
    BY <2>1, <2>3, <2>4 DEF FoundSound
<1>6. ASSUME NEW h \in Held \ {Nil, Outside}, reader'[r] = h
      PROVE  FoundSound(r, h)'
  <2>1. h \in held /\ h.call.rcu
    BY <1>6 DEF ReaderBegins, ReaderEnds, ReaderFinds, FrontInv, FrontTypeOK
  <2> QED
    BY <1>1, <1>2, <2>1 DEF FoundSound, DataInv
<1>7. \A h \in held' : Intact(h)'
  BY <1>1, <1>2 DEF DataInv
<1> QED
  BY <1>5, <1>6, <1>7 DEF DataInv

(* slob_alloc for a call of the front end.                                  *)
LEMMA SlobAllocKeepsData ==
    ASSUME IInv, IInv', FrontInv, FrontInv', DataInv, NEW t \in Threads, NEW c \in Calls,
           FromSlob(c), SlobAlloc(t, c)
    PROVE  DataInv'
<1>1. CASE /\ AllocHit(t, BlockSize(c), c.align)
           /\ \E o \in live' \ live : Hand(c, o)
           /\ UNCHANGED <<big, call, arg, deferred, reader>>
  <2>1. PICK o : o.size = BlockSize(c) /\ live' = live \cup {o}
    BY <1>1 DEF AllocHit, TakeFrom
  <2>2. o \in Object /\ o \notin live /\ Hand(c, o) /\ slab' = slab
    BY <1>1, <2>1 DEF IInv, TypeOK, AllocHit
  <2> QED
    BY <1>1, <2>1, <2>2, HandKeepsData
<1>2. CASE UNCHANGED <<big, word, held, arg, deferred, reader>>
  BY <1>2, DataKept
<1> QED
  BY <1>1, <1>2 DEF SlobAlloc

(* The object on a new page.                                                *)
LEMMA UseFreshKeepsData ==
    ASSUME IInv, IInv', FrontInv, FrontInv', DataInv, NEW t \in Threads, UseFresh(t)
    PROVE  DataInv'
<1>1. AllocFresh(t) /\ UNCHANGED <<big, arg, deferred, reader>>
  BY DEF UseFresh
<1>2. pc[t] = "fresh" /\ slab' = slab
  BY <1>1 DEF AllocFresh
<1>3. PICK c \in Calls : c = call[t] /\ FromSlob(c) /\ req[t].size = BlockSize(c)
  BY <1>2 DEF FrontInv, Growing
<1>4. PICK o : o.size = BlockSize(c) /\ live' = live \cup {o}
  BY <1>1, <1>3 DEF AllocFresh, TakeFrom
<1>5. o \in Object /\ o \notin live /\ Hand(c, o)
  BY <1>3, <1>4 DEF IInv, TypeOK, UseFresh
<1> QED
  BY <1>1, <1>2, <1>3, <1>4, <1>5, HandKeepsData

(* A free that leaves the memory as it is.                                  *)
LEMMA FreesKeepData ==
    ASSUME IInv, FrontInv, DataInv, NEW t \in Threads, NEW h \in held,
           Kfree(t, h) \/ (KmemCacheFree(t, h) /\ ~h.call.rcu)
    PROVE  DataInv'
<1>1. h.call \in Calls
  BY DEF FrontInv, FrontTypeOK, Held
<1>2. UNCHANGED <<word, reader, deferred>> /\ held' = held \ {h} /\ ~h.call.rcu
  BY <1>1, CallFacts DEF Kfree, KmemCacheFree
<1> QED
  BY <1>2, DataKept

(* Every step keeps what owners and readers see.                            *)
LEMMA DataNext ==
    IInv /\ FrontInv /\ DataInv /\ [FrontNext]_frontVars => DataInv'
<1> SUFFICES ASSUME IInv, FrontInv, DataInv, [FrontNext]_frontVars
             PROVE  DataInv'
  OBVIOUS
<1> USE ContextsAssumption
<1>0. IInv' /\ FrontInv'
  BY FrontNextInv
<1>1. CASE UNCHANGED frontVars
  <2>1. UNCHANGED <<word, held, deferred, reader>>
    BY <1>1 DEF frontVars, front
  <2> QED
    BY <2>1, DataKept
<1>2. ASSUME NEW t \in Callers, NEW c \in Calls, SlobAlloc(t, c) /\ FromSlob(c)
      PROVE  DataInv'
  BY <1>0, <1>2, SlobAllocKeepsData
<1>3. ASSUME NEW c \in Calls, NewPages(c) /\ ~FromSlob(c)
      PROVE  DataInv'
  BY <1>0, <1>3, NewPagesKeepsData
<1>4. ASSUME NEW t \in Callers, NEW s \in KmallocSizes, Kmalloc(t, s)
      PROVE  DataInv'
  <2>1. PICK c \in Calls : c = KmallocOf(s)
    BY DEF Calls
  <2>2. BlockSize(c) = s + MinAlign
    BY <2>1 DEF KmallocOf, BlockSize
  <2>3. FromSlob(c) <=> s < PAGE_SIZE - MinAlign
    BY <2>2, KmallocAssumption, MinAlignAssumption, PageUnitsAssumption
       DEF FromSlob, PAGE_SIZE, SLOB_UNIT
  <2> QED
    BY <1>2, <1>3, <1>4, <2>1, <2>3 DEF Kmalloc
<1>5. ASSUME NEW t \in Callers, NEW c \in Caches, KmemCacheAlloc(t, c)
      PROVE  DataInv'
  <2>1. c \in Calls /\ (FromSlob(c) <=> CacheSize(c) < PAGE_SIZE)
    BY CachesAssumption DEF Calls, FromSlob, BlockSize
  <2> QED
    BY <1>2, <1>3, <1>5, <2>1 DEF KmemCacheAlloc
<1>6. ASSUME NEW t \in Callers, GetPage(t)
      PROVE  DataInv'
  BY <1>6, DataKept DEF GetPage
<1>7. ASSUME NEW t \in Callers, UseFresh(t)
      PROVE  DataInv'
  BY <1>0, <1>7, UseFreshKeepsData
<1>8. ASSUME NEW t \in Callers, NEW h \in held, Kfree(t, h) \/ KmemCacheFree(t, h)
      PROVE  DataInv'
  BY <1>0, <1>8, FreesKeepData, FooterKeepsData
<1>9. ASSUME NEW d \in deferred, KmemRcuFree(d)
      PROVE  DataInv'
  BY <1>9, DataKept DEF KmemRcuFree
<1>10. ASSUME NEW t \in Threads, SlobFree(t)
       PROVE  DataInv'
  BY <1>10, SlobFreeKeepsData
<1>11. ASSUME NEW t \in Threads, GivePage(t)
       PROVE  DataInv'
  BY <1>11, DataKept DEF GivePage, front
<1>12. ASSUME NEW r \in Readers,
              ReaderBegins(r) \/ ReaderEnds(r) \/ \E h \in held : ReaderFinds(r, h)
       PROVE  DataInv'
  BY <1>12, ReadersKeepData
<1> QED
  BY <1>1, <1>4, <1>5, <1>6, <1>7, <1>8, <1>9, <1>10, <1>11, <1>12 DEF FrontNext

(* Initially nobody has an object.                                          *)
LEMMA DataInit == FrontInit => DataInv
<1> SUFFICES ASSUME FrontInit
             PROVE  DataInv
  OBVIOUS
<1>1. held = {} /\ \A r \in Readers : reader[r] = Outside
  BY DEF FrontInit
<1> QED
  BY <1>1 DEF DataInv

(* What the invariant says of words is ObjectsIntact.                       *)
LEMMA IntactInv == IInv /\ FrontInv /\ DataInv => ObjectsIntact
<1> SUFFICES ASSUME IInv, FrontInv, DataInv
             PROVE  ObjectsIntact
  OBVIOUS
<1>1. ASSUME NEW h \in held
      PROVE  /\ Extent(h) >= h.call.size
             /\ \A u \in Span(h.at, SLOB_UNITS(Extent(h))) :
                   u \in Units /\ word[h.page][u] = Data
  <2>1. Intact(h)
    BY DEF DataInv
  <2> QED
    BY <2>1, ExtentInUnits DEF Intact, ObjectSpan
<1>2. ASSUME NEW h \in {reader[r] : r \in Readers} \ {Nil, Outside}
      PROVE  \A u \in Span(h.at, SLOB_UNITS(Extent(h))) :
                u \in Units /\ word[h.page][u] = Data
  <2>1. PICK r \in Readers : reader[r] = h
    OBVIOUS
  <2>2. h \in Held \ {Nil, Outside}
    BY <2>1 DEF FrontInv, FrontTypeOK
  <2>3. FoundSound(r, h) /\ Intact(h)
    BY <2>1, <2>2 DEF DataInv, FoundSound
  <2>4. h.call.kind = "cache"
    BY <2>2, <2>3, FoundBlock
  <2>5. Extent(h) = h.call.size /\ ObjectUnits(h.call) = SLOB_UNITS(h.call.size)
    BY <2>4 DEF Extent, ObjectUnits
  <2> QED
    BY <2>3, <2>5 DEF Intact, ObjectSpan
<1> QED
  BY <1>1, <1>2 DEF ObjectsIntact

(***************************************************************************)
(* The theorems of the front end.                                           *)
(***************************************************************************)

(* The invariant holds in every behaviour.                                  *)
LEMMA FrontInvHolds == FrontSpec => [](IInv /\ FrontInv)
  BY FrontInitInv, FrontNextInv, PTL DEF FrontSpec

(* Whatever kmalloc, kfree, the caches and RCU callbacks do to the heap is    *)
(* what the allocator proper allows, so that all that is proved of it holds   *)
(* of the front end too: a free always names a live object and its size.      *)
THEOREM FrontImplementsSlob == FrontSpec => Spec
<1>1. FrontInit => Init
  BY DEF FrontInit
<1> QED
  BY <1>1, FrontNextInv, FrontInvHolds, PTL DEF FrontSpec, Spec

(* Every variable of the front end keeps its type.                          *)
THEOREM FrontTypeCorrect == FrontSpec => []FrontTypeOK
<1>1. FrontInv => FrontTypeOK
  BY DEF FrontInv
<1> QED
  BY <1>1, FrontInvHolds, PTL

(* Every live block is one that a caller has, or that is on its way back, and *)
(* only one of these; every page handed out whole is one caller's.            *)
THEOREM AccountedCorrect == FrontSpec => []Accounted
  BY AccountedInv, FrontInvHolds, PTL

(* Nobody writes to an object while its owner has it or a reader that found  *)
(* it goes on, to none of the bytes that ksize reports.                       *)
THEOREM IntactCorrect == FrontSpec => []ObjectsIntact
<1>1. FrontSpec => [](IInv /\ FrontInv /\ DataInv)
  BY FrontInitInv, FrontNextInv, DataInit, DataNext, PTL DEF FrontSpec
<1> QED
  BY <1>1, IntactInv, PTL

(***************************************************************************)
(* Sums.  A sum over a set counts cells, f[x] of them for each x.           *)
(***************************************************************************)

\* What a sum takes next from a set.
Some(s) == CHOOSE x \in s : TRUE

\* g is a sum of f over every subset of S, an element at a time.
IsSum(g, S, f) ==
    g = [s \in SUBSET S |-> IF s = {} THEN 0 ELSE f[Some(s)] + g[s \ {Some(s)}]]

Cells(s, f) == {c \in s \X (Nat \ {0}) : c[2] <= f[c[1]]}

(* The cells of one element more.                                           *)
LEMMA CellsOfOne ==
    ASSUME NEW S, IsFiniteSet(S), NEW N \in Nat, NEW f \in [S -> 0 .. N],
           NEW s \in SUBSET S
    PROVE  /\ IsFiniteSet(Cells(s, f)) /\ Cardinality(Cells(s, f)) \in Nat
           /\ \A x \in s : Cardinality(Cells(s, f)) = f[x] + Cardinality(Cells(s \ {x}, f))
<1>1. ASSUME NEW r \in SUBSET S
      PROVE  IsFiniteSet(Cells(r, f)) /\ Cardinality(Cells(r, f)) \in Nat
  <2>1. IsFiniteSet(r) /\ IsFiniteSet(1 .. N)
    BY FS_Subset, FS_Interval
  <2>2. IsFiniteSet(r \X (1 .. N))
    BY <2>1, FS_Product
  <2>3. Cells(r, f) \subseteq r \X (1 .. N)
    <3>1. \A x \in r, k \in Nat \ {0} : k <= f[x] => k \in 1 .. N
      OBVIOUS
    <3> QED
      BY <3>1 DEF Cells
  <2> QED
    BY <2>2, <2>3, FS_Subset, FS_CardinalityType
<1>2. ASSUME NEW x \in s
      PROVE  Cardinality(Cells(s, f)) = f[x] + Cardinality(Cells(s \ {x}, f))
  <2>1. PICK A, B : A = {x} \X (1 .. f[x]) /\ B = Cells(s \ {x}, f)
    OBVIOUS
  <2>2. PICK n \in Nat : n = f[x]
    OBVIOUS
  <2>3. IsFiniteSet(1 .. n) /\ Cardinality(1 .. n) = n
    <3>1. 1 \in Int /\ n \in Int
      OBVIOUS
    <3>2. /\ IsFiniteSet(1 .. n)
          /\ Cardinality(1 .. n) = IF 1 > n THEN 0 ELSE n - 1 + 1
      BY <3>1, FS_Interval
    <3> QED
      BY <3>2
  <2>4. IsFiniteSet({x}) /\ Cardinality({x}) = 1
    BY FS_Singleton
  <2>5. IsFiniteSet(A) /\ Cardinality(A) = n
    <3>1. PICK X, Y : X = {x} /\ Y = 1 .. n
      OBVIOUS
    <3>2. IsFiniteSet(X \X Y) /\ Cardinality(X \X Y) = Cardinality(X) * Cardinality(Y)
      BY <2>3, <2>4, <3>1, FS_Product
    <3>3. Cardinality(X) = 1 /\ Cardinality(Y) = n /\ 1 * n = n
      BY <2>3, <2>4, <3>1
    <3>4. A = X \X Y
      BY <2>1, <2>2, <3>1
    <3> QED
      BY <3>2, <3>3, <3>4
  <2>6. IsFiniteSet(B) /\ Cardinality(B) \in Nat
    BY <1>1, <2>1
  <2>7. A \cap B = {} /\ Cells(s, f) = A \cup B
    <3>1. A = {c \in {x} \X (Nat \ {0}) : c[2] <= f[c[1]]}
      BY <2>1, <2>2
    <3> QED
      BY <2>1, <3>1 DEF Cells
  <2>8. Cardinality(A \cup B) = Cardinality(A) + Cardinality(B) - Cardinality(A \cap B)
    BY <2>5, <2>6, FS_Union
  <2>9. Cardinality(A \cap B) = 0
    BY <2>7, FS_EmptySet
  <2>10. Cardinality(A \cup B) = n + Cardinality(B)
    BY <2>5, <2>6, <2>8, <2>9
  <2> QED
    BY <2>1, <2>2, <2>7, <2>10
<1> QED
  BY <1>1, <1>2

(* No element, no cell.                                                     *)
LEMMA NoCells == \A f : Cells({}, f) = {} /\ Cardinality({}) = 0
  BY FS_EmptySet DEF Cells

(* A sum exists.                                                            *)
LEMMA SumExists ==
    ASSUME NEW S, IsFiniteSet(S), NEW N \in Nat, NEW f \in [S -> 0 .. N]
    PROVE  \E g : IsSum(g, S, f)
<1>1. PICK g : g = [s \in SUBSET S |-> Cardinality(Cells(s, f))]
  OBVIOUS
<1>2. ASSUME NEW s \in SUBSET S
      PROVE  Cardinality(Cells(s, f)) = IF s = {} THEN 0 ELSE f[Some(s)] + g[s \ {Some(s)}]
  <2>1. CASE s = {}
    BY <2>1, NoCells
  <2>2. CASE s # {}
    <3>1. Some(s) \in s
      BY <2>2 DEF Some
    <3>2. g[s \ {Some(s)}] = Cardinality(Cells(s \ {Some(s)}, f))
      BY <1>1
    <3> QED
      BY <2>2, <3>1, <3>2, CellsOfOne
  <2> QED
    BY <2>1, <2>2
<1>3. IsSum(g, S, f)
  BY <1>1, <1>2 DEF IsSum
<1> QED
  BY <1>3

(* Whatever the order in which it is taken, a sum counts the cells.          *)
LEMMA SumCounts ==
    ASSUME NEW S, IsFiniteSet(S), NEW N \in Nat, NEW f \in [S -> 0 .. N],
           NEW g, IsSum(g, S, f)
    PROVE  g[S] = Cardinality(Cells(S, f))
<1> SUFFICES ASSUME g[S] # Cardinality(Cells(S, f))
             PROVE  FALSE
  OBVIOUS
<1> DEFINE Wrong == {s \in SUBSET S : g[s] # Cardinality(Cells(s, f))}
           Bad == {k \in Nat : \E s \in Wrong : Cardinality(s) = k}
<1>1. \A s \in SUBSET S : IsFiniteSet(s) /\ Cardinality(s) \in Nat
  BY FS_Subset, FS_CardinalityType
<1>2. PICK k \in Bad : \A j \in Bad : k <= j
  <2>1. S \in Wrong
    OBVIOUS
  <2> HIDE DEF Wrong
  <2>2. Cardinality(S) \in Bad
    BY <1>1, <2>1
  <2>3. Bad \in SUBSET Nat
    OBVIOUS
  <2> HIDE DEF Bad
  <2> QED
    BY <2>2, <2>3, LeastOf
<1>3. PICK s \in SUBSET S : g[s] # Cardinality(Cells(s, f)) /\ Cardinality(s) = k
  OBVIOUS
<1>4. g[s] = IF s = {} THEN 0 ELSE f[Some(s)] + g[s \ {Some(s)}]
  BY DEF IsSum
<1>5. s # {}
  BY <1>3, <1>4, NoCells
<1>6. PICK x \in s : x = Some(s)
  BY <1>5 DEF Some
<1>7. Cardinality(s \ {x}) = k - 1 /\ k - 1 \in Nat /\ s \ {x} \in SUBSET S
  BY <1>1, <1>3, FS_RemoveElement
<1>8. g[s \ {x}] = Cardinality(Cells(s \ {x}, f))
  <2>1. k - 1 \notin Bad
    BY <1>2, <1>7
  <2> QED
    BY <1>7, <2>1
<1> QED
  BY <1>3, <1>4, <1>5, <1>6, <1>8, CellsOfOne

(***************************************************************************)
(* The statistics.                                                         *)
(***************************************************************************)

(* sp->units, summed over the lists, is the free units that are left on the   *)
(* pages at rest, and the lists are the pages with any; as each of these has  *)
(* an object, the sum is less than what they hold in all.                    *)
LEMMA StatisticsInv == IInv => StatisticsAgree
<1> SUFFICES ASSUME IInv
             PROVE  StatisticsAgree
  OBVIOUS
<1>1. PICK rest : rest = {p \in Pages : InUse(p)}
  OBVIOUS
<1>2. PICK left : left = [p \in rest |-> Cardinality(Units \ Occupied(p))]
  OBVIOUS
<1>3. /\ OnLists \subseteq rest /\ rest \subseteq Pages
      /\ IsFiniteSet(OnLists) /\ IsFiniteSet(rest) /\ Cardinality(OnLists) \in Nat
      /\ \A p \in rest : p \in OnLists <=> units[p] > 0
  <2>1. OnLists = {p \in Pages : Listed(p)}
    BY DEF OnLists
  <2>2. OnLists \subseteq rest /\ rest \subseteq Pages
    BY <1>1, <2>1 DEF IInv, ListsSound
  <2>3. \A p \in rest : p \in OnLists <=> units[p] > 0
    BY <1>1, <2>1 DEF IInv, ListsSound
  <2> QED
    BY <2>2, <2>3, PagesAssumption, FS_Subset, FS_CardinalityType
<1>4. \A p \in rest : left[p] = units[p] /\ units[p] \in 0 .. PageUnits
  BY <1>1, <1>2 DEF IInv, TypeOK, PagesSound, NothingLost
<1>5. PICK N \in Nat : N = PageUnits /\ N > 0
  BY PageUnitsAssumption
<1>6. PICK counts : counts = [p \in OnLists |-> units[p]]
  OBVIOUS
<1>7. counts \in [OnLists -> 0 .. N] /\ left \in [rest -> 0 .. N]
  BY <1>2, <1>3, <1>4, <1>5, <1>6
<1>8. sys_get_slob_amt_free = Cardinality(Cells(OnLists, counts))
  <2>1. \E g : IsSum(g, OnLists, counts)
    BY <1>3, <1>7, SumExists
  <2>2. \A s \in SUBSET OnLists : s # {} => counts[Some(s)] = units[Some(s)]
    BY <1>6 DEF Some
  <2>3. \A g : IsSum(g, OnLists, counts) <=> IsSum(g, OnLists, units)
    BY <2>2 DEF IsSum
  <2>4. \E g : IsSum(g, OnLists, units) /\ sys_get_slob_amt_free = g[OnLists]
    <3>1. \E g : IsSum(g, OnLists, units)
      BY <2>1, <2>3
    <3> QED
      BY <3>1 DEF IsSum, Some, sys_get_slob_amt_free, MapThenSumSet, MapThenFoldSet
  <2> QED
    BY <1>3, <1>7, <2>3, <2>4, SumCounts
<1>9. MapThenSumSet(LAMBDA p : Cardinality(Units \ Occupied(p)), rest)
         = Cardinality(Cells(rest, left))
  <2>1. \E g : IsSum(g, rest, left)
    BY <1>3, <1>7, SumExists
  <2>2. \A s \in SUBSET rest : s # {} => left[Some(s)] = Cardinality(Units \ Occupied(Some(s)))
    BY <1>2 DEF Some
  <2> DEFINE Sums(g) ==
               g = [s \in SUBSET rest |->
                      IF s = {} THEN 0
                      ELSE Cardinality(Units \ Occupied(Some(s))) + g[s \ {Some(s)}]]
  <2>3. \A g : IsSum(g, rest, left) <=> Sums(g)
    BY <2>2 DEF IsSum
  <2>4. \E g : Sums(g)
                  /\ MapThenSumSet(LAMBDA p : Cardinality(Units \ Occupied(p)), rest) = g[rest]
    <3>1. \E g : Sums(g)
      BY <2>1, <2>3
    <3> QED
      BY <3>1 DEF Some, MapThenSumSet, MapThenFoldSet
  <2> HIDE DEF Sums
  <2> QED
    BY <1>3, <1>7, <2>3, <2>4, SumCounts
<1>10. Cells(OnLists, counts) = Cells(rest, left)
  <2>1. \A p \in rest, k \in Nat \ {0} : k <= left[p] => p \in OnLists
    BY <1>3, <1>4
  <2>2. \A p \in OnLists : counts[p] = left[p]
    BY <1>3, <1>4, <1>6
  <2> QED
    BY <1>3, <2>1, <2>2 DEF Cells
<1>11. OnLists = {p \in rest : Units \ Occupied(p) # {}}
  <2>1. ASSUME NEW p \in rest
        PROVE  units[p] > 0 <=> Units \ Occupied(p) # {}
    <3>1. PICK s : s = Units \ Occupied(p)
      OBVIOUS
    <3>2. IsFiniteSet(s) /\ Cardinality(s) \in Nat
      BY <3>1, UnitsFinite, FS_Subset, FS_CardinalityType
    <3>3. units[p] = Cardinality(s)
      BY <1>2, <1>4, <3>1
    <3> QED
      BY <3>1, <3>2, <3>3, FS_EmptySet
  <2> QED
    BY <1>3, <2>1
<1>12. sys_get_slob_amt_total = N * Cardinality(OnLists)
  <2>1. SLOB_UNITS(PAGE_SIZE) = N
    BY <1>5 DEF SLOB_UNITS, PAGE_SIZE, SLOB_UNIT
  <2>2. PICK n \in Nat : n = Cardinality(OnLists)
    BY <1>3
  <2> QED
    BY <1>5, <2>1, <2>2 DEF sys_get_slob_amt_total
<1>13. ASSUME OnLists # {}
       PROVE  sys_get_slob_amt_free < sys_get_slob_amt_total
  <2>1. ASSUME NEW p \in OnLists
        PROVE  units[p] <= N - 1
    <3>1. InUse(p) /\ p \in Pages
      BY <1>1, <1>3
    <3>2. PICK o \in ObjectsOn(p) : SpanOf(o) \subseteq Units /\ o \in Object
      BY <3>1 DEF IInv, PagesSound, NoEmptyPage, ObjectsApart, ObjectsOn, TypeOK
    <3>3. PICK u \in Units : u \in Occupied(p)
      BY <3>2, ObjectSize DEF Occupied
    <3>4. free[p] \in SUBSET Units /\ u \notin free[p] /\ units[p] = Cardinality(free[p])
      BY <3>1, <3>3 DEF IInv, TypeOK, PagesSound, NothingLost
    <3>5. Cardinality(free[p]) <= N /\ (Cardinality(free[p]) = N => free[p] = Units)
      BY <1>5, <3>4, UnitsFinite, FS_Subset
    <3>6. units[p] \in Nat /\ units[p] # N
      BY <1>4, <1>3, <3>3, <3>4, <3>5
    <3> QED
      BY <1>5, <3>4, <3>5, <3>6
  <2>2. PICK n \in Nat : n = Cardinality(OnLists) /\ n > 0
    BY <1>3, <1>13, FS_EmptySet
  <2>3. Cells(OnLists, counts) \subseteq OnLists \X (1 .. N - 1)
    <3>1. \A p \in OnLists, k \in Nat \ {0} : k <= counts[p] => k \in 1 .. N - 1
      BY <1>3, <1>4, <1>5, <1>6, <2>1
    <3> QED
      BY <3>1 DEF Cells
  <2>4. IsFiniteSet(1 .. N - 1) /\ Cardinality(1 .. N - 1) = N - 1
    BY <1>5, FS_Interval
  <2>5. /\ IsFiniteSet(OnLists \X (1 .. N - 1))
        /\ Cardinality(OnLists \X (1 .. N - 1)) = n * (N - 1)
    BY <1>3, <2>2, <2>4, FS_Product
  <2>6. Cardinality(Cells(OnLists, counts)) <= n * (N - 1)
    BY <2>3, <2>5, FS_Subset
  <2>8. sys_get_slob_amt_total = n * N
    BY <1>5, <1>12, <2>2
  <2>9. n * (N - 1) < n * N
    BY <1>5, <2>2
  <2>10. sys_get_slob_amt_free \in Nat /\ n * (N - 1) \in Int /\ n * N \in Int
    BY <1>3, <1>5, <1>7, <1>8, <2>2, CellsOfOne
  <2> QED
    BY <1>8, <2>6, <2>8, <2>9, <2>10
<1>14. sys_get_slob_amt_free = MapThenSumSet(LAMBDA p : Cardinality(Units \ Occupied(p)), rest)
  BY <1>8, <1>9, <1>10
<1> QED
  BY <1>1, <1>5, <1>11, <1>12, <1>13, <1>14 DEF StatisticsAgree

(* What the statistics system calls answer from sp->units and the lists is    *)
(* what the objects leave on all pages at rest, and all the units of those    *)
(* that are not full: for any finite memory, contexts and sizes, at every     *)
(* moment at which they can be called.                                       *)
THEOREM StatisticsCorrect == FrontSpec => []StatisticsAgree
  BY StatisticsInv, FrontInvHolds, PTL
=============================================================================
