------------------------------ MODULE BrddProofs ------------------------------
(***************************************************************************)
(* Proofs that brdd has its cipher when it needs it, writes only what it     *)
(* was told to and handles every request once, and that sstf puts each new   *)
(* request where the distances say: for any disk, any cipher block size, any *)
(* finite sets of requests and bios and any width of the distances.          *)
(***************************************************************************)
EXTENDS Brdd, FiniteSetTheorems, SequenceTheorems, TLAPS

(***************************************************************************)
(* The cipher.                                                              *)
(***************************************************************************)

\* A loaded module has its cipher and that its key, and requests are handled
\* only from add_disk to del_gendisk.
ModuleInv ==
    /\ stage \in {"loaded", "removed"} => tfm = "keyed"
    /\ stage = "keying" => tfm # "null"
    /\ tfm = "unkeyed" => stage = "keying"
    /\ pc # "idle" => stage \in Live
    /\ CipherThere

(* The block layer's own steps leave the driver and the module alone, and    *)
(* happen while the request function does not run.                          *)
LEMMA OtherSteps ==
    ASSUME Submit \/ EndSectorMoves \/ SwitchElevator
    PROVE  UNCHANGED <<pc, req, buffer, disk, stage, tfm, oops>> /\ pc = "idle"
  BY DEF Submit, NewRequest, BackMerge, FrontMerge, MaySubmit, EndSectorMoves,
         SwitchElevator, driver, module

(* No step takes the cipher from a loaded module.                           *)
LEMMA ModuleStep == ModuleInv /\ [Next]_vars => ModuleInv'
<1> SUFFICES ASSUME ModuleInv, [Next]_vars
             PROVE  ModuleInv'
  OBVIOUS
<1> USE DEF ModuleInv, CipherThere, Live
<1>1. CASE Submit \/ EndSectorMoves \/ SwitchElevator
  BY <1>1, OtherSteps
<1>2. CASE StartRequests
  BY <1>2 DEF StartRequests, module
<1>3. CASE Transfer
  BY <1>3 DEF Transfer
<1>4. CASE TransferWithoutCipher
  BY <1>4 DEF TransferWithoutCipher, driver
<1>5. CASE EndBio
  BY <1>5 DEF EndBio, module
<1>6. CASE ~oops /\ AddDisk
  BY <1>6 DEF AddDisk
<1>7. CASE ~oops /\ AllocCipher
  BY <1>7 DEF AllocCipher, driver
<1>8. CASE ~oops /\ SetKey
  BY <1>8 DEF SetKey, driver
<1>9. CASE SetKeyOfError
  BY <1>9 DEF SetKeyOfError, driver
<1>10. CASE DelGendisk
  BY <1>10 DEF DelGendisk, driver
<1>11. CASE ~oops /\ FreeCipher
  BY <1>11 DEF FreeCipher, driver
<1>12. CASE UNCHANGED vars
  BY <1>12 DEF vars, driver, module
<1> QED
  BY <1>1, <1>2, <1>3, <1>4, <1>5, <1>6, <1>7, <1>8, <1>9, <1>10, <1>11, <1>12
     DEF Next, brdd_request, InitAndExit

(* And so it always has it.                                                 *)
LEMMA ModuleCorrect == Spec => []ModuleInv
<1>1. Init => ModuleInv
  BY DEF Init, ModuleInv, CipherThere
<1> QED
  BY <1>1, ModuleStep, PTL DEF Spec

(* A missing cipher is used only where brdd_init leaves a live disk without  *)
(* one, or has got none: unloading never does (brdd.c:228-241, :255-262).    *)
THEOREM CipherCorrect == Spec => []CipherThere
  BY ModuleCorrect, PTL DEF ModuleInv

(***************************************************************************)
(* Writes.                                                                  *)
(***************************************************************************)

(* The cipher blocks of a bio are blocks of the disk.                        *)
LEMMA SpanOnDisk ==
    ASSUME NEW b \in Bios, NEW i \in Span(b)
    PROVE  Offset(b) + i \in DiskBlocks /\ Offset(b) \in Nat /\ i \in Nat
<1>1. PICK n \in Nat : n = Cardinality(Sectors)
  BY DiskAssumption, FS_CardinalityType
<1>2. Sectors = 0 .. n - 1
  BY <1>1, DiskAssumption
<1>3. b.sector \in Nat /\ b.nsect \in Nat /\ b.sector + b.nsect <= n
  BY <1>1, <1>2, BiosAssumption, DiskAssumption
<1>4. PICK k \in Nat : k = BlocksPerSector
  BY BlocksAssumption
<1>5. PICK s \in Nat : s = b.sector * k
  BY <1>3, <1>4
<1>6. PICK m \in Nat : m = b.nsect * k
  BY <1>3, <1>4
<1>7. PICK d \in Nat : d = n * k
  BY <1>4
<1>8. s + m <= d
  <2>1. PICK x \in Nat : x = n - (b.sector + b.nsect)
    BY <1>3
  <2>2. n * k = b.sector * k + b.nsect * k + x * k
    BY <2>1, <1>3, <1>4
  <2>3. x * k \in Nat
    BY <2>1, <1>4
  <2> QED
    BY <2>2, <2>3, <1>5, <1>6, <1>7
<1> QED
  BY <1>1, <1>4, <1>5, <1>6, <1>7, <1>8 DEF Span, Blocks, Offset, DiskBlocks

\* What the bio at hand wrote is on the disk once it has been transferred.
Landed(b) ==
    \A i \in Span(b) : \E code \in Codes : disk[Offset(b) + i] = Encrypt(Part(b, i), code)

WriteInv ==
    /\ inflight \subseteq Bios
    /\ pc = "end" /\ Bio \in Bios /\ Bio.write => Landed(Bio)

(* A transfer puts every block of a write where it belongs.                  *)
LEMMA WrittenLands ==
    ASSUME NEW b \in Bios, NEW k, disk' = Written(b, k)
    PROVE  Landed(b)'
<1>1. ASSUME NEW c \in DiskBlocks
      PROVE  disk'[c] = IF c - Offset(b) \in Span(b)
                        THEN Encrypt(Part(b, c - Offset(b)), Code(c - Offset(b), k))
                        ELSE disk[c]
  BY DEF Written
<1>2. ASSUME NEW i \in Span(b)
      PROVE  disk'[Offset(b) + i] = Encrypt(Part(b, i), Code(i, k))
  <2>1. PICK c \in DiskBlocks : c = Offset(b) + i
    BY SpanOnDisk
  <2>2. c - Offset(b) = i
    BY <2>1, SpanOnDisk
  <2>3. disk'[c] = Encrypt(Part(b, i), Code(i, k))
    BY <2>2, <1>1
  <2> QED
    BY <2>1, <2>3
<1>3. \A i : Code(i, k) \in Codes
  BY DEF Code, Codes
<1> QED
  BY <1>2, <1>3 DEF Landed, Span, Blocks, Offset, Encrypt, Part, Codes

(* No step undoes a write that is about to be reported.                     *)
LEMMA WriteStep == ModuleInv /\ WriteInv /\ [Next]_vars => WriteInv'
<1> SUFFICES ASSUME ModuleInv, WriteInv, [Next]_vars
             PROVE  WriteInv'
  OBVIOUS
<1>1. CASE Submit \/ EndSectorMoves \/ SwitchElevator
  <2>1. pc' # "end"
    BY <1>1, OtherSteps
  <2>2. inflight' \subseteq Bios
    BY <1>1 DEF Submit, NewRequest, BackMerge, FrontMerge, EndSectorMoves,
                SwitchElevator, WriteInv
  <2> QED
    BY <2>1, <2>2 DEF WriteInv
<1>2. CASE StartRequests
  BY <1>2 DEF StartRequests, WriteInv
<1>3. CASE Transfer
  <2>1. /\ bios' = bios /\ req' = req /\ inflight' = inflight
    BY <1>3 DEF Transfer, elevator
  <2>2. PICK b : b = Bio
    OBVIOUS
  <2>3. Bio' = b
    BY <2>1, <2>2 DEF Bio
  <2>4. b \in Bios /\ b.write => Landed(b)'
    <3>1. b.write => \E k : disk' = Written(b, k)
      BY <1>3, <2>2 DEF Transfer
    <3> QED
      BY <3>1, WrittenLands
  <2> QED
    BY <2>1, <2>3, <2>4 DEF WriteInv
<1>4. CASE TransferWithoutCipher
  BY <1>4 DEF TransferWithoutCipher, driver, WriteInv
<1>5. CASE EndBio
  BY <1>5 DEF EndBio, WriteInv
<1>6. CASE AddDisk
  BY <1>6 DEF AddDisk, WriteInv, ModuleInv, Live
<1>7. CASE UNCHANGED <<elevator, inflight, driver>>
  BY <1>7 DEF elevator, driver, WriteInv, Bio, Landed
<1> QED
  BY <1>1, <1>2, <1>3, <1>4, <1>5, <1>6, <1>7
     DEF Next, brdd_request, InitAndExit, AllocCipher, SetKey, SetKeyOfError,
         DelGendisk, FreeCipher, vars

(* What a write brings to the disk is its own data, encrypted, in its own    *)
(* place, and all of it before the write is reported as done                *)
(* (brdd_transfer, brdd.c:118, and brdd_request, :156-160).                 *)
THEOREM WritesCorrect == Spec => WritesLand
<1>1. Init => WriteInv
  BY DEF Init, WriteInv
<1> DEFINE
      Touches == \A c \in DiskBlocks : disk'[c] # disk[c] =>
                    /\ Bio.write /\ c - Offset(Bio) \in Span(Bio)
                    /\ \E code \in Codes :
                          /\ disk'[c] = Encrypt(Part(Bio, c - Offset(Bio)), code)
                          /\ code = "keyed" \/ stage = "keying"
      Reports == \A b \in inflight \ inflight' : b.write =>
                    \A i \in Span(b) : \E code \in Codes :
                        disk'[Offset(b) + i] = Encrypt(Part(b, i), code)
<1>2. ModuleInv /\ WriteInv /\ [Next]_vars /\ stage # "out" => Touches /\ Reports
  <2> SUFFICES ASSUME ModuleInv, WriteInv, [Next]_vars, stage # "out"
               PROVE  Touches /\ Reports
    OBVIOUS
  <2>1. CASE Transfer
    <3>1. inflight' = inflight
      BY <2>1 DEF Transfer
    <3>2. /\ Bio.write \/ disk' = disk
          /\ Bio.write => \E k \in KeyedFrom(Bio) : disk' = Written(Bio, k)
          /\ tfm \in {"unkeyed", "keyed"}
      BY <2>1 DEF Transfer
    <3>3. ASSUME NEW c \in DiskBlocks, disk'[c] # disk[c]
          PROVE  /\ Bio.write /\ c - Offset(Bio) \in Span(Bio)
                 /\ \E code \in Codes :
                       /\ disk'[c] = Encrypt(Part(Bio, c - Offset(Bio)), code)
                       /\ code = "keyed" \/ stage = "keying"
      <4>1. Bio.write
        BY <3>2, <3>3
      <4>2. PICK k \in KeyedFrom(Bio) : disk' = Written(Bio, k)
        BY <3>2, <4>1
      <4>3. /\ c - Offset(Bio) \in Span(Bio)
            /\ disk'[c] = Encrypt(Part(Bio, c - Offset(Bio)), Code(c - Offset(Bio), k))
        BY <3>3, <4>2 DEF Written
      <4>4. Code(c - Offset(Bio), k) = "keyed" \/ stage = "keying"
        <5>1. CASE tfm = "unkeyed"
          BY <5>1 DEF ModuleInv
        <5>2. CASE tfm = "keyed"
          <6>1. k = 0
            BY <5>2 DEF KeyedFrom
          <6>2. \A i \in Span(Bio) : ~(i < k)
            BY <6>1 DEF Span
          <6> QED
            BY <4>3, <6>2 DEF Code
        <5> QED
          BY <3>2, <5>1, <5>2
      <4>5. Code(c - Offset(Bio), k) \in Codes
        BY DEF Code, Codes
      <4> QED
        BY <4>1, <4>3, <4>4, <4>5
    <3>4. Touches
      BY <3>3
    <3> QED
      BY <3>1, <3>4
  <2>2. CASE EndBio
    <3>1. disk' = disk /\ pc = "end" /\ inflight' = inflight \ {Bio}
      BY <2>2 DEF EndBio
    <3>2. ASSUME NEW b \in inflight \ inflight', b.write
          PROVE  \A i \in Span(b) : \E code \in Codes :
                    disk'[Offset(b) + i] = Encrypt(Part(b, i), code)
      BY <3>1, <3>2 DEF WriteInv, Landed
    <3> QED
      BY <3>1, <3>2
  <2>3. CASE disk' = disk /\ inflight \subseteq inflight'
    BY <2>3
  <2> QED
    BY <2>1, <2>2, <2>3
       DEF Next, Submit, NewRequest, BackMerge, FrontMerge, EndSectorMoves,
           SwitchElevator, brdd_request, StartRequests, TransferWithoutCipher,
           InitAndExit, AddDisk, AllocCipher, SetKey, SetKeyOfError, DelGendisk,
           FreeCipher, driver, vars
<1>3. Spec => []WriteInv
  BY <1>1, WriteStep, ModuleCorrect, PTL DEF Spec
<1>4. ModuleInv /\ WriteInv /\ [Next]_vars
         => [stage # "out" => Touches /\ Reports]_vars
  BY <1>2
<1> QED
  BY <1>3, <1>4, ModuleCorrect, PTL DEF Spec, WritesLand

(***************************************************************************)
(* Counting up and looking for the first.                                   *)
(***************************************************************************)

(* Among numbers there is a least one.                                      *)
LEMMA LeastOf ==
    ASSUME NEW T \in SUBSET Nat, T # {}
    PROVE  \E m \in T : \A k \in T : m <= k
<1> DEFINE Below == {ss \in Nat \X Nat : ss[1] < ss[2]}
<1>1. PICK m \in T : \A k \in T : <<k, m>> \notin Below
  <2>1. IsWellFoundedOn(Below, Nat)
    BY NatLessThanWellFounded DEF OpToRel
  <2> HIDE DEF Below
  <2> QED
    BY <2>1, WFMin
<1>2. ASSUME NEW k \in T
      PROVE  m <= k
  <2>1. ~(k < m)
    BY <1>1
  <2> QED
    BY <2>1
<1> QED
  BY <1>2

(* What holds at m and from each number to the one below it holds down to 1. *)
LEMMA DownTo ==
    ASSUME NEW m \in Nat, NEW T, m \in T,
           \A k \in 1 .. m - 1 : k + 1 \in T => k \in T
    PROVE  \A k \in 1 .. m : k \in T
<1> SUFFICES ASSUME NEW j \in 1 .. m, j \notin T
             PROVE  FALSE
  OBVIOUS
<1> DEFINE Bad == {d \in 0 .. m - 1 : m - d \notin T}
<1>1. PICK d \in Bad : \A k \in Bad : d <= k
  <2>1. m - j \in 0 .. m - 1 /\ m - (m - j) = j
    OBVIOUS
  <2>2. m - (m - j) \notin T
    BY <2>1
  <2>3. m - j \in Bad
    BY <2>1, <2>2
  <2>4. Bad \in SUBSET Nat
    OBVIOUS
  <2> HIDE DEF Bad
  <2> QED
    BY <2>3, <2>4, LeastOf
<1>2. d # 0 /\ d \in 1 .. m - 1
  OBVIOUS
<1>3. m - (d - 1) \in T
  <2>1. d - 1 \notin Bad
    BY <1>1, <1>2
  <2> QED
    BY <1>2, <2>1
<1>4. m - d \in 1 .. m - 1 /\ (m - d) + 1 = m - (d - 1)
  BY <1>2
<1>5. m - d \in T
  BY <1>3, <1>4
<1> QED
  BY <1>5

(***************************************************************************)
(* Where sstf_add_request puts a request.                                   *)
(***************************************************************************)

\* The loop stops here: the request is to go ahead of the k-th.
Halts(add, k) ==
    k > Len(queue) \/ Distance(Pos(queue[k]), EndRef(k)) >= Distance(add, EndRef(k))

\* What the loop gives, from each k on.
IsWalk(w, add) ==
    w = [k \in 1 .. Len(queue) + 1 |-> IF Halts(add, k) THEN k ELSE w[k + 1]]

(* The loop comes to an end.                                                *)
LEMMA WalkExists ==
    ASSUME NEW add, Len(queue) \in Nat
    PROVE  \E w : IsWalk(w, add)
<1> DEFINE n == Len(queue)
           From(k) == {m \in k .. n + 1 : Halts(add, m)}
           First(k) == CHOOSE m \in From(k) : \A i \in From(k) : m <= i
           w == [k \in 1 .. n + 1 |-> First(k)]
<1>1. ASSUME NEW k \in 1 .. n + 1
      PROVE  First(k) \in From(k) /\ \A i \in From(k) : First(k) <= i
  <2>1. n + 1 \in From(k)
    BY DEF Halts
  <2>2. From(k) \in SUBSET Nat /\ From(k) # {}
    BY <2>1
  <2> HIDE DEF From
  <2>3. \E m \in From(k) : \A i \in From(k) : m <= i
    BY <2>2, LeastOf
  <2> QED
    BY <2>3
<1>2. ASSUME NEW k \in 1 .. n + 1
      PROVE  First(k) = IF Halts(add, k) THEN k ELSE w[k + 1]
  <2>1. CASE Halts(add, k)
    <3>1. k \in From(k)
      BY <2>1
    <3> QED
      BY <1>1, <2>1, <3>1
  <2>2. CASE ~Halts(add, k)
    <3>1. k + 1 \in 1 .. n + 1
      BY <2>2 DEF Halts
    <3>2. From(k) = From(k + 1)
      <4>1. \A m \in k .. n + 1 : m = k \/ m \in k + 1 .. n + 1
        OBVIOUS
      <4> QED
        BY <2>2, <4>1
    <3> HIDE DEF From
    <3>3. First(k) = First(k + 1)
      BY <3>2
    <3> HIDE DEF First
    <3> QED
      BY <2>2, <3>1, <3>3
  <2> QED
    BY <2>1, <2>2
<1> HIDE DEF First
<1>3. w = [k \in 1 .. n + 1 |-> IF Halts(add, k) THEN k ELSE w[k + 1]]
  <2>1. \A k \in 1 .. n + 1 : w[k] = IF Halts(add, k) THEN k ELSE w[k + 1]
    BY <1>2
  <2>2. w = [k \in 1 .. n + 1 |-> w[k]]
    OBVIOUS
  <2> HIDE DEF w
  <2> QED
    BY <2>1, <2>2
<1> QED
  BY <1>3 DEF IsWalk

(* It stops at the first request that is no nearer than the new one, or at   *)
(* the end of the list.                                                     *)
LEMMA PlaceIsFirst ==
    ASSUME NEW add, Len(queue) \in Nat
    PROVE  /\ Place(add) \in 1 .. Len(queue) + 1
           /\ Halts(add, Place(add))
           /\ \A k \in 1 .. Place(add) - 1 : ~Halts(add, k)
<1> DEFINE n == Len(queue)
<1>1. PICK w : IsWalk(w, add) /\ Place(add) = w[1]
  <2>1. Place(add) = (CHOOSE w : IsWalk(w, add))[1]
    <3>1. ASSUME NEW w
          PROVE  IsWalk(w, add) <=>
                 w = [k \in 1 .. Len(queue) + 1 |->
                        IF k > Len(queue) THEN k
                        ELSE IF Distance(Pos(queue[k]), EndRef(k)) >= Distance(add, EndRef(k))
                        THEN k ELSE w[k + 1]]
      <4>1. \A k \in 1 .. Len(queue) + 1 :
               (IF Halts(add, k) THEN k ELSE w[k + 1])
                 = IF k > Len(queue) THEN k
                   ELSE IF Distance(Pos(queue[k]), EndRef(k)) >= Distance(add, EndRef(k))
                   THEN k ELSE w[k + 1]
        BY DEF Halts
      <4> QED
        BY <4>1 DEF IsWalk
    <3> QED
      BY <3>1 DEF Place
  <2> QED
    BY <2>1, WalkExists
<1>2. ASSUME NEW k \in 1 .. n + 1
      PROVE  w[k] = IF Halts(add, k) THEN k ELSE w[k + 1]
  BY <1>1 DEF IsWalk
<1>3. PICK m \in 1 .. n + 1 : Halts(add, m) /\ \A k \in 1 .. m - 1 : ~Halts(add, k)
  <2> DEFINE S == {k \in 1 .. n + 1 : Halts(add, k)}
  <2>1. n + 1 \in S
    BY DEF Halts
  <2>2. S \in SUBSET Nat /\ S # {}
    BY <2>1
  <2>3. PICK m \in S : \A k \in S : m <= k
    <3> HIDE DEF S
    <3> QED
      BY <2>2, LeastOf
  <2>4. ASSUME NEW k \in 1 .. m - 1
        PROVE  ~Halts(add, k)
    <3>1. k \in 1 .. n + 1 /\ ~(m <= k)
      OBVIOUS
    <3> QED
      BY <3>1, <2>3
  <2> QED
    BY <2>3, <2>4
<1> DEFINE T == {k \in 1 .. m : w[k] = m}
<1>4. \A k \in 1 .. m : k \in T
  <2>1. m \in T
    BY <1>2, <1>3
  <2>2. ASSUME NEW k \in 1 .. m - 1, k + 1 \in T
        PROVE  k \in T
    <3>1. k \in 1 .. n + 1 /\ k \in 1 .. m
      OBVIOUS
    <3>2. w[k] = w[k + 1]
      BY <3>1, <1>2, <1>3
    <3> QED
      BY <2>2, <3>1, <3>2
  <2> HIDE DEF T
  <2> QED
    BY <2>1, <2>2, DownTo
<1>5. w[1] = m
  BY <1>4
<1> QED
  BY <1>1, <1>3, <1>5

(***************************************************************************)
(* Lists and what is put into them and taken out.                           *)
(***************************************************************************)

\* A list has each of its elements once.
Once(l) == \A i, j \in 1 .. Len(l) : l[i] = l[j] => i = j

(* The domain of a list, and the set of its elements.                       *)
LEMMA ToSetOfSeq ==
    ASSUME NEW S, NEW l \in Seq(S)
    PROVE  /\ DOMAIN l = 1 .. Len(l) /\ Len(l) \in Nat
           /\ ToSet(l) = {l[i] : i \in 1 .. Len(l)}
           /\ ToSet(l) \subseteq S
<1>1. DOMAIN l = 1 .. Len(l) /\ Len(l) \in Nat /\ l \in [1 .. Len(l) -> S]
  BY LenProperties
<1> QED
  BY <1>1 DEF ToSet

\* r is l with e put in at i.
Inserted(l, i, e, r) ==
    /\ Len(r) = Len(l) + 1
    /\ \A k \in 1 .. Len(l) + 1 : r[k] = IF k < i THEN l[k] ELSE IF k = i THEN e ELSE l[k - 1]

\* r is l without its i-th element.
Removed(l, i, r) ==
    /\ Len(r) = Len(l) - 1
    /\ \A k \in 1 .. Len(l) - 1 : r[k] = IF k < i THEN l[k] ELSE l[k + 1]

(* Putting an element in moves those behind it on by one.                   *)
LEMMA InsertAtInserts ==
    ASSUME NEW S, NEW l \in Seq(S), NEW e \in S, NEW i \in 1 .. Len(l) + 1
    PROVE  InsertAt(l, i, e) \in Seq(S) /\ Inserted(l, i, e, InsertAt(l, i, e))
<1> DEFINE x == SubSeq(l, 1, i - 1)
           y == SubSeq(l, i, Len(l))
           z == <<e>>
<1>1. Len(l) \in Nat /\ i \in Nat
  BY LenProperties
<1>2. /\ x \in Seq(S) /\ Len(x) = i - 1
      /\ \A k \in 1 .. i - 1 : x[k] = l[k]
  BY <1>1, SubSeqProperties, ElementOfSeq
<1>3. /\ y \in Seq(S) /\ Len(y) = Len(l) - i + 1
      /\ \A k \in 1 .. Len(l) - i + 1 : y[k] = l[i + k - 1]
  BY <1>1, SubSeqProperties, ElementOfSeq
<1>4. z \in Seq(S) /\ Len(z) = 1 /\ z[1] = e
  OBVIOUS
<1> HIDE DEF x, y, z
<1> DEFINE xz == x \o z
<1>5. /\ xz \in Seq(S) /\ Len(xz) = i
      /\ \A k \in 1 .. i : xz[k] = IF k < i THEN l[k] ELSE e
  <2>1. /\ xz \in Seq(S) /\ Len(xz) = Len(x) + Len(z)
        /\ \A k \in 1 .. Len(x) + Len(z) :
              xz[k] = IF k <= Len(x) THEN x[k] ELSE z[k - Len(x)]
    BY <1>2, <1>4, ConcatProperties
  <2> HIDE DEF xz
  <2> QED
    BY <1>1, <1>2, <1>4, <2>1
<1> HIDE DEF xz
<1> DEFINE r == xz \o y
<1>6. /\ r \in Seq(S) /\ Len(r) = Len(xz) + Len(y)
      /\ \A k \in 1 .. Len(xz) + Len(y) :
            r[k] = IF k <= Len(xz) THEN xz[k] ELSE y[k - Len(xz)]
  BY <1>3, <1>5, ConcatProperties
<1> HIDE DEF r
<1>7. Len(r) = Len(l) + 1
  BY <1>1, <1>3, <1>5, <1>6
<1>8. ASSUME NEW k \in 1 .. Len(l) + 1
      PROVE  r[k] = IF k < i THEN l[k] ELSE IF k = i THEN e ELSE l[k - 1]
  <2>1. k \in 1 .. Len(xz) + Len(y)
    BY <1>1, <1>3, <1>5
  <2>2. CASE k <= i
    BY <2>1, <2>2, <1>5, <1>6
  <2>3. CASE k > i
    <3>1. k - i \in 1 .. Len(l) - i + 1 /\ i + (k - i) - 1 = k - 1
      BY <1>1, <2>3
    <3>2. r[k] = y[k - i]
      BY <2>1, <2>3, <1>1, <1>5, <1>6
    <3>3. y[k - i] = l[k - 1]
      BY <3>1, <1>3
    <3> QED
      BY <3>2, <3>3, <2>3, <1>1
  <2> QED
    BY <2>2, <2>3, <1>1
<1> QED
  BY <1>6, <1>7, <1>8 DEF Inserted, InsertAt, r, xz, x, y, z

(* Taking an element out moves those behind it up by one.                   *)
LEMMA RemoveAtRemoves ==
    ASSUME NEW S, NEW l \in Seq(S), NEW i \in 1 .. Len(l)
    PROVE  RemoveAt(l, i) \in Seq(S) /\ Removed(l, i, RemoveAt(l, i))
<1> DEFINE x == SubSeq(l, 1, i - 1)
           y == SubSeq(l, i + 1, Len(l))
<1>1. Len(l) \in Nat /\ i \in Nat
  BY LenProperties
<1>2. /\ x \in Seq(S) /\ Len(x) = i - 1
      /\ \A k \in 1 .. i - 1 : x[k] = l[k]
  BY <1>1, SubSeqProperties, ElementOfSeq
<1>3. /\ y \in Seq(S) /\ Len(y) = Len(l) - i
      /\ \A k \in 1 .. Len(l) - i : y[k] = l[i + k]
  BY <1>1, SubSeqProperties, ElementOfSeq
<1> HIDE DEF x, y
<1> DEFINE r == x \o y
<1>4. /\ r \in Seq(S) /\ Len(r) = Len(x) + Len(y)
      /\ \A k \in 1 .. Len(x) + Len(y) : r[k] = IF k <= Len(x) THEN x[k] ELSE y[k - Len(x)]
  BY <1>2, <1>3, ConcatProperties
<1> HIDE DEF r
<1>5. Len(r) = Len(l) - 1
  BY <1>1, <1>2, <1>3, <1>4
<1>6. ASSUME NEW k \in 1 .. Len(l) - 1
      PROVE  r[k] = IF k < i THEN l[k] ELSE l[k + 1]
  <2>1. k \in 1 .. Len(x) + Len(y)
    BY <1>1, <1>2, <1>3
  <2>2. CASE k < i
    BY <2>1, <2>2, <1>1, <1>2, <1>4
  <2>3. CASE ~(k < i)
    <3>1. k - (i - 1) \in 1 .. Len(l) - i /\ i + (k - (i - 1)) = k + 1 /\ ~(k <= i - 1)
      BY <1>1, <2>3
    <3>2. r[k] = y[k - (i - 1)]
      BY <2>1, <3>1, <1>2, <1>4
    <3>3. y[k - (i - 1)] = l[k + 1]
      BY <3>1, <1>3
    <3> QED
      BY <3>2, <3>3, <2>3
  <2> QED
    BY <2>2, <2>3
<1> QED
  BY <1>4, <1>5, <1>6 DEF Removed, RemoveAt, r, x, y

(* What is put in can be taken out again.                                   *)
LEMMA RemoveUndoesInsert ==
    ASSUME NEW S, NEW l \in Seq(S), NEW e \in S, NEW i \in 1 .. Len(l) + 1
    PROVE  RemoveAt(InsertAt(l, i, e), i) = l
<1>1. PICK m \in Seq(S) : m = InsertAt(l, i, e) /\ Inserted(l, i, e, m)
  BY InsertAtInserts
<1>2. Len(l) \in Nat /\ i \in 1 .. Len(m)
  BY <1>1, LenProperties DEF Inserted
<1>3. PICK r \in Seq(S) : r = RemoveAt(m, i) /\ Removed(m, i, r)
  BY <1>2, RemoveAtRemoves
<1>4. Len(r) = Len(l)
  BY <1>1, <1>2, <1>3 DEF Inserted, Removed
<1>5. ASSUME NEW k \in 1 .. Len(r)
      PROVE  r[k] = l[k]
  <2>1. r[k] = IF k < i THEN m[k] ELSE m[k + 1]
    BY <1>1, <1>2, <1>3, <1>4 DEF Inserted, Removed
  <2>2. k \in 1 .. Len(l) + 1 /\ k + 1 \in 1 .. Len(l) + 1 /\ (k + 1) - 1 = k
    BY <1>2, <1>4
  <2>3. CASE k < i
    BY <2>1, <2>2, <2>3, <1>1 DEF Inserted
  <2>4. CASE ~(k < i)
    <3>1. ~(k + 1 < i) /\ k + 1 # i
      BY <1>2, <2>2, <2>4
    <3> QED
      BY <2>1, <2>2, <2>4, <3>1, <1>1 DEF Inserted
  <2> QED
    BY <2>3, <2>4
<1> QED
  BY <1>1, <1>3, <1>4, <1>5, SeqEqual

(* A new element is on the list with the others, each once.                  *)
LEMMA InsertKeepsOnce ==
    ASSUME NEW S, NEW l \in Seq(S), Once(l), NEW e \in S \ ToSet(l),
           NEW i \in 1 .. Len(l) + 1, NEW r \in Seq(S), Inserted(l, i, e, r)
    PROVE  Once(r) /\ ToSet(r) = ToSet(l) \cup {e}
<1>1. /\ Len(l) \in Nat /\ i \in Nat
      /\ ToSet(l) = {l[k] : k \in 1 .. Len(l)}
      /\ ToSet(r) = {r[k] : k \in 1 .. Len(l) + 1}
      /\ Len(r) = Len(l) + 1
  BY ToSetOfSeq DEF Inserted
<1>2. ASSUME NEW k \in 1 .. Len(l) + 1
      PROVE  r[k] = IF k < i THEN l[k] ELSE IF k = i THEN e ELSE l[k - 1]
  BY DEF Inserted
<1>3. \A k \in 1 .. Len(l) : l[k] # e
  BY <1>1
<1> DEFINE o(k) == IF k < i THEN k ELSE k - 1
<1>4. ASSUME NEW k \in 1 .. Len(l) + 1, k # i
      PROVE  o(k) \in 1 .. Len(l) /\ r[k] = l[o(k)]
  <2>1. o(k) \in 1 .. Len(l)
    BY <1>1, <1>4
  <2>2. CASE k < i
    BY <2>2, <1>2
  <2>3. CASE ~(k < i)
    BY <2>3, <1>2, <1>4
  <2> QED
    BY <2>1, <2>2, <2>3
<1>5. i \in 1 .. Len(l) + 1 /\ r[i] = e
  BY <1>1, <1>2
<1>6. ASSUME NEW k \in 1 .. Len(l) + 1, NEW j \in 1 .. Len(l) + 1, r[k] = r[j]
      PROVE  k = j
  <2>1. CASE k = i \/ j = i
    BY <2>1, <1>3, <1>4, <1>5, <1>6
  <2>2. CASE k # i /\ j # i
    <3>1. o(k) = o(j)
      BY <2>2, <1>4, <1>6 DEF Once
    <3> QED
      BY <2>2, <3>1, <1>1
  <2> QED
    BY <2>1, <2>2
<1>7. \A k \in 1 .. Len(l) + 1 : r[k] \in ToSet(l) \cup {e}
  BY <1>1, <1>4, <1>5
<1> HIDE DEF o
<1>8. e \in ToSet(r)
  BY <1>1, <1>5
<1>9. ASSUME NEW j \in 1 .. Len(l)
      PROVE  l[j] \in ToSet(r)
  <2>1. CASE j < i
    BY <2>1, <1>1, <1>2
  <2>2. CASE ~(j < i)
    <3>1. j + 1 \in 1 .. Len(l) + 1 /\ ~(j + 1 < i) /\ j + 1 # i /\ (j + 1) - 1 = j
      BY <2>2, <1>1
    <3>2. r[j + 1] = l[j]
      BY <3>1, <1>2
    <3> QED
      BY <3>1, <3>2, <1>1
  <2> QED
    BY <2>1, <2>2
<1>10. Once(r)
  BY <1>1, <1>6 DEF Once
<1>11. ToSet(l) \subseteq ToSet(r)
  BY <1>1, <1>9
<1>12. ToSet(r) \subseteq ToSet(l) \cup {e}
  BY <1>1, <1>7
<1> QED
  BY <1>8, <1>10, <1>11, <1>12

(* An element that is taken off is off, and the others are still on.         *)
LEMMA RemoveKeepsOnce ==
    ASSUME NEW S, NEW l \in Seq(S), Once(l), NEW i \in 1 .. Len(l),
           NEW r \in Seq(S), Removed(l, i, r)
    PROVE  Once(r) /\ ToSet(r) = ToSet(l) \ {l[i]}
<1>1. /\ Len(l) \in Nat /\ i \in Nat
      /\ ToSet(l) = {l[k] : k \in 1 .. Len(l)}
      /\ ToSet(r) = {r[k] : k \in 1 .. Len(l) - 1}
      /\ Len(r) = Len(l) - 1
  BY ToSetOfSeq DEF Removed
<1>2. ASSUME NEW k \in 1 .. Len(l) - 1
      PROVE  r[k] = IF k < i THEN l[k] ELSE l[k + 1]
  BY DEF Removed
<1>3. Once(r)
  BY <1>1, <1>2 DEF Once
<1>4. ToSet(r) \subseteq ToSet(l) \ {l[i]}
  BY <1>1, <1>2 DEF Once
<1>5. ASSUME NEW j \in 1 .. Len(l), j # i
      PROVE  l[j] \in ToSet(r)
  <2>1. CASE j < i
    BY <2>1, <1>1, <1>2
  <2>2. CASE j > i
    <3>1. j - 1 \in 1 .. Len(l) - 1 /\ ~(j - 1 < i) /\ (j - 1) + 1 = j
      BY <2>2, <1>1
    <3>2. r[j - 1] = l[j]
      BY <3>1, <1>2
    <3> QED
      BY <3>1, <3>2, <1>1
  <2> QED
    BY <1>1, <1>5, <2>1, <2>2
<1> QED
  BY <1>1, <1>3, <1>4, <1>5

(* So is the first, when the rest of the list is left.                       *)
LEMMA TailKeepsOnce ==
    ASSUME NEW S, NEW l \in Seq(S), Once(l), l # <<>>
    PROVE  /\ Tail(l) \in Seq(S) /\ Once(Tail(l))
           /\ Head(l) \in ToSet(l) /\ ToSet(Tail(l)) = ToSet(l) \ {Head(l)}
<1>1. Len(l) \in Nat /\ Len(l) # 0 /\ Head(l) = l[1]
  BY EmptySeq
<1>2. PICK r \in Seq(S) : r = Tail(l) /\ Removed(l, 1, r)
  <2>1. PICK r \in Seq(S) : r = Tail(l)
    BY HeadTailProperties
  <2>2. Len(r) = Len(l) - 1 /\ \A k \in 1 .. Len(l) - 1 : r[k] = l[k + 1]
    BY <2>1, HeadTailProperties
  <2>3. \A k \in 1 .. Len(l) - 1 : ~(k < 1)
    BY <1>1
  <2> QED
    BY <2>1, <2>2, <2>3 DEF Removed
<1>3. 1 \in 1 .. Len(l) /\ Head(l) \in ToSet(l)
  BY <1>1, ToSetOfSeq
<1>4. Once(r) /\ ToSet(r) = ToSet(l) \ {l[1]}
  BY <1>2, <1>3, RemoveKeepsOnce
<1>5. ToSet(Tail(l)) = ToSet(l) \ {Head(l)}
  BY <1>2, <1>1, <1>4
<1> QED
  BY <1>2, <1>3, <1>4, <1>5

(* Two lists that share nothing, one after the other.                        *)
LEMMA ConcatKeepsOnce ==
    ASSUME NEW S, NEW x \in Seq(S), NEW y \in Seq(S), Once(x), Once(y),
           ToSet(x) \cap ToSet(y) = {}
    PROVE  x \o y \in Seq(S) /\ Once(x \o y) /\ ToSet(x \o y) = ToSet(x) \cup ToSet(y)
<1>1. PICK r \in Seq(S) :
         /\ r = x \o y /\ Len(r) = Len(x) + Len(y)
         /\ \A k \in 1 .. Len(x) + Len(y) : r[k] = IF k <= Len(x) THEN x[k] ELSE y[k - Len(x)]
  <2>1. PICK r \in Seq(S) : r = x \o y
    BY ConcatProperties
  <2>2. /\ Len(r) = Len(x) + Len(y)
        /\ \A k \in 1 .. Len(x) + Len(y) :
              r[k] = IF k <= Len(x) THEN x[k] ELSE y[k - Len(x)]
    BY <2>1, ConcatProperties
  <2> QED
    BY <2>1, <2>2
<1>2. /\ Len(x) \in Nat /\ ToSet(x) = {x[k] : k \in 1 .. Len(x)}
      /\ Len(y) \in Nat /\ ToSet(y) = {y[k] : k \in 1 .. Len(y)}
      /\ ToSet(r) = {r[k] : k \in 1 .. Len(x) + Len(y)}
  <2>1. ToSet(r) = {r[k] : k \in 1 .. Len(r)}
    BY ToSetOfSeq
  <2> QED
    BY <2>1, <1>1, ToSetOfSeq
<1>3. ASSUME NEW k \in 1 .. Len(x)
      PROVE  k \in 1 .. Len(x) + Len(y) /\ r[k] = x[k] /\ x[k] \in ToSet(x)
  BY <1>1, <1>2
<1>4. ASSUME NEW k \in 1 .. Len(x) + Len(y), ~(k <= Len(x))
      PROVE  /\ k - Len(x) \in 1 .. Len(y) /\ r[k] = y[k - Len(x)]
             /\ y[k - Len(x)] \in ToSet(y)
  BY <1>1, <1>2, <1>4
<1>5. ASSUME NEW k \in 1 .. Len(x) + Len(y), NEW j \in 1 .. Len(x) + Len(y), r[k] = r[j]
      PROVE  k = j
  <2>1. CASE k <= Len(x) /\ j <= Len(x)
    <3>1. k \in 1 .. Len(x) /\ j \in 1 .. Len(x)
      BY <1>2, <2>1
    <3> QED
      BY <1>3, <1>5, <3>1 DEF Once
  <2>2. CASE ~(k <= Len(x)) /\ ~(j <= Len(x))
    <3>1. k - Len(x) = j - Len(x)
      BY <1>4, <1>5, <2>2 DEF Once
    <3> QED
      BY <1>2, <3>1
  <2>3. CASE (k <= Len(x) /\ ~(j <= Len(x))) \/ (j <= Len(x) /\ ~(k <= Len(x)))
    <3>1. (k \in 1 .. Len(x) /\ ~(j <= Len(x))) \/ (j \in 1 .. Len(x) /\ ~(k <= Len(x)))
      BY <1>2, <2>3
    <3> QED
      BY <1>3, <1>4, <1>5, <3>1
  <2> QED
    BY <2>1, <2>2, <2>3
<1>6. Once(r)
  BY <1>1, <1>5 DEF Once
<1>7. ToSet(r) \subseteq ToSet(x) \cup ToSet(y)
  <2>1. \A k \in 1 .. Len(x) + Len(y) : r[k] \in ToSet(x) \cup ToSet(y)
    <3> SUFFICES ASSUME NEW k \in 1 .. Len(x) + Len(y)
                 PROVE  r[k] \in ToSet(x) \cup ToSet(y)
      OBVIOUS
    <3>1. CASE k <= Len(x)
      BY <3>1, <1>2, <1>3
    <3>2. CASE ~(k <= Len(x))
      BY <3>2, <1>4
    <3> QED
      BY <3>1, <3>2
  <2> QED
    BY <1>2, <2>1
<1>8. ToSet(x) \subseteq ToSet(r)
  BY <1>2, <1>3
<1>9. ASSUME NEW k \in 1 .. Len(y)
      PROVE  y[k] \in ToSet(r)
  <2>1. /\ k + Len(x) \in 1 .. Len(x) + Len(y) /\ ~(k + Len(x) <= Len(x))
        /\ (k + Len(x)) - Len(x) = k
    BY <1>2
  <2>2. r[k + Len(x)] = y[k]
    BY <2>1, <1>4
  <2> QED
    BY <2>1, <2>2, <1>2
<1>10. ToSet(y) \subseteq ToSet(r)
  BY <1>2, <1>9
<1> QED
  BY <1>1, <1>6, <1>7, <1>8, <1>10

(* The list of one element, and the empty one.                              *)
LEMMA OneElement ==
    ASSUME NEW S, NEW e \in S
    PROVE  /\ <<e>> \in Seq(S) /\ Once(<<e>>) /\ ToSet(<<e>>) = {e} /\ <<e>> # <<>>
           /\ Len(<<e>>) = 1 /\ Head(<<e>>) = e
<1>1. PICK l \in Seq(S) : l = <<e>> /\ Len(l) = 1 /\ l[1] = e
  <2>1. <<e>> \in Seq(S) /\ Len(<<e>>) = 1 /\ <<e>>[1] = e
    OBVIOUS
  <2> QED
    BY <2>1
<1>2. Once(l)
  BY <1>1 DEF Once
<1>3. ToSet(l) = {e}
  <2>1. ToSet(l) = {l[k] : k \in 1 .. Len(l)}
    BY ToSetOfSeq
  <2> QED
    BY <2>1, <1>1
<1>4. l # <<>> /\ Head(l) = e
  BY <1>1, EmptySeq
<1> QED
  BY <1>1, <1>2, <1>3, <1>4

(* The empty list has none.                                                 *)
LEMMA NoElement ==
    ASSUME NEW S
    PROVE  <<>> \in Seq(S) /\ Once(<<>>) /\ ToSet(<<>>) = {}
<1>1. PICK l \in Seq(S) : l = <<>> /\ Len(l) = 0
  BY EmptySeq
<1>2. Once(l)
  BY <1>1 DEF Once
<1>3. ToSet(l) = {}
  <2>1. ToSet(l) = {l[k] : k \in 1 .. Len(l)}
    BY ToSetOfSeq
  <2> QED
    BY <1>1, <2>1
<1> QED
  BY <1>1, <1>2, <1>3

(* A list has elements if it is not empty.                                  *)
LEMMA EmptyToSet ==
    ASSUME NEW S, NEW l \in Seq(S)
    PROVE  l # <<>> <=> ToSet(l) # {}
<1>1. l = <<>> => ToSet(l) = {}
  BY NoElement
<1>2. ASSUME l # <<>>
      PROVE  ToSet(l) # {}
  <2>1. Len(l) \in Nat \ {0}
    BY <1>2, EmptySeq
  <2>2. 1 \in 1 .. Len(l)
    BY <2>1
  <2> QED
    BY <2>2, ToSetOfSeq
<1> QED
  BY <1>1, <1>2

(***************************************************************************)
(* The bios in the requests.                                                *)
(***************************************************************************)

\* Each of these bios is in one request, once, and nothing else is.
Carried(f, In) ==
    /\ f \in [Requests -> Seq(Bios)]
    /\ \A r \in Requests : Once(f[r])
    /\ \A r, q \in Requests : r # q => ToSet(f[r]) \cap ToSet(f[q]) = {}
    /\ In = UNION {ToSet(f[r]) : r \in Requests}

(* A bio is taken into a request.                                           *)
LEMMA CarryMore ==
    ASSUME NEW f, NEW In, Carried(f, In), NEW r \in Requests, NEW b \in Bios \ In,
           NEW l \in Seq(Bios), Once(l), ToSet(l) = ToSet(f[r]) \cup {b}
    PROVE  Carried([f EXCEPT ![r] = l], In \cup {b})
<1> DEFINE g == [f EXCEPT ![r] = l]
<1>1. f \in [Requests -> Seq(Bios)]
  BY DEF Carried
<1>2. g \in [Requests -> Seq(Bios)] /\ g[r] = l /\ \A q \in Requests : q # r => g[q] = f[q]
  BY <1>1
<1> HIDE DEF g
<1>3. \A q \in Requests : Once(g[q])
  BY <1>2 DEF Carried
<1>4. \A q \in Requests : ToSet(f[q]) \subseteq In
  BY DEF Carried
<1>5. ASSUME NEW p \in Requests, NEW q \in Requests, p # q
      PROVE  ToSet(g[p]) \cap ToSet(g[q]) = {}
  <2>1. ToSet(f[p]) \cap ToSet(f[q]) = {}
    BY <1>5 DEF Carried
  <2> QED
    BY <2>1, <1>2, <1>4, <1>5
<1>6. In \cup {b} = UNION {ToSet(g[q]) : q \in Requests}
  <2>1. In = UNION {ToSet(f[q]) : q \in Requests}
    BY DEF Carried
  <2>2. \A q \in Requests : ToSet(g[q]) = IF q = r THEN ToSet(f[q]) \cup {b} ELSE ToSet(f[q])
    BY <1>2
  <2> QED
    BY <2>1, <2>2
<1> QED
  BY <1>2, <1>3, <1>5, <1>6 DEF Carried, g

(* A bio is taken into a request, together with those of another.            *)
LEMMA CarryJoined ==
    ASSUME NEW f, NEW In, Carried(f, In), NEW r \in Requests, NEW b \in Bios \ In,
           NEW n \in Requests, n # r,
           NEW l \in Seq(Bios), Once(l), ToSet(l) = ToSet(f[r]) \cup {b} \cup ToSet(f[n])
    PROVE  Carried([f EXCEPT ![r] = l, ![n] = <<>>], In \cup {b})
<1> DEFINE g == [f EXCEPT ![r] = l, ![n] = <<>>]
<1>1. f \in [Requests -> Seq(Bios)]
  BY DEF Carried
<1>2. <<>> \in Seq(Bios) /\ Once(<<>>) /\ ToSet(<<>>) = {}
  BY NoElement
<1>3. /\ g \in [Requests -> Seq(Bios)] /\ g[r] = l /\ g[n] = <<>>
      /\ \A q \in Requests : q # r /\ q # n => g[q] = f[q]
  BY <1>1, <1>2
<1> HIDE DEF g
<1>4. \A q \in Requests : Once(g[q])
  BY <1>2, <1>3 DEF Carried
<1>5. \A q \in Requests : ToSet(f[q]) \subseteq In
  BY DEF Carried
<1>6. ASSUME NEW p \in Requests, NEW q \in Requests, p # q
      PROVE  ToSet(g[p]) \cap ToSet(g[q]) = {}
  <2>1. /\ ToSet(f[p]) \cap ToSet(f[q]) = {}
        /\ p # r => ToSet(f[p]) \cap ToSet(f[r]) = {}
        /\ q # r => ToSet(f[q]) \cap ToSet(f[r]) = {}
        /\ p # n => ToSet(f[p]) \cap ToSet(f[n]) = {}
        /\ q # n => ToSet(f[q]) \cap ToSet(f[n]) = {}
    BY <1>6 DEF Carried
  <2>2. b \notin ToSet(f[p]) /\ b \notin ToSet(f[q])
    BY <1>5
  <2>3. CASE p = n \/ q = n
    BY <2>3, <1>2, <1>3
  <2>4. CASE p = r /\ q # n
    BY <2>1, <2>2, <2>4, <1>3, <1>6
  <2>5. CASE q = r /\ p # n
    BY <2>1, <2>2, <2>5, <1>3, <1>6
  <2>6. CASE p # n /\ q # n /\ p # r /\ q # r
    BY <2>1, <2>6, <1>3
  <2> QED
    BY <2>3, <2>4, <2>5, <2>6
<1>7. In \cup {b} = UNION {ToSet(g[q]) : q \in Requests}
  <2>1. In = UNION {ToSet(f[q]) : q \in Requests}
    BY DEF Carried
  <2>2. /\ ToSet(g[r]) = ToSet(f[r]) \cup {b} \cup ToSet(f[n])
        /\ ToSet(g[n]) = {}
        /\ \A q \in Requests : q # r /\ q # n => ToSet(g[q]) = ToSet(f[q])
    BY <1>2, <1>3
  <2>3. ASSUME NEW x \in In \cup {b}
        PROVE  \E q \in Requests : x \in ToSet(g[q])
    <3>1. CASE x = b
      BY <3>1, <2>2
    <3>2. CASE x # b
      <4>1. PICK q \in Requests : x \in ToSet(f[q])
        BY <3>2, <2>1
      <4> QED
        BY <4>1, <2>2
    <3> QED
      BY <3>1, <3>2
  <2>4. \A q \in Requests : ToSet(g[q]) \subseteq In \cup {b}
    BY <2>2, <1>5
  <2> QED
    BY <2>3, <2>4
<1> QED
  BY <1>3, <1>4, <1>6, <1>7 DEF Carried, g

(* The first bio of a request is taken out.                                 *)
LEMMA CarryLess ==
    ASSUME NEW f, NEW In, Carried(f, In), NEW r \in Requests, f[r] # <<>>
    PROVE  /\ Carried([f EXCEPT ![r] = Tail(@)], In \ {Head(f[r])})
           /\ Head(f[r]) \in In
<1> DEFINE g == [f EXCEPT ![r] = Tail(@)]
<1>1. f \in [Requests -> Seq(Bios)]
  BY DEF Carried
<1>2. /\ Tail(f[r]) \in Seq(Bios) /\ Once(Tail(f[r])) /\ Head(f[r]) \in ToSet(f[r])
      /\ ToSet(Tail(f[r])) = ToSet(f[r]) \ {Head(f[r])}
  <2>1. f[r] \in Seq(Bios) /\ Once(f[r])
    BY <1>1 DEF Carried
  <2> QED
    BY <2>1, TailKeepsOnce
<1>3. /\ g \in [Requests -> Seq(Bios)] /\ g[r] = Tail(f[r])
      /\ \A q \in Requests : q # r => g[q] = f[q]
  BY <1>1, <1>2
<1> HIDE DEF g
<1>4. \A q \in Requests : Once(g[q])
  BY <1>2, <1>3 DEF Carried
<1>5. ASSUME NEW q \in Requests
      PROVE  ToSet(g[q]) = ToSet(f[q]) \ {Head(f[r])}
  <2>1. CASE q = r
    BY <2>1, <1>2, <1>3
  <2>2. CASE q # r
    <3>1. ToSet(f[q]) \cap ToSet(f[r]) = {}
      BY <2>2 DEF Carried
    <3> QED
      BY <3>1, <2>2, <1>2, <1>3
  <2> QED
    BY <2>1, <2>2
<1>6. ASSUME NEW p \in Requests, NEW q \in Requests, p # q
      PROVE  ToSet(g[p]) \cap ToSet(g[q]) = {}
  <2>1. ToSet(f[p]) \cap ToSet(f[q]) = {}
    BY <1>6 DEF Carried
  <2> QED
    BY <2>1, <1>5
<1>7. In = UNION {ToSet(f[q]) : q \in Requests}
  BY DEF Carried
<1>8. In \ {Head(f[r])} = UNION {ToSet(g[q]) : q \in Requests}
  <2>1. ASSUME NEW x \in In, x # Head(f[r])
        PROVE  \E q \in Requests : x \in ToSet(g[q])
    <3>1. PICK q \in Requests : x \in ToSet(f[q])
      BY <1>7
    <3> QED
      BY <3>1, <2>1, <1>5
  <2>2. \A q \in Requests : ToSet(g[q]) \subseteq In \ {Head(f[r])}
    BY <1>5, <1>7
  <2> QED
    BY <2>1, <2>2
<1>9. Head(f[r]) \in In
  BY <1>2, <1>7
<1> QED
  BY <1>3, <1>4, <1>6, <1>8, <1>9 DEF Carried, g

(***************************************************************************)
(* Requests.                                                                *)
(***************************************************************************)

\* A request that has bios is in one place: on the elevator's list, on the
\* block layer's, or in the hands of the request function.
RequestInv ==
    /\ queue \in Seq(Requests)
    /\ Once(queue)
    /\ dispatched \subseteq Requests
    /\ req \in Requests \cup {Nil}
    /\ pc = "idle" <=> req = Nil
    /\ Queued \cap dispatched = {}
    /\ req \notin Queued \cup dispatched
    /\ \A r \in Requests : bios[r] # <<>> <=> r \in Queued \cup dispatched \cup {req}
    /\ Carried(bios, inflight)

(* Where a request is on the list, and its neighbours there.                *)
LEMMA AtPlace ==
    ASSUME queue \in Seq(Requests), Once(queue), NEW r \in Queued
    PROVE  /\ At(r) \in 1 .. Len(queue) /\ queue[At(r)] = r
           /\ FormerRequest(r) # Nil => FormerRequest(r) \in Queued \ {r}
           /\ LatterRequest(r) # Nil => LatterRequest(r) \in Queued \ {r}
<1>1. /\ DOMAIN queue = 1 .. Len(queue) /\ Len(queue) \in Nat
      /\ Queued = {queue[k] : k \in 1 .. Len(queue)}
  BY ToSetOfSeq DEF Queued
<1>2. At(r) \in 1 .. Len(queue) /\ queue[At(r)] = r
  <2>1. \E k \in DOMAIN queue : queue[k] = r
    BY <1>1
  <2> QED
    BY <1>1, <2>1 DEF At
<1>3. PICK k \in 1 .. Len(queue) : k = At(r) /\ queue[k] = r
  BY <1>2
<1>4. ASSUME FormerRequest(r) # Nil
      PROVE  FormerRequest(r) \in Queued \ {r}
  <2>1. k # 1 /\ FormerRequest(r) = queue[k - 1]
    BY <1>3, <1>4 DEF FormerRequest
  <2>2. k - 1 \in 1 .. Len(queue) /\ k - 1 # k
    BY <1>1, <2>1
  <2>3. queue[k - 1] # queue[k]
    BY <2>2, <1>3 DEF Once
  <2> QED
    BY <1>1, <1>3, <2>1, <2>2, <2>3
<1>5. ASSUME LatterRequest(r) # Nil
      PROVE  LatterRequest(r) \in Queued \ {r}
  <2>1. k # Len(queue) /\ LatterRequest(r) = queue[k + 1]
    BY <1>3, <1>5 DEF LatterRequest
  <2>2. k + 1 \in 1 .. Len(queue) /\ k + 1 # k
    <3>1. Len(queue) \in Nat /\ k \in 1 .. Len(queue) /\ k # Len(queue)
      BY <1>1, <2>1
    <3> QED
      BY <3>1
  <2>3. queue[k + 1] # queue[k]
    BY <2>2, <1>3 DEF Once
  <2> QED
    BY <1>1, <1>3, <2>1, <2>2, <2>3
<1> QED
  BY <1>2, <1>4, <1>5

(* The list without the request that was absorbed.                          *)
LEMMA MergedOff ==
    ASSUME queue \in Seq(Requests), Once(queue), NEW r, NEW n \in Queued,
           MergedRequests(r, n)
    PROVE  queue' \in Seq(Requests) /\ Once(queue') /\ ToSet(queue') = Queued \ {n}
<1>1. PICK k \in 1 .. Len(queue) : k = At(n) /\ queue[k] = n
  BY AtPlace
<1>2. queue' = RemoveAt(queue, k)
  BY <1>1 DEF MergedRequests
<1>3. queue' \in Seq(Requests) /\ Removed(queue, k, queue')
  BY <1>2, RemoveAtRemoves
<1>4. Once(queue') /\ ToSet(queue') = ToSet(queue) \ {queue[k]}
  BY <1>3, RemoveKeepsOnce
<1> QED
  BY <1>1, <1>3, <1>4 DEF Queued

(* The list with a new request.                                             *)
LEMMA AddedOn ==
    ASSUME queue \in Seq(Requests), Once(queue), NEW r \in Requests \ Queued,
           NEW sector, AddRequest(r, sector)
    PROVE  queue' \in Seq(Requests) /\ Once(queue') /\ ToSet(queue') = Queued \cup {r}
<1>1. Len(queue) \in Nat
  BY LenProperties
<1>2. PICK k \in 1 .. Len(queue) + 1 : k = Place(sector)
  BY <1>1, PlaceIsFirst
<1>3. queue' = InsertAt(queue, k, r)
  BY <1>2 DEF AddRequest
<1>4. queue' \in Seq(Requests) /\ Inserted(queue, k, r, queue')
  BY <1>3, InsertAtInserts
<1>5. r \in Requests \ ToSet(queue)
  BY DEF Queued
<1>6. Once(queue') /\ ToSet(queue') = ToSet(queue) \cup {r}
  BY <1>4, <1>5, InsertKeepsOnce
<1> QED
  BY <1>4, <1>6 DEF Queued

(* What is fetched leaves the list it was on.                               *)
LEMMA FetchOne ==
    ASSUME queue \in Seq(Requests), Once(queue), dispatched \subseteq Requests,
           Queued \cap dispatched = {}, Fetch
    PROVE  /\ queue' \in Seq(Requests) /\ Once(queue')
           /\ dispatched' \subseteq Requests
           /\ ToSet(queue') \cap dispatched' = {}
           /\ req' \in Requests
           /\ req' \notin ToSet(queue') \cup dispatched'
           /\ Queued \cup dispatched = ToSet(queue') \cup dispatched' \cup {req'}
<1>1. CASE dispatched # {}
  <2>1. req' \in dispatched /\ dispatched' = dispatched \ {req'} /\ queue' = queue
    BY <1>1 DEF Fetch
  <2> QED
    BY <2>1 DEF Queued
<1>2. CASE dispatched = {}
  <2>1. queue # <<>> /\ queue' = Tail(queue) /\ req' = Head(queue) /\ dispatched' = dispatched
    BY <1>2 DEF Fetch, Dispatch
  <2>2. /\ queue' \in Seq(Requests) /\ Once(queue')
        /\ req' \in ToSet(queue) /\ ToSet(queue') = ToSet(queue) \ {req'}
    BY <2>1, TailKeepsOnce
  <2>3. ToSet(queue) \subseteq Requests
    BY ToSetOfSeq
  <2> QED
    BY <1>2, <2>1, <2>2, <2>3 DEF Queued
<1> QED
  BY <1>1, <1>2

(* A bio that goes into a request on the list.                              *)
LEMMA GrowStep ==
    ASSUME RequestInv, NEW b \in Bios \ inflight, NEW r \in Queued,
           NEW l \in Seq(Bios), Once(l), ToSet(l) = ToSet(bios[r]) \cup {b},
           bios' = [bios EXCEPT ![r] = l], inflight' = inflight \cup {b},
           UNCHANGED <<queue, dispatched, pc, req>>
    PROVE  RequestInv'
<1>1. Queued \subseteq Requests
  BY ToSetOfSeq DEF RequestInv, Queued
<1>2. Carried(bios', inflight')
  BY <1>1, CarryMore DEF RequestInv
<1>3. bios \in [Requests -> Seq(Bios)]
  BY DEF RequestInv, Carried
<1>4. l # <<>>
  BY EmptyToSet
<1>5. \A q \in Requests : bios'[q] # <<>> <=> bios[q] # <<>>
  BY <1>1, <1>3, <1>4 DEF RequestInv
<1> QED
  BY <1>2, <1>5 DEF RequestInv, Queued

(* A bio that joins two requests.                                           *)
LEMMA JoinStep ==
    ASSUME RequestInv, NEW b \in Bios \ inflight, NEW r \in Queued, NEW n \in Queued, n # r,
           bios' = [bios EXCEPT ![r] = @ \o <<b>> \o bios[n], ![n] = <<>>],
           MergedRequests(r, n), inflight' = inflight \cup {b},
           UNCHANGED <<dispatched, pc, req>>
    PROVE  RequestInv'
<1>1. Queued \subseteq Requests
  BY ToSetOfSeq DEF RequestInv, Queued
<1>2. bios \in [Requests -> Seq(Bios)]
  BY DEF RequestInv, Carried
<1>3. PICK l : l = bios[r] \o <<b>> \o bios[n]
  OBVIOUS
<1>4. l \in Seq(Bios) /\ Once(l) /\ ToSet(l) = ToSet(bios[r]) \cup {b} \cup ToSet(bios[n])
  <2>1. /\ bios[r] \in Seq(Bios) /\ Once(bios[r]) /\ bios[n] \in Seq(Bios) /\ Once(bios[n])
        /\ ToSet(bios[r]) \cap ToSet(bios[n]) = {}
        /\ b \notin ToSet(bios[r]) /\ b \notin ToSet(bios[n])
    BY <1>1, <1>2 DEF RequestInv, Carried
  <2>2. PICK y \in Seq(Bios) : y = <<b>> /\ Once(y) /\ ToSet(y) = {b}
    BY OneElement, Zenon
  <2>3. PICK u \in Seq(Bios), v \in Seq(Bios) : u = bios[r] /\ v = bios[n]
    BY <2>1
  <2>4. Once(u) /\ Once(v) /\ ToSet(u) \cap ToSet(y) = {}
    BY <2>1, <2>2, <2>3
  <2>5. u \o y \in Seq(Bios) /\ Once(u \o y) /\ ToSet(u \o y) = ToSet(u) \cup ToSet(y)
    BY <2>2, <2>4, ConcatKeepsOnce
  <2>6. PICK x \in Seq(Bios) : x = u \o y /\ Once(x) /\ ToSet(x) = ToSet(u) \cup {b}
    BY <2>2, <2>5
  <2>7. ToSet(x) \cap ToSet(v) = {}
    BY <2>1, <2>3, <2>6
  <2>8. /\ x \o v \in Seq(Bios) /\ Once(x \o v)
        /\ ToSet(x \o v) = ToSet(x) \cup ToSet(v)
    <3>1. Once(x) /\ Once(v)
      BY <2>4, <2>6
    <3> QED
      BY <2>7, <3>1, ConcatKeepsOnce
  <2>9. l = x \o v
    BY <1>3, <2>2, <2>3, <2>6
  <2> QED
    BY <2>3, <2>6, <2>8, <2>9
<1>5. bios' = [bios EXCEPT ![r] = l, ![n] = <<>>]
  BY <1>3
<1>6. Carried(bios', inflight')
  <2>1. Carried(bios, inflight) /\ r \in Requests /\ n \in Requests
    BY <1>1 DEF RequestInv
  <2>2. Carried([bios EXCEPT ![r] = l, ![n] = <<>>], inflight \cup {b})
    BY <2>1, <1>4, CarryJoined
  <2> QED
    BY <2>2, <1>5
<1>7. queue' \in Seq(Requests) /\ Once(queue') /\ ToSet(queue') = Queued \ {n}
  BY MergedOff DEF RequestInv
<1>8. l # <<>>
  BY <1>4, EmptyToSet
<1>9. ASSUME NEW q \in Requests
      PROVE  bios'[q] # <<>> <=> q \in ToSet(queue') \cup dispatched \cup {req}
  <2>1. CASE q = n
    BY <2>1, <1>2, <1>5, <1>7 DEF RequestInv
  <2>2. CASE q # n
    <3>1. bios'[q] # <<>> <=> bios[q] # <<>>
      <4>1. bios[r] # <<>>
        BY <1>1 DEF RequestInv
      <4> QED
        BY <2>2, <1>2, <1>5, <1>8, <4>1
    <3> QED
      BY <2>2, <3>1, <1>7 DEF RequestInv
  <2> QED
    BY <2>1, <2>2
<1> QED
  BY <1>6, <1>7, <1>9 DEF RequestInv, Queued

(* A new bio goes into a new request, or into one on the list, at its end    *)
(* or at its front, and may make one of two.                                *)
LEMMA NewRequestStep ==
    ASSUME RequestInv, NEW b \in Bios, NewRequest(b)
    PROVE  RequestInv'
<1>1. b \in Bios \ inflight /\ inflight' = inflight \cup {b}
      /\ UNCHANGED <<dispatched, pc, req>>
  BY DEF NewRequest, MaySubmit, driver
<1>2. PICK r \in Requests : /\ bios[r] = <<>>
                           /\ bios' = [bios EXCEPT ![r] = <<b>>]
                           /\ AddRequest(r, b.sector)
  BY DEF NewRequest
<1>3. r \notin Queued \cup dispatched \cup {req}
  BY <1>2 DEF RequestInv
<1>4. queue' \in Seq(Requests) /\ Once(queue') /\ ToSet(queue') = Queued \cup {r}
  BY <1>2, <1>3, AddedOn DEF RequestInv
<1>5. PICK y \in Seq(Bios) : y = <<b>> /\ Once(y) /\ ToSet(y) = {b} /\ y # <<>>
  BY OneElement, Zenon
<1>6. bios \in [Requests -> Seq(Bios)] /\ Carried(bios, inflight)
  BY DEF RequestInv, Carried
<1>7. ToSet(y) = ToSet(bios[r]) \cup {b}
  BY <1>2, <1>5, NoElement
<1>8. Carried(bios', inflight')
  <2>1. Carried([bios EXCEPT ![r] = y], inflight \cup {b})
    BY <1>1, <1>5, <1>6, <1>7, CarryMore
  <2> QED
    BY <1>1, <1>2, <1>5, <2>1
<1>9. \A q \in Requests : bios'[q] # <<>> <=> q \in ToSet(queue') \cup dispatched \cup {req}
  BY <1>2, <1>4, <1>5, <1>6 DEF RequestInv
<1> QED
  BY <1>1, <1>3, <1>4, <1>8, <1>9 DEF RequestInv, Queued

(* The bios of a request on the list, with one more at either end.           *)
LEMMA OneMore ==
    ASSUME RequestInv, NEW b \in Bios \ inflight, NEW r \in Queued
    PROVE  /\ Append(bios[r], b) \in Seq(Bios) /\ Once(Append(bios[r], b))
           /\ ToSet(Append(bios[r], b)) = ToSet(bios[r]) \cup {b}
           /\ <<b>> \o bios[r] \in Seq(Bios) /\ Once(<<b>> \o bios[r])
           /\ ToSet(<<b>> \o bios[r]) = ToSet(bios[r]) \cup {b}
<1>1. r \in Requests
  BY ToSetOfSeq DEF RequestInv, Queued
<1>2. PICK x \in Seq(Bios) : x = bios[r] /\ Once(x) /\ b \notin ToSet(x)
  BY <1>1 DEF RequestInv, Carried
<1>3. PICK y \in Seq(Bios) : y = <<b>> /\ Once(y) /\ ToSet(y) = {b}
  BY OneElement, Zenon
<1>4. ToSet(x) \cap ToSet(y) = {} /\ ToSet(y) \cap ToSet(x) = {}
  BY <1>2, <1>3
<1>5. Once(x) /\ Once(y)
  BY <1>2, <1>3
<1>6. x \o y \in Seq(Bios) /\ Once(x \o y) /\ ToSet(x \o y) = ToSet(x) \cup ToSet(y)
  BY <1>4, <1>5, ConcatKeepsOnce
<1>7. y \o x \in Seq(Bios) /\ Once(y \o x) /\ ToSet(y \o x) = ToSet(y) \cup ToSet(x)
  BY <1>4, <1>5, ConcatKeepsOnce
<1>8. Append(x, b) = x \o y
  <2>1. Append(x, b) = x \o <<b>>
    BY AppendIsConcat
  <2> QED
    BY <1>3, <2>1
<1>9. Append(x, b) \in Seq(Bios) /\ Once(Append(x, b)) /\ ToSet(Append(x, b)) = ToSet(x) \cup {b}
  BY <1>3, <1>6, <1>8
<1>10. /\ <<b>> \o x \in Seq(Bios) /\ Once(<<b>> \o x)
       /\ ToSet(<<b>> \o x) = ToSet(x) \cup {b}
  BY <1>3, <1>7
<1> QED
  BY <1>2, <1>9, <1>10

(* At the end of a request on the list.                                     *)
LEMMA BackMergeStep ==
    ASSUME RequestInv, NEW b \in Bios, BackMerge(b)
    PROVE  RequestInv'
<1>1. b \in Bios \ inflight /\ inflight' = inflight \cup {b}
      /\ UNCHANGED <<dispatched, pc, req>>
  BY DEF BackMerge, MaySubmit, driver
<1>2. PICK r \in Queued :
         LET next == LatterRequest(r)
         IN  IF next # Nil /\ SameWay(b, next) /\ Pos(next) = b.sector + b.nsect
             THEN /\ bios' = [bios EXCEPT ![r] = @ \o <<b>> \o bios[next], ![next] = <<>>]
                  /\ MergedRequests(r, next)
             ELSE /\ bios' = [bios EXCEPT ![r] = Append(@, b)]
                  /\ UNCHANGED queue
  BY DEF BackMerge
<1>3. PICK n : n = LatterRequest(r)
  OBVIOUS
<1>4. CASE n # Nil /\ SameWay(b, n) /\ Pos(n) = b.sector + b.nsect
  <2>1. /\ bios' = [bios EXCEPT ![r] = @ \o <<b>> \o bios[n], ![n] = <<>>]
        /\ MergedRequests(r, n)
    BY <1>2, <1>3, <1>4
  <2>2. n \in Queued /\ n # r
    BY <1>3, <1>4, AtPlace DEF RequestInv
  <2> QED
    BY <1>1, <2>1, <2>2, JoinStep
<1>5. CASE ~(n # Nil /\ SameWay(b, n) /\ Pos(n) = b.sector + b.nsect)
  <2>1. PICK l : l = Append(bios[r], b)
    OBVIOUS
  <2>2. bios' = [bios EXCEPT ![r] = l] /\ UNCHANGED queue
    BY <1>2, <1>3, <1>5, <2>1
  <2>3. l \in Seq(Bios) /\ Once(l) /\ ToSet(l) = ToSet(bios[r]) \cup {b}
    BY <1>1, <2>1, OneMore
  <2> QED
    BY <1>1, <2>2, <2>3, GrowStep
<1> QED
  BY <1>4, <1>5

(* At the front of one.                                                     *)
LEMMA FrontMergeStep ==
    ASSUME RequestInv, NEW b \in Bios, FrontMerge(b)
    PROVE  RequestInv'
<1>1. b \in Bios \ inflight /\ inflight' = inflight \cup {b}
      /\ UNCHANGED <<dispatched, pc, req>>
  BY DEF FrontMerge, MaySubmit, driver
<1>2. PICK r \in Queued :
         LET prev == FormerRequest(r)
         IN  IF prev # Nil /\ SameWay(b, prev) /\ End(prev) = b.sector
             THEN /\ bios' = [bios EXCEPT ![prev] = @ \o <<b>> \o bios[r], ![r] = <<>>]
                  /\ MergedRequests(prev, r)
             ELSE /\ bios' = [bios EXCEPT ![r] = <<b>> \o @]
                  /\ UNCHANGED queue
  BY DEF FrontMerge
<1>3. PICK p : p = FormerRequest(r)
  OBVIOUS
<1>4. CASE p # Nil /\ SameWay(b, p) /\ End(p) = b.sector
  <2>1. /\ bios' = [bios EXCEPT ![p] = @ \o <<b>> \o bios[r], ![r] = <<>>]
        /\ MergedRequests(p, r)
    BY <1>2, <1>3, <1>4
  <2>2. p \in Queued /\ r # p
    BY <1>3, <1>4, AtPlace DEF RequestInv
  <2> QED
    BY <1>1, <2>1, <2>2, JoinStep
<1>5. CASE ~(p # Nil /\ SameWay(b, p) /\ End(p) = b.sector)
  <2>1. PICK l : l = <<b>> \o bios[r]
    OBVIOUS
  <2>2. bios' = [bios EXCEPT ![r] = l] /\ UNCHANGED queue
    BY <1>2, <1>3, <1>5, <2>1
  <2>3. l \in Seq(Bios) /\ Once(l) /\ ToSet(l) = ToSet(bios[r]) \cup {b}
    BY <1>1, <2>1, OneMore
  <2> QED
    BY <1>1, <2>2, <2>3, GrowStep
<1> QED
  BY <1>4, <1>5

(* The requests that go to the dispatch list are still in one place.         *)
LEMMA SwitchElevatorStep ==
    ASSUME RequestInv, SwitchElevator
    PROVE  RequestInv'
<1>1. /\ queue' = <<>> /\ dispatched' = dispatched \cup Queued
      /\ UNCHANGED <<bios, inflight, pc, req>>
  BY DEF SwitchElevator, NewElevator, driver
<1>2. queue' \in Seq(Requests) /\ Once(queue') /\ ToSet(queue') = {}
  BY <1>1, NoElement, Zenon
<1>3. Queued \subseteq Requests
  BY ToSetOfSeq DEF RequestInv, Queued
<1>4. dispatched' \subseteq Requests /\ req \notin dispatched'
  BY <1>1, <1>3 DEF RequestInv
<1>5. \A r \in Requests : bios'[r] # <<>> <=> r \in ToSet(queue') \cup dispatched' \cup {req'}
  BY <1>1, <1>2 DEF RequestInv
<1> QED
  BY <1>1, <1>2, <1>4, <1>5 DEF RequestInv, Queued

(* The request function takes a request.                                    *)
LEMMA StartStep ==
    ASSUME RequestInv, StartRequests
    PROVE  RequestInv'
<1>1. pc = "idle" /\ pc' = "transfer" /\ Fetch /\ UNCHANGED <<bios, inflight>>
  BY DEF StartRequests
<1>2. /\ queue' \in Seq(Requests) /\ Once(queue') /\ dispatched' \subseteq Requests
      /\ ToSet(queue') \cap dispatched' = {} /\ req' \in Requests
      /\ req' \notin ToSet(queue') \cup dispatched'
      /\ Queued \cup dispatched = ToSet(queue') \cup dispatched' \cup {req'}
  BY <1>1, FetchOne DEF RequestInv
<1>3. req = Nil
  BY <1>1 DEF RequestInv
<1>4. \A r \in Requests : bios'[r] # <<>> <=> r \in ToSet(queue') \cup dispatched' \cup {req'}
  BY <1>1, <1>2, <1>3, RequestsAssumption DEF RequestInv
<1>5. req' # Nil /\ pc' # "idle"
  BY <1>1, <1>2, RequestsAssumption
<1> QED
  BY <1>1, <1>2, <1>4, <1>5 DEF RequestInv, Queued

(* It ends a bio, and goes on with what is left.                            *)
LEMMA EndStep ==
    ASSUME RequestInv, EndBio
    PROVE  /\ RequestInv'
           /\ req \in Requests /\ bios[req] # <<>> /\ Bio \in inflight
<1>1. /\ pc = "end" /\ inflight' = inflight \ {Head(bios[req])}
      /\ bios' = [bios EXCEPT ![req] = Tail(@)]
  BY DEF EndBio, Bio
<1>2. req \in Requests /\ bios[req] # <<>>
  BY <1>1 DEF RequestInv
<1>3. Carried(bios', inflight') /\ Head(bios[req]) \in inflight
  BY <1>1, <1>2, CarryLess DEF RequestInv
<1>4. bios \in [Requests -> Seq(Bios)]
  BY DEF RequestInv, Carried
<1>5. \A r \in Requests : bios'[r] = IF r = req THEN Tail(bios[req]) ELSE bios[r]
  BY <1>1, <1>4
<1>6. req \notin Queued \cup dispatched
  BY DEF RequestInv
<1>7. CASE Tail(bios[req]) # <<>>
  <2>1. pc' = "transfer" /\ UNCHANGED <<req, queue, dispatched>>
    BY <1>7 DEF EndBio
  <2>2. \A r \in Requests : bios'[r] # <<>> <=> bios[r] # <<>>
    BY <1>2, <1>5, <1>7
  <2>3. req' # Nil /\ pc' # "idle"
    BY <1>2, <2>1, RequestsAssumption
  <2>4. RequestInv'
    BY <1>3, <2>1, <2>2, <2>3 DEF RequestInv, Queued
  <2> QED
    BY <1>2, <1>3, <2>4 DEF Bio
<1>8. CASE Tail(bios[req]) = <<>>
  <2>1. \A r \in Requests : bios'[r] # <<>> <=> r \in Queued \cup dispatched
    BY <1>2, <1>5, <1>6, <1>8 DEF RequestInv
  <2>2. CASE NothingToFetch
    <3>1. pc' = "idle" /\ req' = Nil /\ UNCHANGED <<queue, dispatched>>
      BY <1>8, <2>2 DEF EndBio
    <3>2. dispatched \subseteq Requests /\ Queued \subseteq Requests
      BY ToSetOfSeq DEF RequestInv, Queued
    <3>3. \A r \in Requests : r # Nil
      BY RequestsAssumption
    <3>4. RequestInv'
      BY <1>3, <2>1, <3>1, <3>2, <3>3 DEF RequestInv, Queued
    <3> QED
      BY <1>2, <1>3, <3>4 DEF Bio
  <2>3. CASE ~NothingToFetch
    <3>1. pc' = "transfer" /\ Fetch
      BY <1>8, <2>3 DEF EndBio
    <3>2. /\ queue' \in Seq(Requests) /\ Once(queue') /\ dispatched' \subseteq Requests
          /\ ToSet(queue') \cap dispatched' = {} /\ req' \in Requests
          /\ req' \notin ToSet(queue') \cup dispatched'
          /\ Queued \cup dispatched = ToSet(queue') \cup dispatched' \cup {req'}
      BY <3>1, FetchOne DEF RequestInv
    <3>3. req' # Nil /\ pc' # "idle"
      BY <3>1, <3>2, RequestsAssumption
    <3>4. RequestInv'
      BY <1>3, <2>1, <3>2, <3>3 DEF RequestInv, Queued
    <3> QED
      BY <1>2, <1>3, <3>4 DEF Bio
  <2> QED
    BY <2>2, <2>3
<1> QED
  BY <1>7, <1>8

(* Every step keeps each request in one place.                              *)
LEMMA RequestStep == RequestInv /\ [Next]_vars => RequestInv'
<1> SUFFICES ASSUME RequestInv, [Next]_vars
             PROVE  RequestInv'
  OBVIOUS
<1>1. CASE Submit
  <2>1. PICK b \in Bios : NewRequest(b) \/ BackMerge(b) \/ FrontMerge(b)
    BY <1>1 DEF Submit
  <2> QED
    BY <2>1, NewRequestStep, BackMergeStep, FrontMergeStep
<1>2. CASE SwitchElevator
  BY <1>2, SwitchElevatorStep
<1>3. CASE StartRequests
  BY <1>3, StartStep
<1>4. CASE EndBio
  BY <1>4, EndStep
<1>5. CASE Transfer
  <2>1. /\ UNCHANGED <<queue, bios, dispatched, inflight, req>>
        /\ pc # "idle" /\ pc' # "idle"
    BY <1>5 DEF Transfer, elevator
  <2> QED
    BY <2>1 DEF RequestInv, Queued
<1>6. CASE UNCHANGED <<queue, bios, dispatched, inflight, pc, req>>
  BY <1>6 DEF RequestInv, Queued
<1> QED
  BY <1>1, <1>2, <1>3, <1>4, <1>5, <1>6
     DEF Next, EndSectorMoves, brdd_request, TransferWithoutCipher, InitAndExit,
         AddDisk, AllocCipher, SetKey, SetKeyOfError, DelGendisk, FreeCipher, vars,
         elevator, driver

(* And so it always is.                                                     *)
LEMMA RequestCorrect == Spec => []RequestInv
<1>1. Init => RequestInv
  <2> SUFFICES ASSUME Init
               PROVE  RequestInv
    OBVIOUS
  <2>1. queue = <<>> /\ dispatched = {} /\ inflight = {} /\ pc = "idle" /\ req = Nil
    BY DEF Init
  <2>2. bios \in [Requests -> Seq(Bios)] /\ \A r \in Requests : bios[r] = <<>>
    BY NoElement DEF Init
  <2>3. queue \in Seq(Requests) /\ Once(queue) /\ Queued = {}
    BY <2>1, NoElement, Zenon DEF Queued
  <2>4. \A r \in Requests : Once(bios[r]) /\ ToSet(bios[r]) = {}
    BY <2>2, NoElement
  <2>5. Carried(bios, inflight)
    BY <2>1, <2>2, <2>4 DEF Carried
  <2> QED
    BY <2>1, <2>2, <2>3, <2>5, RequestsAssumption DEF RequestInv
<1> QED
  BY <1>1, RequestStep, PTL DEF Spec

(***************************************************************************)
(* Types.                                                                   *)
(***************************************************************************)

\* What the driver works on has its type.
DriverInv ==
    /\ end_sector \in Ends
    /\ pc \in {"idle", "transfer", "end"}
    /\ buffer \in [DiskBlocks -> Coded({"plain", "garbled"}) \cup {Nil}]
    /\ disk \in [DiskBlocks -> Coded(Codes)]
    /\ stage \in Live \cup {"out", "removed"}
    /\ tfm \in {"null", "error", "unkeyed", "keyed"}
    /\ oops \in BOOLEAN

(* What the cipher makes of a part of a bio's data is a block of the disk,   *)
(* and what it makes of that is a block of a buffer.                         *)
LEMMA EncryptType ==
    ASSUME NEW b \in Bios \cup {Nil}, NEW i \in DiskBlocks, NEW code \in Codes
    PROVE  Encrypt(Part(b, i), code) \in Coded(Codes)
  BY DEF Encrypt, Part, Coded

LEMMA DecryptType ==
    ASSUME NEW x \in Coded(Codes), NEW code, NEW y \in Decrypt(x, code)
    PROVE  y \in Coded({"plain", "garbled"})
<1>1. PICK c \in {"plain", "garbled"} : y = [x EXCEPT !.code = c]
  BY DEF Decrypt
<1> QED
  BY <1>1 DEF Coded

(* While the request function runs there is a bio at the front of its        *)
(* request.                                                                 *)
LEMMA BioAtHand ==
    ASSUME RequestInv, pc # "idle"
    PROVE  req \in Requests /\ bios[req] # <<>> /\ Bio \in Bios
<1>1. req \in Requests /\ bios[req] # <<>> /\ bios \in [Requests -> Seq(Bios)]
  BY DEF RequestInv, Carried
<1>2. bios[req] \in Seq(Bios)
  BY <1>1
<1> QED
  BY <1>1, <1>2, HeadTailProperties DEF Bio

(* The parts of a bio's data are numbered like blocks of the disk, and the   *)
(* last of them has a block there.                                          *)
LEMMA SpanParts ==
    ASSUME NEW b \in Bios
    PROVE  /\ \A i \in Span(b) : i \in DiskBlocks
           /\ Offset(b) + (Blocks(b) - 1) \in DiskBlocks
<1>1. PICK n \in Nat : n = Cardinality(Sectors) * BlocksPerSector
  BY DiskAssumption, BlocksAssumption, FS_CardinalityType
<1>2. DiskBlocks = 0 .. n - 1
  BY <1>1 DEF DiskBlocks
<1>3. ASSUME NEW i \in Span(b)
      PROVE  i \in DiskBlocks
  <2>1. Offset(b) + i \in 0 .. n - 1 /\ Offset(b) \in Nat /\ i \in Nat
    BY <1>2, SpanOnDisk
  <2> QED
    BY <2>1, <1>2
<1>4. PICK k \in Nat \ {0} : k = BlocksPerSector
  BY BlocksAssumption
<1>5. PICK s \in Nat \ {0} : s = b.nsect
  BY BiosAssumption
<1>6. PICK m \in Nat \ {0} : m = s * k
  <2>1. s * k \in Nat \ {0}
    OBVIOUS
  <2> QED
    BY <2>1
<1>7. m - 1 \in Span(b)
  BY <1>4, <1>5, <1>6 DEF Span, Blocks
<1>8. Offset(b) + (m - 1) \in 0 .. n - 1 /\ Offset(b) \in Nat
  BY <1>2, <1>7, SpanOnDisk
<1>9. Offset(b) + (m - 1) \in DiskBlocks
  BY <1>2, <1>8
<1> QED
  BY <1>3, <1>4, <1>5, <1>6, <1>9 DEF Blocks

(* Every step keeps the types.                                              *)
LEMMA DriverStep == RequestInv /\ DriverInv /\ [Next]_vars => DriverInv'
<1> SUFFICES ASSUME RequestInv, DriverInv, [Next]_vars
             PROVE  DriverInv'
  OBVIOUS
<1>1. CASE Submit
  BY <1>1 DEF Submit, NewRequest, BackMerge, FrontMerge, driver, module, DriverInv
<1>2. CASE EndSectorMoves
  BY <1>2 DEF EndSectorMoves, driver, module, DriverInv
<1>3. CASE SwitchElevator
  BY <1>3 DEF SwitchElevator, driver, module, DriverInv
<1>4. CASE StartRequests
  BY <1>4 DEF StartRequests, module, DriverInv
<1>5. CASE Transfer
  <2>1. PICK k \in KeyedFrom(Bio) :
            /\ tfm' = IF k = Blocks(Bio) THEN tfm ELSE "keyed"
            /\ IF Bio.write THEN disk' = Written(Bio, k) /\ UNCHANGED buffer
                            ELSE buffer' \in Read(Bio, k) /\ UNCHANGED disk
    BY <1>5 DEF Transfer
  <2>2. /\ pc = "transfer" /\ pc' = "end" /\ UNCHANGED <<end_sector, stage, oops>>
        /\ tfm' \in {"null", "error", "unkeyed", "keyed"}
    BY <1>5, <2>1 DEF Transfer, elevator, DriverInv
  <2>3. PICK b \in Bios : b = Bio
    BY <2>2, BioAtHand
  <2>4. \A i : Code(i, k) \in Codes
    BY DEF Code, Codes
  <2>5. CASE b.write
    <3>1. disk' = Written(b, k) /\ UNCHANGED buffer
      BY <2>1, <2>3, <2>5
    <3>2. ASSUME NEW c \in DiskBlocks
          PROVE  (IF c - Offset(b) \in Span(b)
                  THEN Encrypt(Part(b, c - Offset(b)), Code(c - Offset(b), k)) ELSE disk[c])
                    \in Coded(Codes)
      <4>1. CASE c - Offset(b) \in Span(b)
        <5>1. PICK i \in Span(b) : i = c - Offset(b)
          BY <4>1
        <5>2. Encrypt(Part(b, i), Code(i, k)) \in Coded(Codes)
          BY <2>4, SpanParts, EncryptType
        <5> QED
          BY <4>1, <5>1, <5>2
      <4>2. CASE c - Offset(b) \notin Span(b)
        BY <4>2 DEF DriverInv
      <4> QED
        BY <4>1, <4>2
    <3>3. disk' \in [DiskBlocks -> Coded(Codes)]
      BY <3>1, <3>2 DEF Written
    <3> QED
      BY <2>2, <3>1, <3>3 DEF DriverInv
  <2>6. CASE ~b.write
    <3>1. buffer' \in Read(b, k) /\ UNCHANGED disk
      BY <2>1, <2>3, <2>6
    <3>2. PICK c \in DiskBlocks : c = Offset(b) + (Blocks(b) - 1)
      BY SpanParts
    <3>3. PICK x \in Decrypt(disk[c], Code(Blocks(b) - 1, k)) : buffer' = [buffer EXCEPT ![0] = x]
      BY <3>1, <3>2 DEF Read
    <3>4. disk[c] \in Coded(Codes)
      BY DEF DriverInv
    <3>5. x \in Coded({"plain", "garbled"})
      BY <3>3, <3>4, DecryptType
    <3>6. buffer' \in [DiskBlocks -> Coded({"plain", "garbled"}) \cup {Nil}]
      BY <3>3, <3>5 DEF DriverInv
    <3> QED
      BY <2>2, <3>1, <3>6 DEF DriverInv
  <2> QED
    BY <2>5, <2>6
<1>6. CASE TransferWithoutCipher
  BY <1>6 DEF TransferWithoutCipher, elevator, driver, DriverInv
<1>7. CASE EndBio
  <2>1. /\ UNCHANGED <<end_sector, disk, stage, tfm, oops>> /\ buffer' = Unread
        /\ pc' \in {"idle", "transfer"}
    BY <1>7 DEF EndBio, module
  <2>2. buffer' \in [DiskBlocks -> Coded({"plain", "garbled"}) \cup {Nil}]
    BY <2>1 DEF Unread
  <2> QED
    BY <2>1, <2>2 DEF DriverInv
<1>8. CASE AddDisk
  <2>1. /\ UNCHANGED <<end_sector, pc, buffer, tfm, oops>>
        /\ stage' = "adding" /\ disk' = NewDisk
    BY <1>8 DEF AddDisk, elevator
  <2>2. \A c \in DiskBlocks : Encrypt(Part(Nil, c), "stray") \in Coded(Codes)
    BY EncryptType DEF Codes
  <2>3. disk' \in [DiskBlocks -> Coded(Codes)]
    BY <2>1, <2>2 DEF NewDisk
  <2> QED
    BY <2>1, <2>3 DEF DriverInv, Live
<1>9. CASE AllocCipher \/ SetKey \/ SetKeyOfError \/ DelGendisk \/ FreeCipher
  BY <1>9 DEF AllocCipher, SetKey, SetKeyOfError, DelGendisk, FreeCipher, elevator, driver,
              DriverInv, Live
<1>10. CASE UNCHANGED vars
  BY <1>10 DEF vars, elevator, driver, module, DriverInv
<1> QED
  BY <1>1, <1>2, <1>3, <1>4, <1>5, <1>6, <1>7, <1>8, <1>9, <1>10
     DEF Next, brdd_request, InitAndExit

(* And so they always are.                                                  *)
LEMMA DriverCorrect == Spec => []DriverInv
<1>1. Init => DriverInv
  <2> SUFFICES ASSUME Init
               PROVE  DriverInv
    OBVIOUS
  <2>1. end_sector \in Ends
    BY DiskAssumption DEF Init, Ends
  <2>2. buffer \in [DiskBlocks -> Coded({"plain", "garbled"}) \cup {Nil}]
    BY DEF Init, Unread
  <2>3. \A c \in DiskBlocks : Encrypt(Part(Nil, c), "stray") \in Coded(Codes)
    BY EncryptType DEF Codes
  <2>4. disk \in [DiskBlocks -> Coded(Codes)]
    BY <2>3 DEF Init, NewDisk
  <2> QED
    BY <2>1, <2>2, <2>4 DEF Init, DriverInv
<1> QED
  BY <1>1, DriverStep, RequestCorrect, PTL DEF Spec

(* What is in flight are bios.                                              *)
LEMMA CarriedBios ==
    ASSUME NEW f, NEW In, Carried(f, In)
    PROVE  In \subseteq Bios
<1>1. \A r \in Requests : ToSet(f[r]) \subseteq Bios
  BY ToSetOfSeq DEF Carried
<1> QED
  BY <1>1 DEF Carried

(* Every variable keeps its type, whatever the disk, the bios and the order  *)
(* of requests; the disk holds nothing that did not go through the cipher.   *)
THEOREM TypeCorrect == Spec => []TypeOK
<1>1. RequestInv /\ DriverInv => TypeOK
  BY CarriedBios DEF RequestInv, DriverInv, TypeOK, Carried
<1> QED
  BY <1>1, RequestCorrect, DriverCorrect, PTL

(***************************************************************************)
(* Requests are neither lost nor doubled.                                   *)
(***************************************************************************)

(* Sets that are mapped one to one have the same size.                       *)
LEMMA SameSize ==
    ASSUME NEW S, NEW T, NEW f \in [S -> T], IsFiniteSet(T),
           \A x, y \in S : f[x] = f[y] => x = y,
           \A t \in T : \E x \in S : f[x] = t
    PROVE  IsFiniteSet(S) /\ Cardinality(S) = Cardinality(T)
<1>1. f \in Injection(S, T) /\ f \in Surjection(S, T)
  BY DEF Injection, Surjection, IsInjective
<1> QED
  BY <1>1, FS_Injection

(* A list is as long as the set of its elements is big.                      *)
LEMMA OnceSize ==
    ASSUME NEW S, IsFiniteSet(S), NEW l \in Seq(S), Once(l)
    PROVE  IsFiniteSet(ToSet(l)) /\ Cardinality(ToSet(l)) = Len(l)
<1>1. Len(l) \in Nat /\ ToSet(l) = {l[k] : k \in 1 .. Len(l)} /\ ToSet(l) \subseteq S
      /\ l \in [1 .. Len(l) -> S]
  BY ToSetOfSeq, LenProperties
<1>2. IsFiniteSet(ToSet(l))
  BY <1>1, FS_Subset
<1>3. l \in [1 .. Len(l) -> ToSet(l)]
  BY <1>1
<1>4. Cardinality(1 .. Len(l)) = Cardinality(ToSet(l))
  <2>1. \A x, y \in 1 .. Len(l) : l[x] = l[y] => x = y
    BY DEF Once
  <2>2. \A t \in ToSet(l) : \E x \in 1 .. Len(l) : l[x] = t
    BY <1>1
  <2> QED
    BY <1>2, <1>3, <2>1, <2>2, SameSize
<1>5. Cardinality(1 .. Len(l)) = Len(l)
  BY <1>1, FS_Interval
<1> QED
  BY <1>2, <1>4, <1>5

(* Disjoint sets together have as many elements as they have each.           *)
LEMMA DisjointSize ==
    ASSUME NEW S, NEW T, IsFiniteSet(S), IsFiniteSet(T), S \cap T = {}
    PROVE  IsFiniteSet(S \cup T) /\ Cardinality(S \cup T) = Cardinality(S) + Cardinality(T)
<1>1. Cardinality({}) = 0 /\ Cardinality(S) \in Nat /\ Cardinality(T) \in Nat
  BY FS_EmptySet, FS_CardinalityType
<1>2. /\ IsFiniteSet(S \cup T)
      /\ Cardinality(S \cup T) = Cardinality(S) + Cardinality(T) - Cardinality(S \cap T)
  BY FS_Union
<1>3. Cardinality(S \cap T) = 0
  BY <1>1, Zenon
<1> QED
  BY <1>1, <1>2, <1>3

(* The requests in use, counted place by place.                              *)
LEMMA BusyOnce ==
    ASSUME RequestInv
    PROVE  Cardinality(Queued \cup dispatched \cup ({req} \ {Nil}))
              = Len(queue) + Cardinality(dispatched) + Cardinality({req} \ {Nil})
<1> DEFINE hand == {req} \ {Nil}
<1>1. IsFiniteSet(Queued) /\ Cardinality(Queued) = Len(queue)
  BY OnceSize, RequestsAssumption DEF RequestInv, Queued
<1>2. IsFiniteSet(dispatched)
  BY FS_Subset, RequestsAssumption DEF RequestInv
<1>3. IsFiniteSet({req})
  BY FS_Singleton
<1>4. IsFiniteSet(hand)
  BY <1>3, FS_Subset
<1>5. Queued \cap dispatched = {} /\ (Queued \cup dispatched) \cap hand = {}
  BY DEF RequestInv
<1> HIDE DEF hand
<1>6. /\ IsFiniteSet(Queued \cup dispatched)
      /\ Cardinality(Queued \cup dispatched) = Len(queue) + Cardinality(dispatched)
  BY <1>1, <1>2, <1>5, DisjointSize
<1>7. Cardinality(Queued \cup dispatched \cup hand)
         = Cardinality(Queued \cup dispatched) + Cardinality(hand)
  BY <1>4, <1>5, <1>6, DisjointSize
<1> QED
  BY <1>6, <1>7 DEF hand

\* The places in requests that hold a bio.
Used(f) ==
    LET places == {<<r, i>> : r \in Requests, i \in 1 .. Cardinality(Bios)}
    IN  {p \in places : p[2] \in DOMAIN f[p[1]]}

(* The bios in flight, counted place by place.                               *)
LEMMA UsedOnce ==
    ASSUME NEW f, NEW In, Carried(f, In)
    PROVE  /\ In = {f[p[1]][p[2]] : p \in Used(f)}
           /\ Cardinality(Used(f)) = Cardinality(In)
<1> DEFINE used == Used(f)
           at == [p \in used |-> f[p[1]][p[2]]]
<1>1. IsFiniteSet(In)
  BY CarriedBios, FS_Subset, DiskAssumption
<1>2. ASSUME NEW r \in Requests
      PROVE  /\ f[r] \in Seq(Bios) /\ Once(f[r])
             /\ DOMAIN f[r] = 1 .. Len(f[r]) /\ Len(f[r]) \in Nat
             /\ ToSet(f[r]) = {f[r][i] : i \in 1 .. Len(f[r])}
             /\ Len(f[r]) <= Cardinality(Bios)
  <2>1. f[r] \in Seq(Bios) /\ Once(f[r])
    BY DEF Carried
  <2>2. ToSet(f[r]) \subseteq Bios
    BY <2>1, ToSetOfSeq
  <2>3. Cardinality(ToSet(f[r])) = Len(f[r])
    BY <2>1, OnceSize, DiskAssumption
  <2>4. Cardinality(ToSet(f[r])) <= Cardinality(Bios)
    BY <2>2, FS_Subset, DiskAssumption
  <2> QED
    BY <2>1, <2>3, <2>4, ToSetOfSeq
<1>3. Cardinality(Bios) \in Nat
  BY FS_CardinalityType, DiskAssumption
<1>4. ASSUME NEW r \in Requests, NEW i \in 1 .. Len(f[r])
      PROVE  <<r, i>> \in used
  <2>1. i \in 1 .. Cardinality(Bios) /\ i \in DOMAIN f[r]
    BY <1>2, <1>3
  <2> QED
    BY <2>1 DEF Used
<1>5. ASSUME NEW p \in used
      PROVE  /\ p[1] \in Requests /\ p[2] \in 1 .. Len(f[p[1]])
             /\ p = <<p[1], p[2]>> /\ f[p[1]][p[2]] \in ToSet(f[p[1]])
  <2>1. PICK r \in Requests, i \in 1 .. Cardinality(Bios) : p = <<r, i>>
    BY DEF Used
  <2>2. p[1] = r /\ p[2] = i /\ i \in DOMAIN f[r]
    BY <2>1 DEF Used
  <2>3. i \in 1 .. Len(f[r]) /\ f[r][i] \in ToSet(f[r])
    BY <2>2, <1>2
  <2> QED
    BY <2>1, <2>2, <2>3
<1>6. ASSUME NEW x \in In
      PROVE  \E p \in used : f[p[1]][p[2]] = x
  <2>1. PICK r \in Requests : x \in ToSet(f[r])
    BY DEF Carried
  <2>2. PICK i \in 1 .. Len(f[r]) : x = f[r][i]
    BY <2>1, <1>2
  <2>3. <<r, i>> \in used /\ f[<<r, i>>[1]][<<r, i>>[2]] = x
    BY <2>2, <1>4
  <2> QED
    BY <2>3
<1>7. \A p \in used : f[p[1]][p[2]] \in In
  BY <1>5 DEF Carried
<1>8. ASSUME NEW p \in used, NEW q \in used, f[p[1]][p[2]] = f[q[1]][q[2]]
      PROVE  p = q
  <2>1. p[1] = q[1]
    BY <1>5, <1>8 DEF Carried
  <2>2. p[2] = q[2]
    BY <2>1, <1>2, <1>5, <1>8 DEF Once
  <2> QED
    BY <2>1, <2>2, <1>5
<1>9. In = {f[p[1]][p[2]] : p \in used}
  BY <1>6, <1>7
<1>10. at \in [used -> In]
  BY <1>7
<1>11. \A p, q \in used : at[p] = at[q] => p = q
  BY <1>8
<1>12. \A x \in In : \E p \in used : at[p] = x
  BY <1>6
<1> HIDE DEF at
<1>13. Cardinality(used) = Cardinality(In)
  BY <1>1, <1>10, <1>11, <1>12, SameSize
<1> QED
  BY <1>9, <1>13

(* Every bio in flight is in one request, once, and that request is on the   *)
(* elevator's list, on the block layer's or in the hands of the request      *)
(* function, in one of these places, once (sstf-iosched.c:29, :50, :119,     *)
(* :131, brdd.c:158-160).                                                   *)
THEOREM RequestsCorrect == Spec => []RequestsOnce
<1>1. RequestInv => RequestsOnce
  <2> SUFFICES ASSUME RequestInv
               PROVE  RequestsOnce
    OBVIOUS
  <2>1. Carried(bios, inflight)
    BY DEF RequestInv
  <2>2. /\ inflight = {bios[p[1]][p[2]] : p \in Used(bios)}
        /\ Cardinality(Used(bios)) = Cardinality(inflight)
    BY <2>1, UsedOnce
  <2>3. \A r \in Requests : bios[r] # <<>> <=> r \in Queued \cup dispatched \cup ({req} \ {Nil})
    BY RequestsAssumption DEF RequestInv
  <2> DEFINE busy == Queued \cup dispatched \cup ({req} \ {Nil})
             places == {<<r, i>> : r \in Requests, i \in 1 .. Cardinality(Bios)}
             used == {p \in places : p[2] \in DOMAIN bios[p[1]]}
  <2>4. used = Used(bios)
    BY DEF Used
  <2>5. Cardinality(busy) = Len(queue) + Cardinality(dispatched) + Cardinality({req} \ {Nil})
    BY BusyOnce
  <2>6. \A r \in Requests : bios[r] # <<>> <=> r \in busy
    BY <2>3
  <2>7. inflight = {bios[p[1]][p[2]] : p \in used}
    BY <2>2 DEF Used
  <2>8. Cardinality(used) = Cardinality(inflight)
    BY <2>2 DEF Used
  <2> HIDE DEF busy, used
  <2> QED
    BY <2>5, <2>6, <2>7, <2>8 DEF RequestsOnce, busy, used, places
<1> QED
  BY <1>1, RequestCorrect, PTL

(***************************************************************************)
(* Shortest seek first, one insertion at a time.                            *)
(***************************************************************************)

(* A distance is a number, at most that of the sectors the head goes, and    *)
(* that number wherever unsigned int can hold it.                           *)
LEMMA DistanceType ==
    ASSUME NEW a \in Nat, NEW c \in Nat
    PROVE  /\ Distance(a, c) \in Nat /\ Seek(a, c) \in Nat
           /\ Distance(a, c) <= Seek(a, c)
           /\ Seek(a, c) < UintRange => Distance(a, c) = Seek(a, c)
<1>1. PICK n \in Nat \ {0} : n = UintRange
  BY UintAssumption
<1>2. PICK d \in Nat : d = Seek(a, c)
  <2>1. Seek(a, c) \in Nat
    BY DEF Seek
  <2> QED
    BY <2>1
<1>3. d % n \in Nat /\ d % n <= d /\ (d < n => d % n = d)
  OBVIOUS
<1> QED
  BY <1>1, <1>2, <1>3 DEF Distance

(* Distances compare as seeks do, unless the one said to be shorter is cut. *)
LEMMA DistanceCompares ==
    ASSUME NEW a \in Nat, NEW c \in Nat, NEW e \in Nat
    PROVE  /\ ~(Distance(a, e) >= Distance(c, e)) =>
                 Seek(a, e) < Seek(c, e) \/ Seek(a, e) >= UintRange
           /\ Distance(c, e) >= Distance(a, e) =>
                 Seek(a, e) <= Seek(c, e) \/ Seek(a, e) >= UintRange
<1>1. PICK n \in Nat : n = UintRange
  BY UintAssumption
<1>2. PICK s \in Nat : s = Seek(a, e)
  BY DistanceType
<1>3. PICK t \in Nat : t = Seek(c, e)
  BY DistanceType
<1>4. PICK d \in Nat : d = Distance(a, e)
  BY DistanceType
<1>5. PICK f \in Nat : f = Distance(c, e)
  BY DistanceType
<1>6. f <= t /\ (s < n => d = s)
  BY <1>1, <1>2, <1>3, <1>4, <1>5, DistanceType
<1> QED
  BY <1>1, <1>2, <1>3, <1>4, <1>5, <1>6

(* The sectors that the loop looks at are numbers.                               *)
LEMMA StopsType ==
    ASSUME RequestInv, DriverInv
    PROVE  /\ \A s \in Sectors : s \in Nat
           /\ \A k \in 1 .. Len(queue) : Pos(queue[k]) \in Nat
           /\ \A k \in 1 .. Len(queue) + 1 : EndRef(k) \in Nat
<1>1. \A s \in Sectors : s \in Nat
  <2>1. PICK n \in Nat : n = Cardinality(Sectors)
    BY DiskAssumption, FS_CardinalityType
  <2>2. Sectors = 0 .. n - 1
    BY <2>1, DiskAssumption
  <2> QED
    BY <2>2
<1>2. ASSUME NEW k \in 1 .. Len(queue)
      PROVE  Pos(queue[k]) \in Nat
  <2>1. PICK r \in Requests : r = queue[k] /\ r \in Queued
    BY ToSetOfSeq DEF RequestInv, Queued
  <2>2. bios[r] \in Seq(Bios) /\ bios[r] # <<>>
    BY <2>1 DEF RequestInv, Carried
  <2>3. Head(bios[r]) \in Bios
    BY <2>2, HeadTailProperties
  <2> QED
    BY <2>1, <2>3, <1>1, BiosAssumption DEF Pos
<1>3. ASSUME NEW k \in 1 .. Len(queue) + 1
      PROVE  EndRef(k) \in Nat
  <2>1. CASE k = 1
    BY <2>1, <1>1 DEF EndRef, DriverInv, Ends
  <2>2. CASE k # 1
    <3>1. Len(queue) \in Nat
      BY LenProperties DEF RequestInv
    <3>2. k - 1 \in 1 .. Len(queue)
      BY <2>2, <3>1
    <3> QED
      BY <2>2, <3>2, <1>2 DEF EndRef
  <2> QED
    BY <2>1, <2>2
<1> QED
  BY <1>1, <1>2, <1>3

(* Only a new request gets onto the list.                                   *)
LEMMA OnlyNew ==
    ASSUME RequestInv, [Next]_vars, NEW r \in ToSet(queue') \ Queued
    PROVE  \E b \in Bios : NewRequest(b)
<1> SUFFICES ASSUME \A b \in Bios : ~NewRequest(b)
             PROVE  ToSet(queue') \subseteq Queued
  OBVIOUS
<1>1. CASE queue' = queue
  BY <1>1 DEF Queued
<1>2. CASE \E b \in Bios : BackMerge(b)
  <2>1. PICK b \in Bios : BackMerge(b)
    BY <1>2
  <2>2. PICK x \in Queued :
            \/ queue' = queue
            \/ LatterRequest(x) # Nil /\ MergedRequests(x, LatterRequest(x))
    BY <2>1 DEF BackMerge
  <2>3. CASE LatterRequest(x) # Nil /\ MergedRequests(x, LatterRequest(x))
    <3>1. LatterRequest(x) \in Queued
      BY <2>2, <2>3, AtPlace DEF RequestInv
    <3> QED
      BY <2>3, <3>1, MergedOff DEF RequestInv
  <2> QED
    BY <1>1, <2>2, <2>3
<1>3. CASE \E b \in Bios : FrontMerge(b)
  <2>1. PICK b \in Bios : FrontMerge(b)
    BY <1>3
  <2>2. PICK x \in Queued : queue' = queue \/ MergedRequests(FormerRequest(x), x)
    BY <2>1 DEF FrontMerge
  <2>3. CASE MergedRequests(FormerRequest(x), x)
    BY <2>3, MergedOff DEF RequestInv
  <2> QED
    BY <1>1, <2>2, <2>3
<1>4. CASE SwitchElevator
  <2>1. queue' = <<>>
    BY <1>4 DEF SwitchElevator, NewElevator
  <2>2. ToSet(<<>>) = {}
    BY NoElement
  <2> QED
    BY <2>1, <2>2
<1>5. CASE Fetch
  BY <1>5, FetchOne DEF RequestInv, Fetch, Dispatch, Queued
<1> QED
  BY <1>1, <1>2, <1>3, <1>4, <1>5
     DEF Next, Submit, EndSectorMoves, brdd_request, StartRequests, Transfer, EndBio,
         TransferWithoutCipher, InitAndExit, AddDisk, AllocCipher, SetKey, SetKeyOfError,
         DelGendisk, FreeCipher, vars, elevator, driver

\* What NearestIsNext says of a new request.
GoesNearest(r) ==
    LET k == CHOOSE i \in DOMAIN queue' : queue'[i] = r
        Start(i) == Head(bios'[queue'[i]]).sector
        Ahead(i) == IF i = 1 THEN end_sector ELSE Start(i - 1)
    IN  /\ \A i \in 1 .. k - 1 :
              \/ Seek(Start(i), Ahead(i)) < Seek(Start(k), Ahead(i))
              \/ Seek(Start(i), Ahead(i)) >= UintRange
        /\ k < Len(queue') =>
              \/ Seek(Start(k), Ahead(k)) <= Seek(Start(k + 1), Ahead(k))
              \/ Seek(Start(k), Ahead(k)) >= UintRange
        /\ RemoveAt(queue', k) = queue

(* The loop leaves the new request where NearestIsNext wants it.            *)
LEMMA NewGoesNearest ==
    ASSUME RequestInv, DriverInv, NEW b \in Bios, NewRequest(b),
           NEW r \in ToSet(queue') \ Queued
    PROVE  GoesNearest(r)
<1>1. PICK x \in Requests : /\ bios[x] = <<>>
                           /\ bios' = [bios EXCEPT ![x] = <<b>>]
                           /\ AddRequest(x, b.sector)
  BY DEF NewRequest
<1>2. x \notin Queued
  BY <1>1 DEF RequestInv
<1>3. r = x
  BY <1>1, <1>2, AddedOn DEF RequestInv
<1>4. /\ Len(queue) \in Nat /\ queue \in Seq(Requests)
      /\ \A i \in 1 .. Len(queue) : queue[i] \in Requests /\ queue[i] # x
  BY <1>2, ToSetOfSeq, ElementOfSeq DEF RequestInv, Queued
<1>5. PICK k \in 1 .. Len(queue) + 1 :
         /\ k = Place(b.sector) /\ Halts(b.sector, k)
         /\ \A i \in 1 .. k - 1 : ~Halts(b.sector, i)
  BY <1>4, PlaceIsFirst
<1>6. queue' = InsertAt(queue, k, x)
  BY <1>1, <1>5 DEF AddRequest
<1>7. queue' \in Seq(Requests) /\ Inserted(queue, k, x, queue')
  BY <1>4, <1>6, InsertAtInserts
<1>8. /\ Len(queue') = Len(queue) + 1 /\ DOMAIN queue' = 1 .. Len(queue) + 1
      /\ queue'[k] = x
      /\ \A i \in 1 .. k - 1 : queue'[i] = queue[i]
      /\ k <= Len(queue) => queue'[k + 1] = queue[k]
  <2>1. Len(queue') = Len(queue) + 1 /\ DOMAIN queue' = 1 .. Len(queue')
    BY <1>7, LenProperties DEF Inserted
  <2>2. queue'[k] = x
    BY <1>4, <1>7 DEF Inserted
  <2>3. \A i \in 1 .. k - 1 : queue'[i] = queue[i]
    BY <1>4, <1>7 DEF Inserted
  <2>4. ASSUME k <= Len(queue)
        PROVE  queue'[k + 1] = queue[k]
    <3>1. k + 1 \in 1 .. Len(queue) + 1 /\ ~(k + 1 < k) /\ k + 1 # k /\ (k + 1) - 1 = k
      BY <1>4, <2>4
    <3> QED
      BY <3>1, <1>7 DEF Inserted
  <2> QED
    BY <2>1, <2>2, <2>3, <2>4
<1>9. ASSUME NEW i \in DOMAIN queue', queue'[i] = r
      PROVE  i = k
  <2>1. CASE i < k
    BY <2>1, <1>3, <1>4, <1>8, <1>9
  <2>2. CASE i > k
    <3>1. i - 1 \in 1 .. Len(queue) /\ i \in 1 .. Len(queue) + 1 /\ ~(i < k) /\ i # k
      BY <2>2, <1>4, <1>8, <1>9
    <3>2. queue'[i] = queue[i - 1]
      BY <3>1, <1>7 DEF Inserted
    <3> QED
      BY <3>1, <3>2, <1>3, <1>4, <1>9
  <2> QED
    BY <2>1, <2>2, <1>4, <1>8, <1>9
<1>10. (CHOOSE i \in DOMAIN queue' : queue'[i] = r) = k
  BY <1>3, <1>8, <1>9
<1> DEFINE Start(i) == Head(bios'[queue'[i]]).sector
           Ahead(i) == IF i = 1 THEN end_sector ELSE Start(i - 1)
<1>11. /\ Start(k) = b.sector
       /\ \A i \in 1 .. Len(queue) : Head(bios'[queue[i]]).sector = Pos(queue[i])
  <2>1. bios \in [Requests -> Seq(Bios)]
    BY DEF RequestInv, Carried
  <2>2. bios'[x] = <<b>> /\ \A q \in Requests : q # x => bios'[q] = bios[q]
    BY <1>1, <2>1
  <2>3. Head(<<b>>) = b
    OBVIOUS
  <2> QED
    BY <2>2, <2>3, <1>4, <1>8 DEF Pos
<1>12. /\ \A i \in 1 .. k - 1 : Start(i) = Pos(queue[i])
       /\ k <= Len(queue) => Start(k + 1) = Pos(queue[k])
  BY <1>4, <1>8, <1>11
<1> HIDE DEF Start
<1>13. \A i \in 1 .. k : Ahead(i) = EndRef(i)
  <2> SUFFICES ASSUME NEW i \in 1 .. k
               PROVE  Ahead(i) = EndRef(i)
    OBVIOUS
  <2>1. CASE i = 1
    BY <2>1 DEF EndRef
  <2>2. CASE i # 1
    <3>1. i - 1 \in 1 .. k - 1
      BY <2>2
    <3> QED
      BY <2>2, <3>1, <1>12 DEF EndRef
  <2> QED
    BY <2>1, <2>2
<1> HIDE DEF Ahead
<1>14. b.sector \in Nat
  BY StopsType, BiosAssumption
<1>15. ASSUME NEW i \in 1 .. k - 1
       PROVE  \/ Seek(Start(i), Ahead(i)) < Seek(Start(k), Ahead(i))
              \/ Seek(Start(i), Ahead(i)) >= UintRange
  <2>1. i \in 1 .. Len(queue) /\ i \in 1 .. k /\ i \in 1 .. Len(queue) + 1
    BY <1>4
  <2>2. ~(Distance(Pos(queue[i]), EndRef(i)) >= Distance(b.sector, EndRef(i)))
    BY <1>5 DEF Halts
  <2>3. Pos(queue[i]) \in Nat /\ EndRef(i) \in Nat
    BY <2>1, StopsType
  <2>4. \/ Seek(Pos(queue[i]), EndRef(i)) < Seek(b.sector, EndRef(i))
        \/ Seek(Pos(queue[i]), EndRef(i)) >= UintRange
    BY <2>2, <2>3, <1>14, DistanceCompares
  <2> QED
    BY <2>1, <2>4, <1>11, <1>12, <1>13
<1>16. ASSUME k < Len(queue')
       PROVE  \/ Seek(Start(k), Ahead(k)) <= Seek(Start(k + 1), Ahead(k))
              \/ Seek(Start(k), Ahead(k)) >= UintRange
  <2>1. k <= Len(queue) /\ k \in 1 .. Len(queue) /\ k \in 1 .. k
    BY <1>4, <1>8, <1>16
  <2>2. Distance(Pos(queue[k]), EndRef(k)) >= Distance(b.sector, EndRef(k))
    BY <1>4, <1>5, <2>1 DEF Halts
  <2>3. Pos(queue[k]) \in Nat /\ EndRef(k) \in Nat
    BY <2>1, StopsType
  <2>4. \/ Seek(b.sector, EndRef(k)) <= Seek(Pos(queue[k]), EndRef(k))
        \/ Seek(b.sector, EndRef(k)) >= UintRange
    BY <2>2, <2>3, <1>14, DistanceCompares
  <2> QED
    BY <2>1, <2>4, <1>11, <1>12, <1>13
<1>17. RemoveAt(queue', k) = queue
  BY <1>4, <1>6, RemoveUndoesInsert
<1> DEFINE at == CHOOSE i \in DOMAIN queue' : queue'[i] = r
<1>18. at = k
  BY <1>10
<1> HIDE DEF at
<1>19. /\ \A i \in 1 .. at - 1 :
             \/ Seek(Start(i), Ahead(i)) < Seek(Start(at), Ahead(i))
             \/ Seek(Start(i), Ahead(i)) >= UintRange
       /\ at < Len(queue') =>
             \/ Seek(Start(at), Ahead(at)) <= Seek(Start(at + 1), Ahead(at))
             \/ Seek(Start(at), Ahead(at)) >= UintRange
       /\ RemoveAt(queue', at) = queue
  BY <1>15, <1>16, <1>17, <1>18
<1> QED
  BY <1>19, Zenon DEF GoesNearest, Start, Ahead, at

(* From the request ahead of a new one the head goes no farther to it than   *)
(* to the one it pushes back, and it was passed only over requests that are  *)
(* strictly less far from the ones ahead of them, both unless a seek is too  *)
(* long for unsigned int; the others keep their order (sstf_add_request,     *)
(* sstf-iosched.c:83-128).                                                  *)
THEOREM NearestCorrect == Spec => NearestIsNext
<1>1. RequestInv /\ DriverInv /\ [Next]_vars
         => [\A r \in ToSet(queue') \ Queued : GoesNearest(r)]_elevator
  BY OnlyNew, NewGoesNearest
<1>2. [\A r \in ToSet(queue') \ Queued : GoesNearest(r)]_elevator
         => [\A r \in ToSet(queue') \ Queued :
               LET k == CHOOSE i \in DOMAIN queue' : queue'[i] = r
                   Start(i) == Head(bios'[queue'[i]]).sector
                   Ahead(i) == IF i = 1 THEN end_sector ELSE Start(i - 1)
               IN  /\ \A i \in 1 .. k - 1 :
                         \/ Seek(Start(i), Ahead(i)) < Seek(Start(k), Ahead(i))
                         \/ Seek(Start(i), Ahead(i)) >= UintRange
                   /\ k < Len(queue') =>
                         \/ Seek(Start(k), Ahead(k)) <= Seek(Start(k + 1), Ahead(k))
                         \/ Seek(Start(k), Ahead(k)) >= UintRange
                   /\ RemoveAt(queue', k) = queue]_elevator
  BY DEF GoesNearest
<1> QED
  BY <1>1, <1>2, RequestCorrect, DriverCorrect, PTL DEF Spec, NearestIsNext
=============================================================================
